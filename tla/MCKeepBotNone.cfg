CONSTANTS
  Exchanges = {e1, e2}
  Enabled = {e1}
  EnableAllExchanges = TRUE
  Authenticated = {e1}
  Websocket = {e1}
  Residents = {s1}
  Guests = {}
  Dedicated = {}
  Home = e1
SPECIFICATION BotSpec
INVARIANT NoneLoadedIsError
CHECK_DEADLOCK FALSE
