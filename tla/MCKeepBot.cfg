CONSTANTS
  Exchanges = {e1, e2, e3}
  Enabled = {e1, e2}
  EnableAllExchanges = FALSE
  Authenticated = {e1}
  Websocket = {e1}
  Residents = {s1, s2}
  Guests = {g1}
  Dedicated = {s2}
  Home = e1
SPECIFICATION FairBotSpec
INVARIANTS BotTypeOK NoEventsAfterFailedInit SettledBeforeRun
PROPERTIES CallsInOrder EveryResidentTold CancelEndsBot AddedWhileCounted BuildReturns
CHECK_DEADLOCK FALSE
