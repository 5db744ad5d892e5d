CONSTANTS
  Orders = {o1, o2}
  Resting = {r1}
  NoOne = NoOne
SPECIFICATION FairBulkSpec
INVARIANTS BulkTypeOK AllErrorsReturned SurvivorsReported SubmittedAreOut
PROPERTY BothReturn
CHECK_DEADLOCK FALSE
