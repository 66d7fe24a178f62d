CONSTANTS
  Lines <- AmpLines
  Requests <- GitRequests
  Maximum <- Limits
SPECIFICATION CFairSpec
INVARIANTS NoSurvivors OnlyOwnGroup AnswerIsWhole
PROPERTIES Returns
CHECK_DEADLOCK FALSE
