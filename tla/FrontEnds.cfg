SPECIFICATION DriverSpec
CONSTANTS
  YYINITDEPTH = 3
  YYMAXDEPTH = 11
  BodyTokens = 7
  MaxTokens = 13
  EditTokens = 8
  MaxArgs = 4
  Invocations <- MCInvocations
INVARIANTS
  RoomToPush
  ArgumentsUnderstood
  BisonDelivers
  RDFaults
  RDDelivers
  AntlrDelivers
PROPERTY
  BisonAnswers
CHECK_DEADLOCK FALSE
