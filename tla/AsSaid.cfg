SPECIFICATION DriverSpec
CONSTANTS
  YYINITDEPTH = 3
  YYMAXDEPTH = 24
  BodyTokens = 6
  MaxTokens = 15
  EditTokens = 0
  MaxArgs = 0
  Invocations <- MCInvocations
INVARIANT SomeFrontEndAsSaid
CHECK_DEADLOCK FALSE
