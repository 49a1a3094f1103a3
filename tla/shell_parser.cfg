\* All lines of up to seven tokens: one more than argv has room for.
CONSTANTS
  MAXARGS = 6
  MaxTokens = 7
SPECIFICATION Spec
INVARIANTS TypeOK RefusesOnlyBad ParsesAsMeant ArgvFits
PROPERTY ParserEnds
CHECK_DEADLOCK FALSE
