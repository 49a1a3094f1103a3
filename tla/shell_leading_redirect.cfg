\* Lines of up to three tokens.
CONSTANTS
  MAXARGS = 6
  MaxTokens = 3
SPECIFICATION Spec
INVARIANT RedirectsSupported
CHECK_DEADLOCK FALSE
