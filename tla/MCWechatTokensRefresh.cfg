\* The default /cgi-bin/token request, memory storage.
CONSTANTS
  Callers <- MCCallers
  MaxCalls = 2
  Lifetime = 5
  Margin = 2
  Grace = 3
  MaxCallTime = 1
  MaxTime = 5
  MaxTokens = 3
  StableModes = {FALSE}
  Backends = {"memory"}
  None = None
SPECIFICATION Spec
\* The callers stop after MaxCalls calls and the clock after MaxTime.
CHECK_DEADLOCK FALSE
INVARIANT
  NoInvalidTokenError
