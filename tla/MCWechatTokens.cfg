\* UseStableAccessToken, memory and file storage.
CONSTANTS
  Callers <- MCCallers
  MaxCalls = 2
  Lifetime = 5
  Margin = 2
  Grace = 3
  MaxCallTime = 1
  MaxTime = 5
  MaxTokens = 3
  StableModes = {TRUE}
  Backends = {"memory", "file", "redis"}
  None = None
SPECIFICATION Spec
\* The callers stop after MaxCalls calls and the clock after MaxTime.
CHECK_DEADLOCK FALSE
INVARIANTS
  TypeOK
  CachedExpiryNeverLate
  NoInvalidTokenError
