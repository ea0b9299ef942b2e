\* A unit is 5 s: FixMargin 2 is FixExpireAt's 10 s and Timeout 2 the
\* default 10 s http.Client.Timeout.
CONSTANTS
  Callers <- MCCallers
  MaxCalls = 2
  Lifetime = 4
  FixMargin = 2
  Timeout = 2
  MaxTime = 4
  MaxTokens = 3
  Storagers = {FALSE, TRUE}
  None = None
SPECIFICATION Spec
\* The callers stop after MaxCalls calls, and the clock at its bound.
CHECK_DEADLOCK FALSE
INVARIANTS
  TypeOK
  StoredExpiryNeverLate
  ValidWhenSent
PROPERTY
  EveryCallReturns
