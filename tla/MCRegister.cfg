\* Start and End from two goroutines each, End after a Start returned,
\* destroy functions that do not panic.
CONSTANTS
  H = 2
  Starters = {s1, s2}
  Enders = {e1, e2}
  MayPanic = FALSE
  EndAfterStart = TRUE
SPECIFICATION Spec
INVARIANT DestroyAtMostOnce WaitGroupNeverNegative
PROPERTY EveryEndReturns
\* The program stops once Start and End have returned.
CHECK_DEADLOCK FALSE
