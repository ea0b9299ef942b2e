\* New(d, 1, 2) and NewWithDelay(delay, d, 1, 2), three waiters: the ticker
\* goroutine, the AfterFunc assign, Stop and Wait in every order.
CONSTANTS
  AssignCount = 1
  Concurrency = 2
  Waiters = {w1, w2, w3}
  DelayModes = {FALSE, TRUE}
SPECIFICATION Spec
INVARIANT TypeOK
PROPERTY EveryWaitReturns
\* After Stop every goroutine returns; a panic ends the program.
CHECK_DEADLOCK FALSE
