\* Can a goroutine panic (a send on the closed c.listen, or a nil task)?
CONSTANTS
  Tasks = {t1, t2}
  RetryMax = 1
  BufSize = 1
  Nil = Nil
  None = None
  MaxZeros = 1
SPECIFICATION Spec
INVARIANT NoPanic
\* After the cancellation every goroutine returns (or the process panics).
CHECK_DEADLOCK FALSE
