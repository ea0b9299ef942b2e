\* Two Do calls, Listen with one retry, cancellation at any point.
CONSTANTS
  Tasks = {t1, t2}
  RetryMax = 1
  BufSize = 1
  Nil = Nil
  None = None
  MaxZeros = 1
SPECIFICATION Spec
INVARIANT SingleCopy RetriesBounded
PROPERTY RetryEventually
\* After the cancellation every goroutine returns (or the process panics).
CHECK_DEADLOCK FALSE
