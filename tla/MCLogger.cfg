\* Open errors possible, Close never fails.
CONSTANTS
  Writers <- MCWriters
  MaxWrites = 2
  Span = 2
  MaxTime = 4
  OpenMayFail = TRUE
  CloseOutcomes = {TRUE}
  None = None
SPECIFICATION Spec
\* After Close, or at the tick bound, the goroutines block for good: the
\* rotate goroutine waits on tc.C forever.
CHECK_DEADLOCK FALSE
INVARIANTS
  TypeOK
  NoWriteToClosedFile
  OnlyCurrentFileOpen
PROPERTY
  EveryWriteReturns
