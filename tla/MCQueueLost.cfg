\* Is every accepted item delivered or saved at shutdown?
CONSTANTS
  Values = {v1, v2}
  Initial <- MCInitial
  Zero = Zero
  MaxZeros = 1
SPECIFICATION QSpec
INVARIANT NoWriteLost
\* Every goroutine returns once the contexts are cancelled.
CHECK_DEADLOCK FALSE
