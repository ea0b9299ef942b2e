------------------------------- MODULE Limiter -------------------------------
(***************************************************************************)
(* limiter.Limiter of src/common/limiter/limiter.go: a token bucket, the   *)
(* buffered channel `tokens` of capacity `concurrency`, filled by assign() *)
(* with up to `assignCount` tokens at every tick of a ticker goroutine.   *)
(* start() runs the first assign() in its caller (New), or schedules it   *)
(* with time.AfterFunc in its own goroutine (NewWithDelay).  Stop closes  *)
(* `done`; the ticker goroutine then returns and closes `tokens`.         *)
(*                                                                         *)
(* assign's select picks at random among its ready cases (a closed `done`; *)
(* a send on `tokens`, which panics if `tokens` is closed) and takes      *)
(* default only when none is ready.  Ticks are not counted: the ticker is *)
(* always ready to tick.                                                   *)
(***************************************************************************)
EXTENDS Naturals, FiniteSets

CONSTANTS
  AssignCount,   \* assignCount
  Concurrency,   \* concurrency, the capacity of `tokens`
  Waiters,       \* goroutines calling Wait once each
  DelayModes     \* the subset of {FALSE (New), TRUE (NewWithDelay, delay > 0)} to check

ASSUME AssignCount \in Nat \ {0} /\ Concurrency \in Nat \ {0} /\ DelayModes \subseteq BOOLEAN

VARIABLES
  delayed,   \* the limiter was built by NewWithDelay with delay > 0
  tokens,    \* the number of tokens buffered in `tokens`
  tclosed,   \* `tokens` is closed
  done,      \* `done` is closed (Stop was called)
  gpc,       \* the ticker goroutine: "loop", "assign", "exited"
  gi,        \* the loop index of the ticker goroutine's assign()
  apc,       \* the AfterFunc assign(): "none", "pending", "assign", "finished"
  ai,        \* its loop index
  wst,       \* wst[w]: "waiting", "got" (a token), "empty" (tokens closed)
  panicked   \* a send on the closed `tokens` panicked

vars == <<delayed, tokens, tclosed, done, gpc, gi, apc, ai, wst, panicked>>

Init ==
  /\ delayed \in DelayModes
  \* New runs assign() before returning: nothing can take a token, `done`
  \* is open, so every iteration sends until the bucket is full.
  /\ tokens = IF delayed THEN 0
              ELSE IF AssignCount < Concurrency THEN AssignCount ELSE Concurrency
  /\ tclosed = FALSE /\ done = FALSE
  /\ gpc = "loop" /\ gi = 0
  /\ apc = (IF delayed THEN "pending" ELSE "none") /\ ai = 0
  /\ wst = [w \in Waiters |-> "waiting"]
  /\ panicked = FALSE

\* Mutant: the loop bound `i <= l.assignCount`.
AssignStepsOffByOne(i) ==
  { r \in [i : {i + 1, i}, tokens : {tokens, tokens + 1}, running : BOOLEAN, panic : BOOLEAN] :
      \/ done /\ r = [i |-> i, tokens |-> tokens, running |-> FALSE, panic |-> FALSE]
      \/ tclosed /\ r = [i |-> i, tokens |-> tokens, running |-> FALSE, panic |-> TRUE]
      \/ /\ ~tclosed /\ tokens < Concurrency
         /\ r = [i |-> i + 1, tokens |-> tokens + 1, running |-> i + 1 <= AssignCount, panic |-> FALSE]
      \/ /\ ~done /\ ~tclosed /\ tokens = Concurrency
         /\ r = [i |-> i + 1, tokens |-> tokens, running |-> i + 1 <= AssignCount, panic |-> FALSE] }

\* One iteration of assign()'s loop at index i, as the next [i, tokens,
\* running] of the caller: `done` returns; a send on the closed `tokens`
\* panics; a send with room succeeds; default when neither is ready.
AssignSteps(i) ==
  { r \in [i : {i + 1, i}, tokens : {tokens, tokens + 1}, running : BOOLEAN, panic : BOOLEAN] :
      \/ done /\ r = [i |-> i, tokens |-> tokens, running |-> FALSE, panic |-> FALSE]
      \/ tclosed /\ r = [i |-> i, tokens |-> tokens, running |-> FALSE, panic |-> TRUE]
      \/ /\ ~tclosed /\ tokens < Concurrency
         /\ r = [i |-> i + 1, tokens |-> tokens + 1, running |-> i + 1 < AssignCount, panic |-> FALSE]
      \/ /\ ~done /\ ~tclosed /\ tokens = Concurrency
         /\ r = [i |-> i + 1, tokens |-> tokens, running |-> i + 1 < AssignCount, panic |-> FALSE] }

\* Mutant: the ticker goroutine without `defer close(l.tokens)`.
TickerNoClose ==
  /\ gpc = "loop"
  /\ \/ done /\ gpc' = "exited" /\ UNCHANGED gi
     \/ gpc' = "assign" /\ gi' = 0
  /\ UNCHANGED <<delayed, tokens, tclosed, done, apc, ai, wst, panicked>>

\* The ticker goroutine's select: `done` returns, closing `tokens` (its
\* defer); a tick calls assign().
Ticker ==
  /\ gpc = "loop"
  /\ \/ done /\ gpc' = "exited" /\ tclosed' = TRUE /\ UNCHANGED gi
     \/ gpc' = "assign" /\ gi' = 0 /\ UNCHANGED tclosed
  /\ UNCHANGED <<delayed, tokens, done, apc, ai, wst, panicked>>

\* One iteration of the ticker goroutine's assign().
TickerAssign ==
  /\ gpc = "assign"
  /\ \E r \in AssignSteps(gi) :
       /\ gi' = r.i /\ tokens' = r.tokens /\ panicked' = r.panic
       /\ gpc' = IF r.running THEN "assign" ELSE "loop"
  /\ UNCHANGED <<delayed, tclosed, done, apc, ai, wst>>

\* The timer of time.AfterFunc fires: assign() starts in a new goroutine.
AfterFuncFire ==
  /\ apc = "pending"
  /\ apc' = "assign"
  /\ UNCHANGED <<delayed, tokens, tclosed, done, gpc, gi, ai, wst, panicked>>

\* One iteration of the AfterFunc goroutine's assign().
AfterFuncAssign ==
  /\ apc = "assign"
  /\ \E r \in AssignSteps(ai) :
       /\ ai' = r.i /\ tokens' = r.tokens /\ panicked' = r.panic
       /\ apc' = IF r.running THEN "assign" ELSE "finished"
  /\ UNCHANGED <<delayed, tclosed, done, gpc, gi, wst>>

\* Stop: close(l.done), by the one goroutine that calls it.
Stop ==
  /\ ~done /\ done' = TRUE
  /\ UNCHANGED <<delayed, tokens, tclosed, gpc, gi, apc, ai, wst, panicked>>

\* Wait: `<-l.tokens` takes a buffered token, and returns at once, with no
\* token, from the closed and empty channel.
Wait(w) ==
  /\ wst[w] = "waiting"
  /\ \/ tokens > 0 /\ tokens' = tokens - 1 /\ wst' = [wst EXCEPT ![w] = "got"]
     \/ tclosed /\ tokens = 0 /\ wst' = [wst EXCEPT ![w] = "empty"] /\ UNCHANGED tokens
  /\ UNCHANGED <<delayed, tclosed, done, gpc, gi, apc, ai, panicked>>

Next ==
  /\ ~panicked
  /\ \/ Ticker \/ TickerAssign \/ AfterFuncFire \/ AfterFuncAssign \/ Stop
     \/ \E w \in Waiters : Wait(w)

\* Runnable goroutines run and the ticker keeps ticking; nobody is
\* promised to call Stop.  A select chooses uniformly among its ready
\* cases, so a case ready at every turn of the ticker loop is taken
\* eventually with probability 1: strong fairness of the `done` case.
Spec ==
  /\ Init /\ [][Next]_vars
  /\ WF_vars(~panicked /\ (Ticker \/ TickerAssign))
  /\ SF_vars(~panicked /\ Ticker /\ gpc' = "exited")
  /\ WF_vars(~panicked /\ (AfterFuncFire \/ AfterFuncAssign))
  /\ \A w \in Waiters : WF_vars(~panicked /\ Wait(w))

-----------------------------------------------------------------------------
(* Properties.                                                             *)

TypeOK ==
  /\ delayed \in BOOLEAN /\ tokens \in 0..Concurrency
  /\ tclosed \in BOOLEAN /\ done \in BOOLEAN /\ panicked \in BOOLEAN
  /\ gpc \in {"loop", "assign", "exited"} /\ gi \in 0..AssignCount
  /\ apc \in {"none", "pending", "assign", "finished"} /\ ai \in 0..AssignCount
  /\ wst \in [Waiters -> {"waiting", "got", "empty"}]

\* assign() never sends on the closed `tokens` (which panics): the ticker
\* goroutine's own assign() always finishes before its deferred close,
\* but an assign() scheduled by time.AfterFunc can run after Stop.
NoSendOnClosedTokens == ~panicked

\* No goroutine blocks in Wait forever while the program runs: while the
\* limiter runs the ticker refills the bucket, and after Stop the ticker
\* goroutine closes it.  (A panic in assign ends the whole program.)
EveryWaitReturns == <>(panicked \/ \A w \in Waiters : wst[w] # "waiting")

=============================================================================
