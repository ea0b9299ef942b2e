------------------------------- MODULE Logger -------------------------------
(***************************************************************************)
(* log.Logger of src/log/logger.go: a file writer rotated by time.         *)
(*                                                                         *)
(* NewLogger runs checkRotate(time.Now()) (its error is ignored) and       *)
(* starts the rotate goroutine, which calls checkRotate with the time of   *)
(* every tick of the ticker `tc`.  checkRotate holds the write lock of     *)
(* `x`: when the path of the tick's period differs from l.path it opens    *)
(* the new file, closes the old one and swaps l.w and l.path.  Write holds *)
(* the read lock and writes to l.w.  Close stops the ticker.               *)
(*                                                                         *)
(* A period is what GetLogPath's formatting tells apart: times in the same *)
(* Span of ticks give the same path.  fs.MustDir and os.OpenFile fail     *)
(* alike (the error is returned before anything changes); whether        *)
(* l.w.Close may fail is given by CloseOutcomes.  sync.RWMutex blocks new *)
(* readers while a writer waits.                                          *)
(***************************************************************************)
EXTENDS Naturals, FiniteSets

CONSTANTS
  Writers,        \* goroutines calling Write
  MaxWrites,      \* Write calls of each
  Span,           \* ticks per log file period
  MaxTime,        \* bound on the ticks of the ticker
  OpenMayFail,    \* fs.MustDir / os.OpenFile may return an error
  CloseOutcomes,  \* the results l.w.Close() may have: TRUE (nil), FALSE (error)
  None            \* model value: no tick in tc.C

ASSUME Span \in Nat \ {0} /\ CloseOutcomes \subseteq BOOLEAN /\ CloseOutcomes # {}

\* Every period can open one file; a failing Close makes a retry open another.
MaxFiles == MaxTime \div Span + 2
Fid == 1..MaxFiles
NoPath == MaxTime + 1     \* l.path = "" before the first successful rotation

\* GetLogPath(t): the path of a time is its period under the format.
Period(t) == t \div Span

VARIABLES
  now,       \* ticks so far
  tickAt,    \* the time waiting in tc.C (capacity 1), or None
  stopped,   \* l.tc.Stop() was called by Close
  lpath,     \* l.path, as a period
  w,         \* l.w: the file it refers to, 0 for nil
  fstate,    \* fstate[f]: "none" (not opened), "open", "closed"
  nf,        \* the files opened so far
  rpc,       \* the rotate goroutine: "recv", "lock" (waiting), "check", "close", "swap"
  rt,        \* the tick time checkRotate works on
  newf,      \* the file checkRotate opened
  readers,   \* the writers holding the read lock
  wpc,       \* wpc[g]: "idle", "waiting" (in RLock), "locked"
  writes,    \* writes[g]: Write calls made
  badWrite,  \* a Write went to a closed file
  crashed    \* a Write on a nil l.w panicked

vars == <<now, tickAt, stopped, lpath, w, fstate, nf, rpc, rt, newf, readers,
          wpc, writes, badWrite, crashed>>

\* NewLogger: checkRotate(time.Now()) runs before the logger is returned:
\* it opens the first file, or fails and leaves l.w nil and l.path "".
Init ==
  /\ now = 0 /\ tickAt = None /\ stopped = FALSE
  /\ \E ok \in (IF OpenMayFail THEN BOOLEAN ELSE {TRUE}) :
       /\ lpath = (IF ok THEN Period(0) ELSE NoPath)
       /\ w = (IF ok THEN 1 ELSE 0)
       /\ fstate = [f \in Fid |-> IF ok /\ f = 1 THEN "open" ELSE "none"]
       /\ nf = (IF ok THEN 1 ELSE 0)
  /\ rpc = "recv" /\ rt = 0 /\ newf = 0
  /\ readers = {} /\ wpc = [g \in Writers |-> "idle"] /\ writes = [g \in Writers |-> 0]
  /\ badWrite = FALSE /\ crashed = FALSE

\* The ticker: a tick is sent on tc.C, or dropped when the reader lags.
Tick ==
  /\ ~stopped /\ now < MaxTime
  /\ now' = now + 1
  /\ tickAt' = IF tickAt = None THEN now + 1 ELSE tickAt
  /\ UNCHANGED <<stopped, lpath, w, fstate, nf, rpc, rt, newf, readers, wpc, writes, badWrite, crashed>>

\* Close: l.tc.Stop().  tc.C is not closed, and a tick in it stays.
Close ==
  /\ ~stopped /\ stopped' = TRUE
  /\ UNCHANGED <<now, tickAt, lpath, w, fstate, nf, rpc, rt, newf, readers, wpc, writes, badWrite, crashed>>

\* rotate: `t, ok := <-l.tc.C`.  tc.C is never closed, so ok is always
\* true and the loop (and its deferred l.w.Close) never ends.
RotRecv ==
  /\ rpc = "recv" /\ tickAt # None
  /\ rt' = tickAt /\ tickAt' = None /\ rpc' = "lock"
  /\ UNCHANGED <<now, stopped, lpath, w, fstate, nf, newf, readers, wpc, writes, badWrite, crashed>>

\* checkRotate: l.x.Lock() waits for the readers to leave.
RotLock ==
  /\ rpc = "lock" /\ readers = {}
  /\ rpc' = "check"
  /\ UNCHANGED <<now, tickAt, stopped, lpath, w, fstate, nf, rt, newf, readers, wpc, writes, badWrite, crashed>>

\* Mutant: the early return on an unchanged path does not unlock.
RotCheckNoUnlock ==
  /\ rpc = "check"
  /\ \/ Period(rt) = lpath /\ UNCHANGED <<rpc, fstate, nf, newf>>
     \/ /\ Period(rt) # lpath /\ OpenMayFail
        /\ rpc' = "recv" /\ UNCHANGED <<fstate, nf, newf>>
     \/ /\ Period(rt) # lpath /\ nf < MaxFiles
        /\ nf' = nf + 1 /\ newf' = nf + 1
        /\ fstate' = [fstate EXCEPT ![nf + 1] = "open"] /\ rpc' = "close"
  /\ UNCHANGED <<now, tickAt, stopped, lpath, w, rt, readers, wpc, writes, badWrite, crashed>>

\* Mutant: the error of os.OpenFile ignored; the unopened file is swapped in.
RotCheckIgnoreOpenError ==
  /\ rpc = "check"
  /\ \/ Period(rt) = lpath /\ rpc' = "recv" /\ UNCHANGED <<fstate, nf, newf>>
     \/ /\ Period(rt) # lpath /\ OpenMayFail /\ nf < MaxFiles
        /\ nf' = nf + 1 /\ newf' = nf + 1 /\ rpc' = "close" /\ UNCHANGED fstate
     \/ /\ Period(rt) # lpath /\ nf < MaxFiles
        /\ nf' = nf + 1 /\ newf' = nf + 1
        /\ fstate' = [fstate EXCEPT ![nf + 1] = "open"] /\ rpc' = "close"
  /\ UNCHANGED <<now, tickAt, stopped, lpath, w, rt, readers, wpc, writes, badWrite, crashed>>

\* checkRotate under the lock: the same path returns (deferred Unlock);
\* fs.MustDir or os.OpenFile may fail and return; else the file opens.
RotCheck ==
  /\ rpc = "check"
  /\ \/ Period(rt) = lpath /\ rpc' = "recv" /\ UNCHANGED <<fstate, nf, newf>>
     \/ /\ Period(rt) # lpath /\ OpenMayFail
        /\ rpc' = "recv" /\ UNCHANGED <<fstate, nf, newf>>
     \/ /\ Period(rt) # lpath /\ nf < MaxFiles
        /\ nf' = nf + 1 /\ newf' = nf + 1
        /\ fstate' = [fstate EXCEPT ![nf + 1] = "open"] /\ rpc' = "close"
  /\ UNCHANGED <<now, tickAt, stopped, lpath, w, rt, readers, wpc, writes, badWrite, crashed>>

\* Mutant: the old writer is never closed.
RotCloseSkip ==
  /\ rpc = "close"
  /\ rpc' = "swap" /\ UNCHANGED fstate
  /\ UNCHANGED <<now, tickAt, stopped, lpath, w, nf, rt, newf, readers, wpc, writes, badWrite, crashed>>

\* `if l.w != nil { l.w.Close() }`.  os.File.Close marks the file closed
\* even when it reports an error; on an error checkRotate returns, leaving
\* the new file open and unreferenced and l.w, l.path as they were.  A
\* second Close of that file fails again (os.ErrClosed).
RotClose ==
  /\ rpc = "close"
  /\ fstate' = IF w # 0 THEN [fstate EXCEPT ![w] = "closed"] ELSE fstate
  /\ \E ok \in CloseOutcomes :
       rpc' = IF w = 0 \/ (ok /\ fstate[w] = "open") THEN "swap" ELSE "recv"
  /\ UNCHANGED <<now, tickAt, stopped, lpath, w, nf, rt, newf, readers, wpc, writes, badWrite, crashed>>

\* `l.w = file; l.path = path`, then the deferred Unlock.
RotSwap ==
  /\ rpc = "swap"
  /\ w' = newf /\ lpath' = Period(rt) /\ rpc' = "recv"
  /\ UNCHANGED <<now, tickAt, stopped, fstate, nf, rt, newf, readers, wpc, writes, badWrite, crashed>>

\* A goroutine calls Write.
WriteCall(g) ==
  /\ wpc[g] = "idle" /\ writes[g] < MaxWrites
  /\ wpc' = [wpc EXCEPT ![g] = "waiting"] /\ writes' = [writes EXCEPT ![g] = @ + 1]
  /\ UNCHANGED <<now, tickAt, stopped, lpath, w, fstate, nf, rpc, rt, newf, readers, badWrite, crashed>>

\* Mutant: Write without l.x.RLock().
WriteLockNoWait(g) ==
  /\ wpc[g] = "waiting"
  /\ readers' = readers \cup {g} /\ wpc' = [wpc EXCEPT ![g] = "locked"]
  /\ UNCHANGED <<now, tickAt, stopped, lpath, w, fstate, nf, rpc, rt, newf, writes, badWrite, crashed>>

\* l.x.RLock(): blocks while the rotate goroutine holds or waits for Lock.
WriteLock(g) ==
  /\ wpc[g] = "waiting" /\ rpc \in {"recv"}
  /\ readers' = readers \cup {g} /\ wpc' = [wpc EXCEPT ![g] = "locked"]
  /\ UNCHANGED <<now, tickAt, stopped, lpath, w, fstate, nf, rpc, rt, newf, writes, badWrite, crashed>>

\* l.w.Write(p) and the deferred RUnlock.  A nil l.w panics.
WriteDo(g) ==
  /\ wpc[g] = "locked"
  /\ IF w = 0
       THEN crashed' = TRUE /\ UNCHANGED <<badWrite, readers, wpc>>
       ELSE /\ badWrite' = (badWrite \/ fstate[w] = "closed")
            /\ readers' = readers \ {g} /\ wpc' = [wpc EXCEPT ![g] = "idle"]
            /\ UNCHANGED crashed
  /\ UNCHANGED <<now, tickAt, stopped, lpath, w, fstate, nf, rpc, rt, newf, writes>>

\* A panic in Write ends the process.
Next ==
  /\ ~crashed
  /\ \/ Tick \/ Close \/ RotRecv \/ RotLock \/ RotCheck \/ RotClose \/ RotSwap
     \/ \E g \in Writers : WriteCall(g) \/ WriteLock(g) \/ WriteDo(g)

\* Goroutines that can run do; the ticker keeps ticking until Close;
\* nobody has to call Write or Close.
Spec ==
  /\ Init /\ [][Next]_vars
  /\ WF_vars(~crashed /\ Tick)
  /\ WF_vars(~crashed /\ (RotRecv \/ RotLock \/ RotCheck \/ RotClose \/ RotSwap))
  /\ \A g \in Writers : WF_vars(~crashed /\ (WriteLock(g) \/ WriteDo(g)))

-----------------------------------------------------------------------------
(* Properties.                                                             *)

\* l.w is nil or a file that was opened.
TypeOK ==
  /\ now \in 0..MaxTime /\ tickAt \in 0..MaxTime \cup {None}
  /\ lpath \in 0..Period(MaxTime) \cup {NoPath} /\ nf \in 0..MaxFiles
  /\ fstate \in [Fid -> {"none", "open", "closed"}]
  /\ w \in 0..MaxFiles /\ (w # 0 => fstate[w] # "none")
  /\ rpc \in {"recv", "lock", "check", "close", "swap"}
  /\ readers \subseteq Writers /\ wpc \in [Writers -> {"idle", "waiting", "locked"}]

\* No Write goes to a closed file: checkRotate closes the old l.w and
\* swaps in the new one under the write lock, so a Write, under the read
\* lock, never sees the closed file still in l.w.
NoWriteToClosedFile == ~badWrite

\* At most the file in l.w is open, besides the one checkRotate is
\* swapping in: each rotation closes the file it replaces.
OnlyCurrentFileOpen ==
  \A f \in Fid : fstate[f] = "open" => f = w \/ (rpc \in {"close", "swap"} /\ f = newf)

\* Every Write returns (or the process panicked): the rotate goroutine's
\* write lock is always released, and a waiting Lock does not starve the
\* readers forever.
EveryWriteReturns ==
  \A g \in Writers : wpc[g] = "waiting" ~> (wpc[g] = "idle" \/ crashed)

=============================================================================
