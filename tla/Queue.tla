-------------------------------- MODULE Queue --------------------------------
(***************************************************************************)
(* queue.Queue of src/queue/queue.go: a slice `waiting` under a mutex, an  *)
(* unbuffered channel `reading`, one Read goroutine that forwards items to *)
(* its consumer, concurrent Write calls, and the goroutine New starts that *)
(* on cancellation of the queue's context closes `reading` and hands what *)
(* is left in `waiting` to the save handler.                              *)
(*                                                                         *)
(* Every value is written by its own goroutine (one Write call each).     *)
(* A Go select picks at random among its ready cases and takes `default`  *)
(* only when none is ready; a send on a closed channel is ready and       *)
(* panics (recovered by Write into an error); a receive on a closed       *)
(* channel is ready and yields the zero value, Zero.  `time.After` of     *)
(* Read's select can fire at any time.                                    *)
(***************************************************************************)
EXTENDS Naturals, Sequences, SequencesExt

CONSTANTS
  Values,     \* the values written by concurrent Write calls
  Initial,    \* the WithData option: a sequence of values the queue starts with
  Zero,       \* model value: the zero value of T (nil for *Task)
  MaxZeros    \* bound on zero values the Read goroutine forwards after close

VARIABLES
  ctxDone,    \* the queue's context q.ctx is cancelled
  readDone,   \* the context passed to Read is cancelled
  closed,     \* `reading` has been closed
  waiting,    \* q.waiting
  sh,         \* the shutdown goroutine: "wait", "closed" (after close), "saved"
  saved,      \* the list handed to the save handler
  wpc,        \* wpc[v]: the Write(v) call's progress
  rpc,        \* the Read goroutine: "drain", "send", "parked", "exited"
  local,      \* the values the Read goroutine is sending on ch, in order
  out         \* the values the consumer received from Read's channel

qvars == <<ctxDone, readDone, closed, waiting, sh, saved, wpc, rpc, local, out>>

\* Write(v) outcomes: "idle" (not yet called), "appending" (select took
\* default, q.write(v) not yet done), "queued" (in the slice), "handed"
\* (received by Read through `reading`), "dropped" (the ctx.Done case: nil
\* returned, nothing kept), "failed" (send on closed `reading`: error).
WriterStates == {"idle", "appending", "queued", "handed", "dropped", "failed"}

ZerosOut == Len(SelectSeq(out, LAMBDA x : x = Zero))

QInit ==
  /\ ctxDone = FALSE /\ readDone = FALSE /\ closed = FALSE
  /\ waiting = Initial
  /\ sh = "wait" /\ saved = <<>>
  /\ wpc = [v \in Values |-> "idle"]
  /\ rpc = "drain" /\ local = <<>> /\ out = <<>>

\* The cancel function of q.ctx is called.
Cancel ==
  /\ ~ctxDone
  /\ ctxDone' = TRUE
  /\ UNCHANGED <<readDone, closed, waiting, sh, saved, wpc, rpc, local, out>>

\* The cancel function of Read's ctx is called.
CancelRead ==
  /\ ~readDone
  /\ readDone' = TRUE
  /\ UNCHANGED <<ctxDone, closed, waiting, sh, saved, wpc, rpc, local, out>>

\* The goroutine of New: `<-ctx.Done(); close(reading)`.
ShutdownClose ==
  /\ ctxDone /\ sh = "wait"
  /\ closed' = TRUE /\ sh' = "closed"
  /\ UNCHANGED <<ctxDone, readDone, waiting, saved, wpc, rpc, local, out>>

\* Mutant: read() returning the slice without resetting q.waiting.
readKeep(w) == [list |-> w, rest |-> w]

\* read(): under the mutex, take the whole slice and reset it.
read(w) == [list |-> w, rest |-> <<>>]

\* ... then `q.save(q.read())`.
ShutdownSave ==
  /\ sh = "closed"
  /\ saved' = read(waiting).list /\ waiting' = read(waiting).rest
  /\ sh' = "saved"
  /\ UNCHANGED <<ctxDone, readDone, closed, wpc, rpc, local, out>>

\* Write(v)'s select.  The ctx.Done case returns nil without keeping v; the
\* send on a closed `reading` panics and is recovered into an error; the
\* send is received by a Read goroutine parked in its select;
\* default is taken only when no case is ready.
WriteSelect(v) ==
  /\ wpc[v] = "idle"
  /\ \/ /\ ctxDone
        /\ wpc' = [wpc EXCEPT ![v] = "dropped"]
        /\ UNCHANGED <<rpc, local>>
     \/ /\ closed
        /\ wpc' = [wpc EXCEPT ![v] = "failed"]
        /\ UNCHANGED <<rpc, local>>
     \/ /\ rpc = "parked" /\ ~ctxDone /\ ~readDone
        /\ wpc' = [wpc EXCEPT ![v] = "handed"]
        /\ rpc' = "send" /\ local' = <<v>>
     \/ /\ ~ctxDone /\ rpc # "parked"
        /\ wpc' = [wpc EXCEPT ![v] = "appending"]
        /\ UNCHANGED <<rpc, local>>
  /\ UNCHANGED <<ctxDone, readDone, closed, waiting, sh, saved, out>>

\* write(v): append under the mutex.
WriteAppend(v) ==
  /\ wpc[v] = "appending"
  /\ waiting' = Append(waiting, v)
  /\ wpc' = [wpc EXCEPT ![v] = "queued"]
  /\ UNCHANGED <<ctxDone, readDone, closed, sh, saved, rpc, local, out>>

\* Read's loop head: `for _, v := range q.read()`.
ReaderDrain ==
  /\ rpc = "drain"
  /\ local' = read(waiting).list /\ waiting' = read(waiting).rest
  /\ rpc' = "send"
  /\ UNCHANGED <<ctxDone, readDone, closed, sh, saved, wpc, out>>

\* `ch <- v`, with no select on any context: blocks until the consumer
\* takes the value.
ReaderSend ==
  /\ rpc = "send" /\ local # <<>>
  /\ out' = Append(out, Head(local)) /\ local' = Tail(local)
  /\ UNCHANGED <<ctxDone, readDone, closed, waiting, sh, saved, wpc, rpc>>

\* Read's select, reached with nothing left to send.  A ready case is
\* taken at random: a done context returns (closing ch); a receive on the
\* closed `reading` yields the zero value, which is sent on.  The fresh
\* timer is never ready yet: with no case ready the goroutine parks.
ReaderArrive ==
  /\ rpc = "send" /\ local = <<>>
  /\ \/ /\ ctxDone \/ readDone
        /\ rpc' = "exited" /\ UNCHANGED local
     \/ /\ closed /\ ZerosOut < MaxZeros
        /\ rpc' = "send" /\ local' = <<Zero>>
     \/ /\ ~(ctxDone \/ readDone \/ closed)
        /\ rpc' = "parked" /\ UNCHANGED local
  /\ UNCHANGED <<ctxDone, readDone, closed, waiting, sh, saved, wpc, out>>

\* Mutant: Read's select without the `time.After(interval)` case.
ReaderWakeNoTimer ==
  /\ rpc = "parked"
  /\ ctxDone \/ readDone
  /\ rpc' = "exited"
  /\ UNCHANGED <<ctxDone, readDone, closed, waiting, sh, saved, wpc, local, out>>

\* The parked select is woken by the first case to become ready: a
\* context being cancelled (close(reading) only follows the cancellation
\* of q.ctx, so it never wakes it first) or the timer, which starts the
\* next round.  A Write's send wakes it in WriteSelect.
ReaderWake ==
  /\ rpc = "parked"
  /\ IF ctxDone \/ readDone THEN rpc' = "exited" ELSE rpc' = "drain"
  /\ UNCHANGED <<ctxDone, readDone, closed, waiting, sh, saved, wpc, local, out>>

QNext ==
  \/ Cancel \/ CancelRead \/ ShutdownClose \/ ShutdownSave
  \/ \E v \in Values : WriteSelect(v) \/ WriteAppend(v)
  \/ ReaderDrain \/ ReaderSend \/ ReaderArrive \/ ReaderWake

\* Each goroutine, once able to run, runs; no goroutine is promised to
\* take one case of a select over another, and no context is ever
\* promised to be cancelled.
QFairness ==
  /\ WF_qvars(ShutdownClose) /\ WF_qvars(ShutdownSave)
  /\ \A v \in Values : WF_qvars(WriteAppend(v))
  /\ WF_qvars(ReaderDrain) /\ WF_qvars(ReaderSend)
  /\ WF_qvars(ReaderArrive) /\ WF_qvars(ReaderWake)

QSpec == QInit /\ [][QNext]_qvars /\ QFairness

-----------------------------------------------------------------------------
(* Properties.                                                             *)

\* Everything written or preloaded, in one list.
Accepted == {Initial[i] : i \in DOMAIN Initial} \cup {v \in Values : wpc[v] \in {"queued", "handed"}}

\* The number of times x has left the queue: forwarded to the consumer or
\* handed to the save handler.
TimesOut(x) ==
  Len(SelectSeq(out, LAMBDA y : y = x)) + Len(SelectSeq(saved, LAMBDA y : y = x))

QTypeOK ==
  /\ ctxDone \in BOOLEAN /\ readDone \in BOOLEAN /\ closed \in BOOLEAN
  /\ waiting \in Seq(Values \cup Range(Initial))
  /\ sh \in {"wait", "closed", "saved"} /\ saved \in Seq(Values \cup Range(Initial))
  /\ wpc \in [Values -> WriterStates]
  /\ rpc \in {"drain", "send", "parked", "exited"}
  /\ local \in Seq(Values \cup Range(Initial) \cup {Zero})
  /\ out \in Seq(Values \cup Range(Initial) \cup {Zero})

\* Once the queue is shut down and the Read goroutine has returned, every
\* item a Write put in the slice or handed to Read, and every preloaded
\* item, has reached the consumer or the save handler: none is lost.
NoWriteLost ==
  (sh = "saved" /\ rpc = "exited" /\ \A v \in Values : wpc[v] # "appending")
    => \A x \in Accepted : TimesOut(x) = 1

=============================================================================
