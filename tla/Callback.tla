------------------------------- MODULE Callback -------------------------------
(***************************************************************************)
(* callback.Callback of src/callback: HTTP callbacks with retries, built   *)
(* from queue.Queue (the retry queue, module Queue) and async.MultiRead.   *)
(*                                                                         *)
(* Goroutines once Listen has run stream():                               *)
(*   - the Do callers, one per task, sending on c.listen (buffered);      *)
(*   - the goroutine that on ctx.Done closes c.listen and sets it to nil; *)
(*   - the queue's Read goroutine and shutdown goroutine (module Queue);  *)
(*   - the stream goroutine: ranges over the queue's channel, waits out   *)
(*     the retry delay, sends on the buffered channel ch;                 *)
(*   - two Pipe goroutines of MultiRead, from c.listen and from ch, into  *)
(*     the unbuffered channel Listen ranges over (MultiRead closes it    *)
(*     when both pipes have returned);                                    *)
(*   - Listen itself: do(t), and on failure with tries left, Tries++ and *)
(*     queue.Write(t).                                                    *)
(* One context is given to New and to Listen, as the tests do.  A retry  *)
(* of task t is written to the queue as the value <<t, k>>, its k-th      *)
(* retry, so that every Write is a distinct Write of module Queue.  The  *)
(* outcome of the HTTP request is free, except that a request made with  *)
(* a cancelled context fails.  A panic ends the process: `crash` records  *)
(* which one and nothing moves after it.  Time is not modelled: the retry *)
(* delay is a step that may be taken at any time.                         *)
(***************************************************************************)
EXTENDS Naturals, Sequences, SequencesExt

CONSTANTS
  Tasks,      \* the tasks given to Do, one Do call each
  RetryMax,   \* c.retryMax (WithRetry's max)
  BufSize,    \* Listen's bufSize: the capacity of c.listen and of ch
  Nil,        \* model value: a nil *Task
  None,       \* model value: no task held
  MaxZeros    \* bound on nil values the queue's Read goroutine forwards

ASSUME RetryMax \in Nat /\ BufSize \in Nat \ {0}

VARIABLES
  ctxDone, closed, waiting, sh, saved, wpc, rpc, local, out,   \* the queue
  lst,        \* c.listen: "open", "closed" (closed, not yet nil), "nil"
  lbuf,       \* the tasks buffered in c.listen
  spc,        \* the stream goroutine: "recv", "delay", "send", "closed"
  stask,      \* the task the stream goroutine holds
  chb,        \* the tasks buffered in ch
  pipe,       \* pipe[i]: [pc: "recv" | "send" | "done", v: the value held]
  lpc,        \* Listen: "recv", "do", "write", "append", "end"
  lt,         \* the task Listen is handling
  tries,      \* tries[t]: t.Status.Tries
  attempts,   \* attempts[t]: the number of do(t) calls (history)
  dpc,        \* dpc[t]: the Do(t) call: "idle", "select", "parked", "sent",
              \* "rejected" (error: not listening), "dropped" (ctx.Done)
  crash       \* "none", or the panic that ended the process

qv == <<ctxDone, closed, waiting, sh, saved, wpc, rpc, local, out>>
cv == <<lst, lbuf, spc, stask, chb, pipe, lpc, lt, tries, attempts, dpc, crash>>
vars == <<qv, cv>>

\* The values a retry is written to the queue as: the task and its Tries
\* after the increment.  Tries never exceeds retryMax; the domain has one
\* more so that a state with a wrong retry count can be represented.
RetryValues == Tasks \X (1..RetryMax + 1)

\* The retry queue; the Read goroutine runs with the same context.
Q == INSTANCE Queue WITH Values <- RetryValues, Initial <- << >>, Zero <- Nil,
                         readDone <- ctxDone

Pipes == {"listen", "retry"}

\* A receive from the pipe's source: c.listen, or ch.
Source(i) == IF i = "listen" THEN lbuf ELSE chb
SourceClosed(i) == IF i = "listen" THEN lst # "open" ELSE spc = "closed"

Init ==
  /\ Q!QInit
  /\ lst = "open" /\ lbuf = << >>
  /\ spc = "recv" /\ stask = None /\ chb = << >>
  /\ pipe = [i \in Pipes |-> [pc |-> "recv", v |-> None]]
  /\ lpc = "recv" /\ lt = None
  /\ tries = [t \in Tasks |-> 0] /\ attempts = [t \in Tasks |-> 0]
  /\ dpc = [t \in Tasks |-> "idle"]
  /\ crash = "none"

\* The context is cancelled.
CancelCtx ==
  /\ ~ctxDone /\ ctxDone' = TRUE
  /\ UNCHANGED <<closed, waiting, sh, saved, wpc, rpc, local, out, cv>>

\* The goroutine of stream(): `<-ctx.Done(); close(c.listen)` ...
CloseListen ==
  /\ ctxDone /\ lst = "open" /\ lst' = "closed"
  /\ UNCHANGED <<qv, lbuf, spc, stask, chb, pipe, lpc, lt, tries, attempts, dpc, crash>>

\* ... `c.listen = nil`.
NilListen ==
  /\ lst = "closed" /\ lst' = "nil"
  /\ UNCHANGED <<qv, lbuf, spc, stask, chb, pipe, lpc, lt, tries, attempts, dpc, crash>>

\* Do(t): `if c.listen == nil` returns an error.
DoCheck(t) ==
  /\ dpc[t] = "idle"
  /\ dpc' = [dpc EXCEPT ![t] = IF lst = "nil" THEN "rejected" ELSE "select"]
  /\ UNCHANGED <<qv, lst, lbuf, spc, stask, chb, pipe, lpc, lt, tries, attempts, crash>>

\* Do's select, on arrival: a ready case at random.  c.ctx.Done returns
\* nil, the task dropped; a send on the closed c.listen panics; a send on
\* a nil c.listen is never ready; a send with room in the buffer succeeds.
\* With no case ready the call parks.
DoSelect(t) ==
  /\ dpc[t] = "select"
  /\ \/ ctxDone /\ dpc' = [dpc EXCEPT ![t] = "dropped"] /\ UNCHANGED <<lbuf, crash>>
     \/ lst = "closed" /\ crash' = "send_on_closed" /\ UNCHANGED <<dpc, lbuf>>
     \/ /\ lst = "open" /\ Len(lbuf) < BufSize
        /\ lbuf' = Append(lbuf, t) /\ dpc' = [dpc EXCEPT ![t] = "sent"]
        /\ UNCHANGED crash
     \/ /\ ~ctxDone /\ ~(lst = "open" /\ Len(lbuf) < BufSize)
        /\ dpc' = [dpc EXCEPT ![t] = "parked"] /\ UNCHANGED <<lbuf, crash>>
  /\ UNCHANGED <<qv, lst, spc, stask, chb, pipe, lpc, lt, tries, attempts>>

\* A parked Do is woken by room in c.listen or by the cancellation (which
\* comes before close(c.listen), so a parked Do never panics).
DoWake(t) ==
  /\ dpc[t] = "parked"
  /\ \/ ctxDone /\ dpc' = [dpc EXCEPT ![t] = "dropped"] /\ UNCHANGED lbuf
     \/ /\ ~ctxDone /\ Len(lbuf) < BufSize
        /\ lbuf' = Append(lbuf, t) /\ dpc' = [dpc EXCEPT ![t] = "sent"]
  /\ UNCHANGED <<qv, lst, spc, stask, chb, pipe, lpc, lt, tries, attempts, crash>>

\* The stream goroutine's `range`: take the next value from the queue's
\* Read goroutine.  For a nil value, `time.Since(t.Status.ReqTime)`
\* dereferences nil and panics.
StreamRecv ==
  /\ spc = "recv" /\ Q!ReaderSend
  /\ IF Head(local) = Nil
       THEN crash' = "nil_task" /\ UNCHANGED <<spc, stask>>
       ELSE spc' = "delay" /\ stask' = Head(local)[1] /\ UNCHANGED crash
  /\ UNCHANGED <<lst, lbuf, chb, pipe, lpc, lt, tries, attempts, dpc>>

\* The queue's channel is closed when Read returns: `defer close(ch)`.
StreamEnd ==
  /\ spc = "recv" /\ rpc = "exited" /\ spc' = "closed"
  /\ UNCHANGED <<qv, lst, lbuf, stask, chb, pipe, lpc, lt, tries, attempts, dpc, crash>>

\* The retry delay: `time.After(d)` or ctx.Done.
StreamDelay ==
  /\ spc = "delay" /\ spc' = "send"
  /\ UNCHANGED <<qv, lst, lbuf, stask, chb, pipe, lpc, lt, tries, attempts, dpc, crash>>

\* `select { case <-ctx.Done(): case ch <- t: }`: on ctx.Done the task
\* is dropped.
StreamSend ==
  /\ spc = "send"
  /\ \/ ctxDone /\ UNCHANGED chb
     \/ Len(chb) < BufSize /\ chb' = Append(chb, stask)
  /\ spc' = "recv" /\ stask' = None
  /\ UNCHANGED <<qv, lst, lbuf, pipe, lpc, lt, tries, attempts, dpc, crash>>

\* Pipe's first select: ctx.Done returns; a receive takes the next value,
\* or returns when the source is closed and drained.
PipeRecv(i) ==
  /\ pipe[i].pc = "recv"
  /\ \/ ctxDone /\ pipe' = [pipe EXCEPT ![i].pc = "done"] /\ UNCHANGED <<lbuf, chb>>
     \/ /\ Source(i) # << >>
        /\ pipe' = [pipe EXCEPT ![i] = [pc |-> "send", v |-> Head(Source(i))]]
        /\ IF i = "listen" THEN lbuf' = Tail(lbuf) /\ UNCHANGED chb
                           ELSE chb' = Tail(chb) /\ UNCHANGED lbuf
     \/ /\ Source(i) = << >> /\ SourceClosed(i)
        /\ pipe' = [pipe EXCEPT ![i].pc = "done"] /\ UNCHANGED <<lbuf, chb>>
  /\ UNCHANGED <<qv, lst, spc, stask, lpc, lt, tries, attempts, dpc, crash>>

\* Pipe's second select: hand the value to Listen, or on ctx.Done return
\* and drop it.
PipeSend(i) ==
  /\ pipe[i].pc = "send"
  /\ \/ /\ lpc = "recv"
        /\ lpc' = "do" /\ lt' = pipe[i].v
        /\ pipe' = [pipe EXCEPT ![i] = [pc |-> "recv", v |-> None]]
     \/ /\ ctxDone
        /\ pipe' = [pipe EXCEPT ![i] = [pc |-> "done", v |-> None]]
        /\ UNCHANGED <<lpc, lt>>
  /\ UNCHANGED <<qv, lst, lbuf, spc, stask, chb, tries, attempts, dpc, crash>>

\* MultiRead closes its channel once both pipes returned: Listen's range ends.
ListenEnd ==
  /\ lpc = "recv" /\ \A i \in Pipes : pipe[i].pc = "done"
  /\ lpc' = "end"
  /\ UNCHANGED <<qv, lst, lbuf, spc, stask, chb, pipe, lt, tries, attempts, dpc, crash>>

\* Mutant: the retry test `t.Status.Tries <= c.retryMax`.
RetryLeftOffByOne(t) == tries[t] <= RetryMax

\* `if t.Status.Tries < c.retryMax`
RetryLeft(t) == tries[t] < RetryMax

\* c.do(t), then on an error with tries left: ReqTime, Tries++, Error, and
\* queue.Write(t).  A request on a cancelled context fails.
ListenDo ==
  /\ lpc = "do"
  /\ attempts' = [attempts EXCEPT ![lt] = @ + 1]
  /\ \/ /\ ~ctxDone
        /\ lpc' = "recv" /\ lt' = None /\ UNCHANGED tries
     \/ /\ RetryLeft(lt)
        /\ tries' = [tries EXCEPT ![lt] = @ + 1]
        /\ lpc' = "write"
        /\ UNCHANGED lt
     \/ /\ ~RetryLeft(lt)
        /\ lpc' = "recv" /\ lt' = None /\ UNCHANGED tries
  /\ UNCHANGED <<qv, lst, lbuf, spc, stask, chb, pipe, dpc, crash>>

\* The value this retry is written to the queue as.
RetryValue == <<lt, tries[lt]>>

\* queue.Write(t): its select (module Queue).  Listen goes on unless the
\* select took default, in which case it appends first.
ListenWrite ==
  /\ lpc = "write"
  /\ Q!WriteSelect(RetryValue)
  /\ IF wpc'[RetryValue] = "appending"
       THEN lpc' = "append" /\ UNCHANGED lt
       ELSE lpc' = "recv" /\ lt' = None
  /\ UNCHANGED <<lst, lbuf, spc, stask, chb, pipe, tries, attempts, dpc, crash>>

ListenAppend ==
  /\ lpc = "append"
  /\ Q!WriteAppend(RetryValue)
  /\ lpc' = "recv" /\ lt' = None
  /\ UNCHANGED <<lst, lbuf, spc, stask, chb, pipe, tries, attempts, dpc, crash>>

\* The queue's own goroutines.
QueueStep ==
  /\ \/ Q!ShutdownClose \/ Q!ShutdownSave
     \/ Q!ReaderDrain \/ Q!ReaderArrive \/ Q!ReaderWake
  /\ UNCHANGED cv

Next ==
  /\ crash = "none"
  /\ \/ CancelCtx \/ CloseListen \/ NilListen
     \/ \E t \in Tasks : DoCheck(t) \/ DoSelect(t) \/ DoWake(t)
     \/ StreamRecv \/ StreamEnd \/ StreamDelay \/ StreamSend
     \/ \E i \in Pipes : PipeRecv(i) \/ PipeSend(i)
     \/ ListenEnd \/ ListenDo \/ ListenWrite \/ ListenAppend
     \/ QueueStep

\* Every goroutine that can run eventually runs; nothing promises that the
\* context is ever cancelled, or which ready case a select takes.
Fairness ==
  /\ WF_vars(crash = "none" /\ (CloseListen \/ NilListen))
  /\ \A t \in Tasks : WF_vars(crash = "none" /\ (DoCheck(t) \/ DoSelect(t) \/ DoWake(t)))
  /\ WF_vars(crash = "none" /\ (StreamRecv \/ StreamEnd \/ StreamDelay \/ StreamSend))
  /\ \A i \in Pipes : WF_vars(crash = "none" /\ (PipeRecv(i) \/ PipeSend(i)))
  /\ WF_vars(crash = "none" /\ (ListenEnd \/ ListenDo \/ ListenWrite \/ ListenAppend))
  /\ WF_vars(crash = "none" /\ QueueStep)

Spec == Init /\ [][Next]_vars /\ Fairness

-----------------------------------------------------------------------------
(* Properties.                                                             *)

\* The places a task can be in at once, counted with multiplicity.
Copies(t) ==
  Len(SelectSeq(lbuf, LAMBDA x : x = t)) + Len(SelectSeq(chb, LAMBDA x : x = t))
  + Cardinality({i \in Pipes : pipe[i].pc = "send" /\ pipe[i].v = t})
  + (IF spc \in {"delay", "send"} /\ stask = t THEN 1 ELSE 0)
  + (IF lpc \in {"do", "write", "append"} /\ lt = t THEN 1 ELSE 0)
  + Cardinality({v \in RetryValues : v[1] = t /\ v \in Range(waiting) \cup Range(local)})

\* A task is never in two places of the pipeline at once (so do(t) is
\* never run twice concurrently on one *Task): the queue's two read()s,
\* the rendezvous of Write with Read, the pipes and the stream goroutine
\* move a task, never copy it.
SingleCopy == \A t \in Tasks : Copies(t) <= 1

\* WithRetry(max, ...): a task is requested at most max + 1 times in all.
RetriesBounded == \A t \in Tasks : attempts[t] <= RetryMax + 1

\* A failed task with tries left that was handed to the retry queue is
\* requested again, unless the context is cancelled: the queue's Read
\* goroutine polls the slice on its timer, the stream goroutine forwards,
\* and Listen takes it.
RetryEventually ==
  \A t \in Tasks, k \in 1..RetryMax :
    (wpc[<<t, k>>] \in {"queued", "handed"} /\ attempts[t] = k) ~> (attempts[t] > k \/ ctxDone)

\* No goroutine panics: Do never sends on the closed c.listen, and the
\* stream goroutine never receives a nil task from the queue.
NoPanic == crash = "none"

=============================================================================
