------------------------------ MODULE Register ------------------------------
(***************************************************************************)
(* bootstrap.Register of src/bootstrap/register.go: start-up handlers run *)
(* once (sync.Once `executed`), each returning a destroy function and an *)
(* error; the destroy functions are run once by End (sync.Once           *)
(* `destroyed`), which then waits on a WaitGroup counted up by Start.     *)
(*                                                                         *)
(* Start and End may be called from several goroutines.  A sync.Once.Do   *)
(* caller that finds the function running blocks until it returns.  What *)
(* each handler does is chosen in Init: return an error, return a destroy *)
(* function, or return none; a destroy function may panic (End recovers  *)
(* the panic, around the whole loop).                                     *)
(***************************************************************************)
EXTENDS Naturals, Sequences, FiniteSets

CONSTANTS
  H,              \* the number of handlers added with Add
  Starters,       \* goroutines calling Start (StartWithContext) once each
  Enders,         \* goroutines calling End once each
  MayPanic,       \* destroy functions may panic
  EndAfterStart   \* End is only called once a Start call has returned

VARIABLES
  outcome,   \* outcome[h]: handler h returns "err", "destroy" or "plain"
  panics,    \* the handlers whose destroy function panics
  spc,       \* spc[s]: "idle", "running", "blocked" (in Once), "returned"
  serr,      \* serr[s]: the error Start returned is non-nil
  once1,     \* r.executed: "idle", "running", "done"
  si,        \* the next handler of the running Start
  dh,        \* r.destroyHandlers, as the handlers they came from
  wg,        \* the counter of r.wg
  epc,       \* epc[e]: "idle", "running", "blocked", "waiting" (wg.Wait), "returned"
  once2,     \* r.destroyed
  snap,      \* `handlers := r.destroyHandlers` of the running End
  ej,        \* the next index into snap
  ran        \* ran[h]: the number of calls of h's destroy function

vars == <<outcome, panics, spc, serr, once1, si, dh, wg, epc, once2, snap, ej, ran>>

Init ==
  /\ outcome \in [1..H -> {"err", "destroy", "plain"}]
  /\ panics \in (IF MayPanic THEN SUBSET {h \in 1..H : outcome[h] = "destroy"} ELSE {{}})
  /\ spc = [s \in Starters |-> "idle"] /\ serr = [s \in Starters |-> FALSE]
  /\ once1 = "idle" /\ si = 1 /\ dh = << >> /\ wg = 0
  /\ epc = [e \in Enders |-> "idle"] /\ once2 = "idle" /\ snap = << >> /\ ej = 1
  /\ ran = [h \in 1..H |-> 0]

\* StartWithContext enters r.executed.Do: the first caller runs the
\* handlers; a caller meeting a running Do blocks; later ones return nil.
StartCall(s) ==
  /\ spc[s] = "idle"
  /\ CASE once1 = "idle" -> once1' = "running" /\ spc' = [spc EXCEPT ![s] = "running"]
       [] once1 = "running" -> spc' = [spc EXCEPT ![s] = "blocked"] /\ UNCHANGED once1
       [] once1 = "done" -> spc' = [spc EXCEPT ![s] = "returned"] /\ UNCHANGED once1
  /\ UNCHANGED <<outcome, panics, serr, si, dh, wg, epc, once2, snap, ej, ran>>

\* Mutant: the destroy function appended without r.wg.Add(1).
StartStepNoAdd(s) ==
  /\ spc[s] = "running"
  /\ IF si > H \/ outcome[si] = "err"
       THEN /\ once1' = "done" /\ spc' = [spc EXCEPT ![s] = "returned"]
            /\ serr' = [serr EXCEPT ![s] = si <= H]
            /\ UNCHANGED <<si, dh, wg>>
       ELSE /\ dh' = IF outcome[si] = "destroy" THEN Append(dh, si) ELSE dh
            /\ si' = si + 1
            /\ UNCHANGED <<once1, spc, serr, wg>>
  /\ UNCHANGED <<outcome, panics, epc, once2, snap, ej, ran>>

\* Mutant: r.wg.Add(1) for every handler, whether or not it returned a
\* destroy function.
StartStepAddAlways(s) ==
  /\ spc[s] = "running"
  /\ IF si > H \/ outcome[si] = "err"
       THEN /\ once1' = "done" /\ spc' = [spc EXCEPT ![s] = "returned"]
            /\ serr' = [serr EXCEPT ![s] = si <= H]
            /\ UNCHANGED <<si, dh, wg>>
       ELSE /\ dh' = IF outcome[si] = "destroy" THEN Append(dh, si) ELSE dh
            /\ wg' = wg + 1
            /\ si' = si + 1
            /\ UNCHANGED <<once1, spc, serr>>
  /\ UNCHANGED <<outcome, panics, epc, once2, snap, ej, ran>>

\* One turn of the loop over r.handlers: `destroy, err = fn(ctx)`; an
\* error returns from the Do function; a non-nil destroy is appended and
\* counted in r.wg.  After the last handler the Do function returns.
StartStep(s) ==
  /\ spc[s] = "running"
  /\ IF si > H \/ outcome[si] = "err"
       THEN /\ once1' = "done" /\ spc' = [spc EXCEPT ![s] = "returned"]
            /\ serr' = [serr EXCEPT ![s] = si <= H]
            /\ UNCHANGED <<si, dh, wg>>
       ELSE /\ dh' = IF outcome[si] = "destroy" THEN Append(dh, si) ELSE dh
            /\ wg' = IF outcome[si] = "destroy" THEN wg + 1 ELSE wg
            /\ si' = si + 1
            /\ UNCHANGED <<once1, spc, serr>>
  /\ UNCHANGED <<outcome, panics, epc, once2, snap, ej, ran>>

\* A blocked Do returns when the running one has: the named result err
\* of this call is still nil.
StartUnblock(s) ==
  /\ spc[s] = "blocked" /\ once1 = "done"
  /\ spc' = [spc EXCEPT ![s] = "returned"]
  /\ UNCHANGED <<outcome, panics, serr, once1, si, dh, wg, epc, once2, snap, ej, ran>>

\* Mutant: End without r.destroyed.Do: every call runs the loop.
EndCallNoOnce(e) ==
  /\ epc[e] = "idle"
  /\ EndAfterStart => \E s \in Starters : spc[s] = "returned"
  /\ once2' = "running" /\ epc' = [epc EXCEPT ![e] = "running"]
  /\ snap' = dh /\ ej' = 1
  /\ UNCHANGED <<outcome, panics, spc, serr, once1, si, dh, wg, ran>>

\* End enters r.destroyed.Do; the first caller takes `handlers :=
\* r.destroyHandlers`.
EndCall(e) ==
  /\ epc[e] = "idle"
  /\ EndAfterStart => \E s \in Starters : spc[s] = "returned"
  /\ CASE once2 = "idle" ->
            /\ once2' = "running" /\ epc' = [epc EXCEPT ![e] = "running"]
            /\ snap' = dh /\ ej' = 1
       [] once2 = "running" ->
            epc' = [epc EXCEPT ![e] = "blocked"] /\ UNCHANGED <<once2, snap, ej>>
       [] once2 = "done" ->
            epc' = [epc EXCEPT ![e] = "waiting"] /\ UNCHANGED <<once2, snap, ej>>
  /\ UNCHANGED <<outcome, panics, spc, serr, once1, si, dh, wg, ran>>

\* One turn of End's loop: `fn(); r.wg.Done()`.  A panic in fn is
\* recovered by the deferred function of the Do function, which returns:
\* the remaining destroy functions do not run and r.wg.Done is skipped.
EndStep(e) ==
  /\ epc[e] = "running"
  /\ IF ej > Len(snap)
       THEN once2' = "done" /\ epc' = [epc EXCEPT ![e] = "waiting"] /\ UNCHANGED <<wg, ej, ran>>
       ELSE /\ ran' = [ran EXCEPT ![snap[ej]] = @ + 1]
            /\ IF snap[ej] \in panics
                 THEN once2' = "done" /\ epc' = [epc EXCEPT ![e] = "waiting"] /\ UNCHANGED <<wg, ej>>
                 ELSE wg' = wg - 1 /\ ej' = ej + 1 /\ UNCHANGED <<once2, epc>>
  /\ UNCHANGED <<outcome, panics, spc, serr, once1, si, dh, snap>>

EndUnblock(e) ==
  /\ epc[e] = "blocked" /\ once2 = "done"
  /\ epc' = [epc EXCEPT ![e] = "waiting"]
  /\ UNCHANGED <<outcome, panics, spc, serr, once1, si, dh, wg, once2, snap, ej, ran>>

\* r.wg.Wait() returns when the counter is zero.
EndWait(e) ==
  /\ epc[e] = "waiting" /\ wg = 0
  /\ epc' = [epc EXCEPT ![e] = "returned"]
  /\ UNCHANGED <<outcome, panics, spc, serr, once1, si, dh, wg, once2, snap, ej, ran>>

Next ==
  \/ \E s \in Starters : StartCall(s) \/ StartStep(s) \/ StartUnblock(s)
  \/ \E e \in Enders : EndCall(e) \/ EndStep(e) \/ EndUnblock(e) \/ EndWait(e)

\* A goroutine inside Start or End keeps running; when Start and End are
\* called is up to the program.
Spec ==
  /\ Init /\ [][Next]_vars
  /\ \A s \in Starters : WF_vars(StartStep(s) \/ StartUnblock(s))
  /\ \A e \in Enders : WF_vars(EndStep(e) \/ EndUnblock(e) \/ EndWait(e))

-----------------------------------------------------------------------------
(* Properties.                                                             *)

\* Each destroy function runs at most once, however many goroutines call
\* End.
DestroyAtMostOnce == \A h \in 1..H : ran[h] <= 1

\* The WaitGroup counter never goes negative (sync.WaitGroup panics): each
\* r.wg.Done() of End's loop, run by whichever End call wins the Once,
\* matches an r.wg.Add(1) of Start for the same destroy function.
WaitGroupNeverNegative == wg >= 0

\* Every End call returns (r.wg.Wait() does not block forever).
EveryEndReturns == \A e \in Enders : epc[e] # "idle" ~> epc[e] = "returned"

=============================================================================
