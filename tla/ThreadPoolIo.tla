---------------------------- MODULE ThreadPoolIo ----------------------------
(***************************************************************************)
(* The thread-pool backend, winasio/src/iocp/threadpool.rs: RawOp with     *)
(* completions delivered by the callbacks of a Win32 PTP_IO, whose count   *)
(* of pending I/O must be raised before each operation starts and balanced *)
(* when no callback will run, and with the teardown of the registration.   *)
(*                                                                         *)
(* One registration is modelled.  A worker is a pool thread, and its steps *)
(* from Dequeue until it is idle again are one io_callback.                *)
(***************************************************************************)
EXTENDS RawOp, FiniteSets

\* The pool counts.
ASSUME PoolAssumption == IsFiniteSet(Ops) /\ IsFiniteSet(Workers)

VARIABLES
    starts,     \* the pool's count of pending I/O on the PTP_IO
    reg         \* the Registration: owned, inside Drop, or gone

poolVars == <<vars, starts, reg>>

PoolTypeOK ==
    /\ TypeOK
    /\ starts \in Nat
    /\ reg \in {"open", "dropping", "draining", "closed"}

PoolInit == Init /\ starts = 0 /\ reg = "open"

----------------------------------------------------------------------------
(* ThreadPoolIo::submit.                                                   *)

\* submit borrows a clone of the ThreadPoolIo, so the registration is open.
PoolNew(a) == reg = "open" /\ New(a) /\ UNCHANGED <<starts, reg>>

\* StartThreadpoolIo, and then operate.
PoolStart(a) == Operate(a) /\ starts' = starts + 1 /\ UNCHANGED reg

\* operate unwinds: StartGuard::drop balances the start.
PoolStartPanics(a) == OperatePanics(a) /\ UNCHANGED <<starts, reg>>

\* submit goes on once operate has returned.  The two inline outcomes call
\* CancelThreadpoolIo, since no callback will run.
PoolStarted(a) ==
    /\ OperateReturns(a)
    /\ starts' = starts - One(fut[a] \in {"opOk", "opErr"})
    /\ UNCHANGED reg

PoolSubmitRest(a) ==
    /\ Leak(a) \/ Pend(a) \/ HookInline(a) \/ HookInlinePanics(a) \/ Unleak(a)
    /\ UNCHANGED <<starts, reg>>

PoolFuture(a) == FutureStep(a) /\ UNCHANGED <<starts, reg>>

----------------------------------------------------------------------------
(* io_callback.  catch_unwind ends the callback normally if the completion *)
(* hook panics.  The pool (external) lowers its count when a callback      *)
(* returns.                                                                *)

PoolDequeue(w, a) == Dequeue(w, a) /\ UNCHANGED <<starts, reg>>

PoolCallback(w) ==
    /\ CompleteStep(w)
    /\ starts' = starts - One(wpc'[w] = "idle")
    /\ UNCHANGED reg

PoolKernel(a) == IoCompletes(a) /\ UNCHANGED <<starts, reg>>

----------------------------------------------------------------------------
(* Drop for Registration.                                                  *)

PoolInSubmit(a) ==
    fut[a] \in {"new", "leaked", "opPending", "opOk", "opErr", "started",
                "hooking", "unleaking"}

\* The last clone is dropped; a submit in progress would still borrow one.
DropLast ==
    /\ reg = "open"
    /\ \A a \in Ops : ~PoolInSubmit(a)
    /\ reg' = "dropping"
    /\ UNCHANGED <<vars, starts>>

\* Mutant of CancelAll: the outstanding operations are not cancelled.
CancelNone == reg = "dropping" /\ reg' = "draining" /\ UNCHANGED <<vars, starts>>

\* Mutant of CancelAll: the leaked references are reclaimed at once.
CancelAllReclaims ==
    /\ reg = "dropping"
    /\ reg' = "draining"
    /\ cancelled' = cancelled \cup {a \in Ops : io[a] = "inflight"}
    /\ live' = {}
    /\ strong' = [a \in Ops |-> strong[a] - One(a \in live)]
    /\ UNCHANGED <<state, result, waker, op, oplock, tracked, io, futVars,
                   workerVars, starts>>

\* CancelIoEx(handle, None), so that what is outstanding finishes.
CancelAll == reg = "dropping" /\ reg' = "draining" /\ CancelHandle /\ UNCHANGED starts

\* Mutant of WaitAndClose: WaitForThreadpoolIoCallbacks(io, true), which drops
\* the callbacks that have not started.
WaitRunningOnly ==
    /\ reg = "draining"
    /\ \A w \in Workers : wpc[w] = "idle"
    /\ reg' = "closed"
    /\ UNCHANGED <<vars, starts>>

\* WaitForThreadpoolIoCallbacks(io, false) returns when the count is down to
\* zero, and then CloseThreadpoolIo.
WaitAndClose ==
    /\ reg = "draining"
    /\ starts = 0
    /\ reg' = "closed"
    /\ UNCHANGED <<vars, starts>>

----------------------------------------------------------------------------

PoolSubmit(a) ==
    \/ PoolNew(a) \/ PoolStart(a) \/ PoolStartPanics(a) \/ PoolStarted(a)
    \/ PoolSubmitRest(a)

PoolNext ==
    \/ \E a \in Ops : PoolSubmit(a) \/ PoolFuture(a) \/ PoolKernel(a)
    \/ \E w \in Workers, a \in Ops : PoolDequeue(w, a)
    \/ \E w \in Workers : PoolCallback(w)
    \/ DropLast \/ CancelAll \/ WaitAndClose

PoolSpec == PoolInit /\ [][PoolNext]_poolVars

\* As RawOp!Fairness, with the thread that drops the registration.
PoolFairness ==
    /\ \A w \in Workers : WF_poolVars(PoolCallback(w))
    /\ \A a \in Ops :
        /\ WF_poolVars(PoolStart(a) \/ PoolStarted(a) \/ PoolSubmitRest(a))
        /\ WF_poolVars(FutureRuns(a) /\ UNCHANGED <<starts, reg>>)
        /\ WF_poolVars(a \in cancelled /\ PoolKernel(a))
        /\ SF_poolVars(\E w \in Workers : PoolDequeue(w, a))
    /\ WF_poolVars(CancelAll)
    /\ WF_poolVars(WaitAndClose)

PoolFairSpec == PoolSpec /\ PoolFairness

----------------------------------------------------------------------------
(* Properties.                                                             *)

\* The backend implements RawOp: submit, the callbacks and the teardown drive
\* the shared allocation only through the steps of raw.rs and future.rs, so
\* what is proved about RawOp holds of it.
PoolImplementsRawOp == Spec

\* The pool's count is the number of operations inside operate's inline
\* outcome, calls in flight or queued, and callbacks running: no callback runs
\* for an I/O that was not started, and no start is left without a callback,
\* inline results and panics included.
StartsBalanced ==
    starts = Cardinality({a \in Ops : io[a] # "none" \/ fut[a] \in {"opOk", "opErr"}})
             + Cardinality({w \in Workers : wpc[w] # "idle"})

\* Every start has its callback; and when the PTP_IO is closed no callback is
\* running or will run, every leaked reference was reclaimed, and a future that
\* outlives the registration can resolve, unless user code panicked.
PoolClosed ==
    /\ StartsBalanced
    /\ reg = "closed" =>
        /\ \A a \in Ops : io[a] = "none"
        /\ \A w \in Workers : wpc[w] = "idle"
        /\ \A a \in Ops : fut[a] \in {"pending", "checking"} =>
                            state[a] = "Completed" \/ oplock[a] = "poisoned"
        /\ \A a \in live : oplock[a] = "poisoned"

\* Dropping the last clone ends: nothing leaves the count raised for ever, not
\* even a panic, and every call in flight was cancelled.
TeardownEnds == reg = "dropping" ~> reg = "closed"
=============================================================================
