------------------------------- MODULE RawOp -------------------------------
(***************************************************************************)
(* The operation allocation that the future and the kernel share, from     *)
(* winasio/src/iocp/raw.rs, and the future that awaits it, from            *)
(* iocp/future.rs.                                                         *)
(*                                                                         *)
(* An operation lives in an Arc<RawOp>.  The references to it are counted  *)
(* in `strong': one belongs to the Submit future, one is leaked to the     *)
(* kernel when the operation starts and claimed back by whoever dispatches *)
(* the completion, and one belongs to the proactor's table of pending      *)
(* operations when that backend is used.  Three parties race: the task     *)
(* that polls or drops the future, the kernel, and the threads that        *)
(* dispatch completions.  A step below is one access to shared state: a    *)
(* compare-exchange, a critical section of a mutex, a write of the result  *)
(* slot, a change of the reference count.                                  *)
(*                                                                         *)
(* An address whose count is 0 is free memory and may be allocated again,  *)
(* so a stale packet or pointer would reach somebody else's operation.     *)
(***************************************************************************)
EXTENDS Integers

CONSTANTS
    Ops,        \* addresses an operation can be allocated at
    Foreign,    \* addresses of OVERLAPPEDs that are not this library's
    Workers,    \* threads that dispatch completions
    Tasks,      \* tasks that poll futures
    None,       \* no task, no address
    UserPanics  \* whether operate and on_complete, user code, may panic

ASSUME ConstantsAssumption ==
    /\ Ops \cap Foreign = {}
    /\ None \notin Ops \cup Foreign \cup Tasks
    /\ UserPanics \in BOOLEAN

VARIABLES
    strong,     \* strong count of the Arc at an address; 0: not allocated
    state,      \* RawOp::state
    result,     \* RawOp::result, a MaybeUninit slot
    waker,      \* RawOp::waker
    op,         \* RawOp::op: the operation, its buffer included
    oplock,     \* the mutex around op
    live,       \* mod live: the addresses the kernel owns
    tracked,    \* addresses an ErasedCancel of the pending table refers to
    io,         \* the kernel's side of the overlapped call at an address
    cancelled,  \* the kernel was asked to cancel the call
    fut,        \* where the owner of the Submit future is
    awaiting,   \* the task whose context the last poll of the future got
    notified,   \* the tasks woken since they last polled the future
    wpc,        \* where a dispatching thread is
    waddr,      \* the address it works on
    wwaker      \* the waker it has taken out of the operation

futVars == <<fut, awaiting, notified>>
opVars == <<strong, state, result, waker, op, oplock>>
kernelVars == <<live, tracked, io, cancelled>>
workerVars == <<wpc, waddr, wwaker>>
vars == <<futVars, opVars, kernelVars, workerVars>>

OpState == {"Submitted", "Abandoned", "Completed", "Terminal"}

\* "new" to "hooking": inside a backend's submit.  "ready", "pending": the
\* caller holds the future.  "checking", "taking": inside poll.  "cancelling",
\* "releasing": inside drop.  "none": there is no future.
FutPC == {"none", "new", "leaked", "opPending", "opOk", "opErr", "started",
          "hooking", "unleaking", "ready", "pending", "checking", "taking",
          "cancelling", "releasing"}

WorkerPC == {"idle", "dequeued", "claimed", "hooked", "written", "won",
             "taken", "lost", "discarded", "waking"}

TypeOK ==
    /\ strong \in [Ops -> Nat]
    /\ state \in [Ops -> OpState]
    /\ result \in [Ops -> {"uninit", "init", "moved"}]
    /\ waker \in [Ops -> Tasks \cup {None}]
    /\ op \in [Ops -> {"some", "none"}]
    /\ oplock \in [Ops -> {"free", "held", "poisoned"}]
    /\ live \in SUBSET Ops
    /\ tracked \in SUBSET Ops
    /\ io \in [Ops \cup Foreign -> {"none", "inflight", "queued"}]
    /\ cancelled \in SUBSET Ops
    /\ fut \in [Ops -> FutPC]
    /\ awaiting \in [Ops -> Tasks \cup {None}]
    /\ notified \in [Ops -> SUBSET Tasks]
    /\ wpc \in [Workers -> WorkerPC]
    /\ waddr \in [Workers -> Ops \cup Foreign \cup {None}]
    /\ wwaker \in [Workers -> Tasks \cup {None}]

Init ==
    /\ strong = [a \in Ops |-> 0]
    /\ state = [a \in Ops |-> "Terminal"]
    /\ result = [a \in Ops |-> "uninit"]
    /\ waker = [a \in Ops |-> None]
    /\ op = [a \in Ops |-> "none"]
    /\ oplock = [a \in Ops |-> "free"]
    /\ live = {}
    /\ tracked = {}
    /\ io = [a \in Ops \cup Foreign |-> "none"]
    /\ cancelled = {}
    /\ fut = [a \in Ops |-> "none"]
    /\ awaiting = [a \in Ops |-> None]
    /\ notified = [a \in Ops |-> {}]
    /\ wpc = [w \in Workers |-> "idle"]
    /\ waddr = [w \in Workers |-> None]
    /\ wwaker = [w \in Workers |-> None]

----------------------------------------------------------------------------
(* Dropping references.                                                    *)

\* What Drop for RawOp leaves of the result slot: it holds a value that must
\* be dropped exactly when the state is Completed.
DropResult(s, r) == IF s = "Completed" THEN "moved" ELSE r

\* drop(Arc): the last reference drops the RawOp, with the operation and the
\* waker it still holds, and frees its memory.  s and r are the state and the
\* result slot at that moment.
DropArc(a, s, r, o) ==
    /\ strong' = [strong EXCEPT ![a] = @ - 1]
    /\ state' = [state EXCEPT ![a] = s]
    /\ result' = [result EXCEPT ![a] = IF strong[a] = 1 THEN DropResult(s, r) ELSE r]
    /\ op' = [op EXCEPT ![a] = IF strong[a] = 1 THEN "none" ELSE o]

\* Dropping a reference and nothing else.
DropRef(a) == DropArc(a, state[a], result[a], op[a])

----------------------------------------------------------------------------
(* Submitting: the steps a backend's submit takes.                         *)

\* Key::new, in memory that is free.
New(a) ==
    /\ strong[a] = 0
    /\ fut[a] = "none"
    /\ strong' = [strong EXCEPT ![a] = 1]
    /\ state' = [state EXCEPT ![a] = "Submitted"]
    /\ result' = [result EXCEPT ![a] = "uninit"]
    /\ waker' = [waker EXCEPT ![a] = None]
    /\ op' = [op EXCEPT ![a] = "some"]
    /\ oplock' = [oplock EXCEPT ![a] = "free"]
    /\ fut' = [fut EXCEPT ![a] = "new"]
    /\ awaiting' = [awaiting EXCEPT ![a] = None]
    /\ notified' = [notified EXCEPT ![a] = {}]
    /\ UNCHANGED <<kernelVars, workerVars>>

\* Key::leak, before the operation is started.
Leak(a) ==
    /\ fut[a] = "new"
    /\ strong' = [strong EXCEPT ![a] = @ + 1]
    /\ live' = live \cup {a}
    /\ fut' = [fut EXCEPT ![a] = "leaked"]
    /\ UNCHANGED <<state, result, waker, op, oplock, tracked, io, cancelled,
                   awaiting, notified, workerVars>>

\* Key::operate up to the point where the initiating call has returned.  The
\* mutex of op is held, and from here on the completion may be delivered.
Operate(a) ==
    /\ fut[a] = "leaked"
    /\ oplock[a] = "free"
    /\ oplock' = [oplock EXCEPT ![a] = "held"]
    /\ cancelled' = cancelled \ {a}
    /\ \/ /\ fut' = [fut EXCEPT ![a] = "opPending"]
          /\ io' = [io EXCEPT ![a] = "inflight"]
       \/ /\ \E r \in {"opOk", "opErr"} : fut' = [fut EXCEPT ![a] = r]
          /\ UNCHANGED io
    /\ UNCHANGED <<strong, state, result, waker, op, live, tracked,
                   awaiting, notified, workerVars>>

\* operate panics without having started the call.  Unwinding poisons the
\* mutex and drops the key; the leaked reference stays leaked.
OperatePanics(a) ==
    /\ UserPanics
    /\ fut[a] = "leaked"
    /\ oplock[a] = "free"
    /\ oplock' = [oplock EXCEPT ![a] = "poisoned"]
    /\ DropRef(a)
    /\ fut' = [fut EXCEPT ![a] = "none"]
    /\ UNCHANGED <<waker, kernelVars, awaiting, notified, workerVars>>

\* Key::operate returns and releases the mutex.
OperateReturns(a) ==
    /\ fut[a] \in {"opPending", "opOk", "opErr"}
    /\ oplock' = [oplock EXCEPT ![a] = "free"]
    /\ fut' = [fut EXCEPT ![a] = CASE @ = "opPending" -> "started"
                                   [] @ = "opOk" -> "hooking"
                                   [] @ = "opErr" -> "unleaking"]
    /\ UNCHANGED <<strong, state, result, waker, op, kernelVars,
                   awaiting, notified, workerVars>>

\* Mutant of Track: the table's pointer is stored without a clone of the Arc.
TrackNoClone(a) ==
    /\ fut[a] = "started"
    /\ tracked' = tracked \cup {a}
    /\ fut' = [fut EXCEPT ![a] = "pending"]
    /\ UNCHANGED <<opVars, live, io, cancelled, awaiting, notified, workerVars>>

\* Proactor::track, then Submit::pending: the pending table gets a reference
\* of its own from Key::erased_cancel.
Track(a) ==
    /\ fut[a] = "started"
    /\ strong' = [strong EXCEPT ![a] = @ + 1]
    /\ tracked' = tracked \cup {a}
    /\ fut' = [fut EXCEPT ![a] = "pending"]
    /\ UNCHANGED <<state, result, waker, op, oplock, live, io, cancelled,
                   awaiting, notified, workerVars>>

\* Submit::pending without a pending table (the thread pool).
Pend(a) ==
    /\ fut[a] = "started"
    /\ fut' = [fut EXCEPT ![a] = "pending"]
    /\ UNCHANGED <<opVars, kernelVars, awaiting, notified, workerVars>>

\* Key::on_complete_inline, for an operation that succeeded inline.
HookInline(a) ==
    /\ fut[a] = "hooking"
    /\ oplock[a] = "free"
    /\ fut' = [fut EXCEPT ![a] = "unleaking"]
    /\ UNCHANGED <<opVars, kernelVars, awaiting, notified, workerVars>>

\* The same call when the hook panics: submit unwinds before it has unleaked.
HookInlinePanics(a) ==
    /\ UserPanics
    /\ fut[a] = "hooking"
    /\ oplock[a] = "free"
    /\ oplock' = [oplock EXCEPT ![a] = "poisoned"]
    /\ DropRef(a)
    /\ fut' = [fut EXCEPT ![a] = "none"]
    /\ UNCHANGED <<waker, kernelVars, awaiting, notified, workerVars>>

\* Key::unleak, then Submit::ready.
Unleak(a) ==
    /\ fut[a] = "unleaking"
    /\ live' = live \ {a}
    /\ IF a \in live THEN DropRef(a) ELSE UNCHANGED <<strong, state, result, op>>
    /\ fut' = [fut EXCEPT ![a] = "ready"]
    /\ UNCHANGED <<waker, oplock, tracked, io, cancelled,
                   awaiting, notified, workerVars>>

----------------------------------------------------------------------------
(* The future: Submit::poll and Submit::drop.                              *)

\* poll of an inline result: Key::take_op_inline, and the key is dropped.
PollReady(a) ==
    /\ fut[a] = "ready"
    /\ oplock[a] = "free"
    /\ DropArc(a, state[a], result[a], "none")
    /\ fut' = [fut EXCEPT ![a] = "none"]
    /\ UNCHANGED <<waker, oplock, kernelVars, awaiting, notified, workerVars>>

\* Mutant of SetWaker: only the first poll installs its waker.
SetWakerOnce(a, t) ==
    /\ fut[a] = "pending"
    /\ waker' = [waker EXCEPT ![a] = IF @ = None THEN t ELSE @]
    /\ awaiting' = [awaiting EXCEPT ![a] = t]
    /\ notified' = [notified EXCEPT ![a] = @ \ {t}]
    /\ fut' = [fut EXCEPT ![a] = "checking"]
    /\ UNCHANGED <<strong, state, result, op, oplock, kernelVars, workerVars>>

\* poll of a pending operation begins with Key::set_waker.
SetWaker(a, t) ==
    /\ fut[a] = "pending"
    /\ waker' = [waker EXCEPT ![a] = t]
    /\ awaiting' = [awaiting EXCEPT ![a] = t]
    /\ notified' = [notified EXCEPT ![a] = @ \ {t}]
    /\ fut' = [fut EXCEPT ![a] = "checking"]
    /\ UNCHANGED <<strong, state, result, op, oplock, kernelVars, workerVars>>

\* The compare-exchange of Key::take_completion.
TakeCompletion(a) ==
    /\ fut[a] = "checking"
    /\ IF state[a] = "Completed"
       THEN /\ state' = [state EXCEPT ![a] = "Terminal"]
            /\ fut' = [fut EXCEPT ![a] = "taking"]
       ELSE /\ fut' = [fut EXCEPT ![a] = "pending"]
            /\ UNCHANGED state
    /\ UNCHANGED <<strong, result, waker, op, oplock, kernelVars,
                   awaiting, notified, workerVars>>

\* The rest of take_completion: read the result, move the operation out, and
\* resolve, which drops the key.
Resolve(a) ==
    /\ fut[a] = "taking"
    /\ oplock[a] = "free"
    /\ DropArc(a, state[a], "moved", "none")
    /\ fut' = [fut EXCEPT ![a] = "none"]
    /\ UNCHANGED <<waker, oplock, kernelVars, awaiting, notified, workerVars>>

\* drop of a future: an inline result is simply released; otherwise
\* Key::abandon decides whether cancellation is worth requesting.
Abandon(a) ==
    /\ \/ /\ fut[a] = "ready"
          /\ fut' = [fut EXCEPT ![a] = "releasing"]
          /\ UNCHANGED state
       \/ /\ fut[a] = "pending"
          /\ state[a] = "Submitted"
          /\ state' = [state EXCEPT ![a] = "Abandoned"]
          /\ fut' = [fut EXCEPT ![a] = "cancelling"]
       \/ /\ fut[a] = "pending"
          /\ state[a] # "Submitted"
          /\ fut' = [fut EXCEPT ![a] = "releasing"]
          /\ UNCHANGED state
    /\ UNCHANGED <<strong, result, waker, op, oplock, kernelVars,
                   awaiting, notified, workerVars>>

\* What OpCode::cancel does to the kernel's side: CancelIoEx marks a call that
\* is still in flight, and is a no-op on one that has finished.
RequestCancel(a) ==
    cancelled' = IF op[a] = "some" /\ io[a] = "inflight"
                 THEN cancelled \cup {a} ELSE cancelled

\* Mutant of Cancel: the drop takes the kernel's reference back with the
\* cancellation, as if CancelIoEx had ended the call.
CancelReclaims(a) ==
    /\ fut[a] = "cancelling"
    /\ oplock[a] # "held"
    /\ RequestCancel(a)
    /\ live' = live \ {a}
    /\ IF a \in live THEN DropRef(a) ELSE UNCHANGED <<strong, state, result, op>>
    /\ fut' = [fut EXCEPT ![a] = "releasing"]
    /\ UNCHANGED <<waker, oplock, tracked, io, awaiting, notified, workerVars>>

\* Mutant of Cancel: nothing is cancelled.
CancelForgets(a) ==
    /\ fut[a] = "cancelling"
    /\ oplock[a] # "held"
    /\ fut' = [fut EXCEPT ![a] = "releasing"]
    /\ UNCHANGED <<opVars, kernelVars, awaiting, notified, workerVars>>

\* Key::cancel from drop.  On a poisoned mutex it panics, and unwinding still
\* drops the key.
Cancel(a) ==
    /\ fut[a] = "cancelling"
    /\ oplock[a] # "held"
    /\ IF oplock[a] = "free" THEN RequestCancel(a) ELSE UNCHANGED cancelled
    /\ fut' = [fut EXCEPT ![a] = "releasing"]
    /\ UNCHANGED <<opVars, live, tracked, io, awaiting, notified, workerVars>>

\* drop ends by dropping the key.
Release(a) ==
    /\ fut[a] = "releasing"
    /\ DropRef(a)
    /\ fut' = [fut EXCEPT ![a] = "none"]
    /\ UNCHANGED <<waker, oplock, kernelVars, awaiting, notified, workerVars>>

----------------------------------------------------------------------------
(* The pending table's ErasedCancel.                                       *)

\* ErasedCancel::cancel (cancel_erased), at shutdown.
CancelErased(a) ==
    /\ a \in tracked
    /\ oplock[a] # "held"
    /\ IF oplock[a] = "free" THEN RequestCancel(a) ELSE UNCHANGED cancelled
    /\ UNCHANGED <<opVars, live, tracked, io, futVars, workerVars>>

\* Drop for ErasedCancel (drop_erased).
DropErased(a) ==
    /\ a \in tracked
    /\ tracked' = tracked \ {a}
    /\ DropRef(a)
    /\ UNCHANGED <<waker, oplock, live, io, cancelled, futVars, workerVars>>

----------------------------------------------------------------------------
(* The kernel, and other users of the handle (external).                   *)

\* The overlapped call finishes and its packet is queued.
IoCompletes(a) ==
    /\ io[a] = "inflight"
    /\ io' = [io EXCEPT ![a] = "queued"]
    /\ UNCHANGED <<opVars, live, tracked, cancelled, futVars, workerVars>>

\* CancelIoEx of a whole handle, which marks every call in flight on it.
CancelHandle ==
    /\ cancelled' = cancelled \cup {a \in Ops : io[a] = "inflight"}
    /\ UNCHANGED <<opVars, live, tracked, io, futVars, workerVars>>

\* Somebody makes an overlapped call of their own on a registered handle.
ForeignCall(f) ==
    /\ f \in Foreign
    /\ io[f] = "none"
    /\ io' = [io EXCEPT ![f] = "inflight"]
    /\ UNCHANGED <<opVars, live, tracked, cancelled, futVars, workerVars>>

----------------------------------------------------------------------------
(* Dispatching a completion: dispatch_completion_with, complete_erased.    *)

\* A thread gets the packet of address a.
Dequeue(w, a) ==
    /\ wpc[w] = "idle"
    /\ io[a] = "queued"
    /\ io' = [io EXCEPT ![a] = "none"]
    /\ wpc' = [wpc EXCEPT ![w] = "dequeued"]
    /\ waddr' = [waddr EXCEPT ![w] = a]
    /\ UNCHANGED <<opVars, live, tracked, cancelled, futVars, wwaker>>

\* live::claim.  A failure means the packet is not this library's, and
\* nothing is dereferenced; success hands the kernel's reference to w.
Claim(w) ==
    /\ wpc[w] = "dequeued"
    /\ live' = live \ {waddr[w]}
    /\ IF waddr[w] \in live
       THEN /\ wpc' = [wpc EXCEPT ![w] = "claimed"]
            /\ UNCHANGED waddr
       ELSE /\ wpc' = [wpc EXCEPT ![w] = "idle"]
            /\ waddr' = [waddr EXCEPT ![w] = None]
    /\ UNCHANGED <<opVars, tracked, io, cancelled, futVars, wwaker>>

\* A dequeued packet is forgotten: a panic unwound out of the batch it was in.
DropPacket(w) ==
    /\ UserPanics
    /\ wpc[w] = "dequeued"
    /\ wpc' = [wpc EXCEPT ![w] = "idle"]
    /\ waddr' = [waddr EXCEPT ![w] = None]
    /\ UNCHANGED <<opVars, kernelVars, futVars, wwaker>>

\* on_complete_with, under the mutex of op.
Hook(w) ==
    /\ wpc[w] = "claimed"
    /\ oplock[waddr[w]] = "free"
    /\ wpc' = [wpc EXCEPT ![w] = "hooked"]
    /\ UNCHANGED <<opVars, kernelVars, futVars, waddr, wwaker>>

\* Mutant of HookPanics: unwinding leaks the Arc.
HookPanicsLeaks(w) ==
    /\ wpc[w] = "claimed"
    /\ UserPanics
    /\ oplock[waddr[w]] = "free"
    /\ oplock' = [oplock EXCEPT ![waddr[w]] = "poisoned"]
    /\ wpc' = [wpc EXCEPT ![w] = "idle"]
    /\ waddr' = [waddr EXCEPT ![w] = None]
    /\ UNCHANGED <<strong, state, result, waker, op, kernelVars, futVars, wwaker>>

\* The hook panics, or the mutex is already poisoned: unwinding drops the Arc
\* and the operation is left Submitted, with nobody to wake its future.
HookPanics(w) ==
    /\ wpc[w] = "claimed"
    /\ LET a == waddr[w] IN
       /\ oplock[a] = "poisoned" \/ (UserPanics /\ oplock[a] = "free" /\ op[a] = "some")
       /\ oplock' = [oplock EXCEPT ![a] = "poisoned"]
       /\ DropRef(a)
    /\ wpc' = [wpc EXCEPT ![w] = "idle"]
    /\ waddr' = [waddr EXCEPT ![w] = None]
    /\ UNCHANGED <<waker, kernelVars, futVars, wwaker>>

\* The result slot is written before Completed is published.
WriteResult(w) ==
    /\ wpc[w] = "hooked"
    /\ result' = [result EXCEPT ![waddr[w]] = "init"]
    /\ wpc' = [wpc EXCEPT ![w] = "written"]
    /\ UNCHANGED <<strong, state, waker, op, oplock, kernelVars, futVars,
                   waddr, wwaker>>

\* Mutant of Publish: Completed is published before the result is written.
PublishFirst(w) ==
    /\ wpc[w] = "hooked"
    /\ state[waddr[w]] = "Submitted"
    /\ state' = [state EXCEPT ![waddr[w]] = "Completed"]
    /\ wpc' = [wpc EXCEPT ![w] = "won"]
    /\ UNCHANGED <<strong, result, waker, op, oplock, kernelVars, futVars,
                   waddr, wwaker>>

\* The compare-exchange from Submitted to Completed.
Publish(w) ==
    /\ wpc[w] = "written"
    /\ IF state[waddr[w]] = "Submitted"
       THEN /\ state' = [state EXCEPT ![waddr[w]] = "Completed"]
            /\ wpc' = [wpc EXCEPT ![w] = "won"]
       ELSE /\ wpc' = [wpc EXCEPT ![w] = "lost"]
            /\ UNCHANGED state
    /\ UNCHANGED <<strong, result, waker, op, oplock, kernelVars, futVars,
                   waddr, wwaker>>

\* The waker is taken out of its mutex.
TakeWaker(w) ==
    /\ wpc[w] = "won"
    /\ wwaker' = [wwaker EXCEPT ![w] = waker[waddr[w]]]
    /\ waker' = [waker EXCEPT ![waddr[w]] = None]
    /\ wpc' = [wpc EXCEPT ![w] = "taken"]
    /\ UNCHANGED <<strong, state, result, op, oplock, kernelVars, futVars, waddr>>

\* The abandoned operation's result is read back and dropped.
Discard(w) ==
    /\ wpc[w] = "lost"
    /\ result' = [result EXCEPT ![waddr[w]] = "moved"]
    /\ state' = [state EXCEPT ![waddr[w]] = "Terminal"]
    /\ wpc' = [wpc EXCEPT ![w] = "discarded"]
    /\ UNCHANGED <<strong, waker, op, oplock, kernelVars, futVars, waddr, wwaker>>

\* Mutant of DropKernelRef: the taken waker is dropped and not woken.
DropKernelRefNoWake(w) ==
    /\ wpc[w] \in {"taken", "discarded"}
    /\ DropRef(waddr[w])
    /\ wpc' = [wpc EXCEPT ![w] = "idle"]
    /\ waddr' = [waddr EXCEPT ![w] = None]
    /\ wwaker' = [wwaker EXCEPT ![w] = None]
    /\ UNCHANGED <<waker, oplock, kernelVars, futVars>>

\* The kernel's reference is dropped, before the future is woken.
DropKernelRef(w) ==
    /\ wpc[w] \in {"taken", "discarded"}
    /\ DropRef(waddr[w])
    /\ wpc' = [wpc EXCEPT ![w] = IF @ = "taken" THEN "waking" ELSE "idle"]
    /\ waddr' = [waddr EXCEPT ![w] = None]
    /\ UNCHANGED <<waker, oplock, kernelVars, futVars, wwaker>>

\* waker.wake(): the task will poll the futures it awaits.
Wake(w) ==
    /\ wpc[w] = "waking"
    /\ notified' = IF wwaker[w] = None THEN notified
                   ELSE [a \in Ops |-> notified[a] \cup {wwaker[w]}]
    /\ wwaker' = [wwaker EXCEPT ![w] = None]
    /\ wpc' = [wpc EXCEPT ![w] = "idle"]
    /\ UNCHANGED <<opVars, kernelVars, fut, awaiting, waddr>>

----------------------------------------------------------------------------

SubmitStep(a) ==
    \/ New(a) \/ Leak(a) \/ Operate(a) \/ OperatePanics(a) \/ OperateReturns(a)
    \/ Track(a) \/ Pend(a) \/ HookInline(a) \/ HookInlinePanics(a) \/ Unleak(a)

FutureStep(a) ==
    \/ PollReady(a) \/ TakeCompletion(a) \/ Resolve(a)
    \/ Abandon(a) \/ Cancel(a) \/ Release(a)
    \/ \E t \in Tasks : SetWaker(a, t)

TableStep(a) == CancelErased(a) \/ DropErased(a)

CompleteRuns(w) ==
    \/ Claim(w) \/ Hook(w) \/ WriteResult(w) \/ Publish(w)
    \/ TakeWaker(w) \/ Discard(w) \/ DropKernelRef(w) \/ Wake(w)

CompleteStep(w) == CompleteRuns(w) \/ HookPanics(w)

KernelStep ==
    \/ \E a \in Ops \cup Foreign : IoCompletes(a)
    \/ \E f \in Foreign : ForeignCall(f)
    \/ CancelHandle

Next ==
    \/ \E a \in Ops : SubmitStep(a) \/ FutureStep(a) \/ TableStep(a)
    \/ \E w \in Workers : CompleteStep(w) \/ DropPacket(w)
    \/ \E w \in Workers, a \in Ops \cup Foreign : Dequeue(w, a)
    \/ KernelStep

Spec == Init /\ [][Next]_vars

(***************************************************************************)
(* Fairness.  A thread that has a packet runs to the end of the callback   *)
(* (the pool and the driver run their threads); code inside submit, poll   *)
(* and drop is not suspended for ever; a task that was woken polls the     *)
(* future it awaits (the Waker contract).  The kernel finishes a call only *)
(* if it was asked to cancel it: a call on a stalled handle may stay in    *)
(* flight for ever.  Nobody has to submit, to poll a future that was not   *)
(* woken, or to drop one.                                                  *)
(***************************************************************************)
SubmitRuns(a) ==
    \/ Leak(a) \/ Operate(a) \/ OperateReturns(a) \/ Track(a) \/ Pend(a)
    \/ HookInline(a) \/ Unleak(a)

FutureRuns(a) ==
    \/ TakeCompletion(a) \/ Resolve(a) \/ Cancel(a) \/ Release(a)
    \/ awaiting[a] \in notified[a] /\ SetWaker(a, awaiting[a])

Fairness ==
    /\ \A w \in Workers : WF_vars(CompleteStep(w))
    /\ \A a \in Ops : /\ WF_vars(SubmitRuns(a))
                      /\ WF_vars(FutureRuns(a))
                      /\ WF_vars(DropErased(a))
                      /\ WF_vars(a \in cancelled /\ IoCompletes(a))
                      /\ SF_vars(\E w \in Workers : Dequeue(w, a))

FairSpec == Spec /\ Fairness

----------------------------------------------------------------------------
(* Properties.                                                             *)

One(p) == IF p THEN 1 ELSE 0

\* w is inside complete_erased and owns the kernel's reference to a.
Holds(w, a) ==
    /\ waddr[w] = a
    /\ wpc[w] \in {"claimed", "hooked", "written", "won", "taken", "lost", "discarded"}

\* The strong count is exactly the number of parties that will drop a
\* reference: the future, the kernel (an address in the live set), the pending
\* table and a dispatcher, of which there is at most one.  One party too few
\* is a leak, one too many a double free.
RefCount ==
    \A a \in Ops :
        /\ strong[a] = One(fut[a] # "none") + One(a \in live) + One(a \in tracked)
                        + One(\E w \in Workers : Holds(w, a))
        /\ \A v, w \in Workers : Holds(v, a) /\ Holds(w, a) => v = w

\* As long as Windows has the OVERLAPPED of an operation, in flight or in a
\* packet that is queued or just dequeued, the kernel's reference is there to
\* be claimed: no packet of ours is ignored, or reaches memory used again.
KernelPins ==
    /\ \A a \in Ops : io[a] # "none" => a \in live
    /\ \A w \in Workers : wpc[w] = "dequeued" /\ waddr[w] \in Ops => waddr[w] \in live

\* Windows writes through an OVERLAPPED and a buffer only while both are
\* alive: the allocation is not freed and the operation not moved out of it,
\* to a caller of poll or by a drop, before the kernel has let go.
KernelMemory ==
    \A a \in Ops : io[a] = "inflight" => strong[a] > 0 /\ op[a] = "some"

\* The MaybeUninit result is initialised whenever it is read or dropped
\* (take_completion, the abandoned branch of complete_erased, Drop for
\* RawOp), is read only once, and no result is left undropped when the
\* allocation is freed.
ResultSlot ==
    /\ \A a \in Ops : /\ state[a] = "Completed" /\ strong[a] > 0 => result[a] = "init"
                      /\ fut[a] = "taking" => result[a] = "init"
                      /\ strong[a] = 0 => result[a] # "init"
    /\ \A w \in Workers : wpc[w] = "lost" => result[waddr[w]] = "init"

\* complete_erased finds the state Submitted or Abandoned, never one that a
\* previous completion left ("an operation completed twice").
CompletesOnce ==
    \A w \in Workers :
        /\ wpc[w] \in {"claimed", "hooked", "written"} =>
                state[waddr[w]] \in {"Submitted", "Abandoned"}
        /\ wpc[w] = "lost" => state[waddr[w]] = "Abandoned"

\* The expect()s of raw.rs never fire: operate, take_completion and
\* take_op_inline each find the operation in its mutex.
OpPresent ==
    \A a \in Ops : fut[a] \in {"leaked", "taking", "ready"} => op[a] = "some"

\* A task that saw Pending while the result is there has been woken, or a
\* dispatcher is about to take or holds the waker of its latest poll,
\* whatever wakers earlier polls installed.
NoLostWakeup ==
    \A a \in Ops :
        fut[a] = "pending" /\ awaiting[a] # None /\ state[a] = "Completed" =>
            \/ awaiting[a] \in notified[a]
            \/ \E w \in Workers : /\ wpc[w] = "won" /\ waddr[w] = a
                                  /\ waker[a] = awaiting[a]
            \/ \E w \in Workers : wpc[w] \in {"taken", "waking"} /\ wwaker[w] = awaiting[a]

\* A change of an operation's state: a new allocation begins in Submitted,
\* the others follow raw.rs.
LifecycleStep ==
    \A a \in Ops : state'[a] # state[a] =>
        \/ strong[a] = 0 /\ state'[a] = "Submitted"
        \/ strong[a] > 0 /\ <<state[a], state'[a]>> \in
              {<<"Submitted", "Completed">>, <<"Submitted", "Abandoned">>,
               <<"Completed", "Terminal">>, <<"Abandoned", "Terminal">>}

\* The lifecycle of raw.rs: Submitted, then Completed or Abandoned, then
\* Terminal; only a new allocation starts again.
Lifecycle == [][LifecycleStep]_vars

\* The packet of a was lost: a panic unwound out of the batch it was in, and
\* the kernel's reference stays in the live set for good.
Lost(a) ==
    /\ a \in live
    /\ io[a] = "none"
    /\ fut[a] \in {"none", "pending", "checking", "cancelling", "releasing"}
    /\ \A w \in Workers : wpc[w] = "dequeued" => waddr[w] # a

\* A future whose packet has been queued resolves (or is dropped), if it has
\* been polled at all, unless user code panicked: in this operation's own hook,
\* which poisons its mutex, or in that of a packet ahead of it.
CompletionResolves ==
    \A a \in Ops :
        (fut[a] = "pending" /\ awaiting[a] # None /\ io[a] = "queued")
            ~> (fut[a] = "none" \/ oplock[a] = "poisoned" \/ Lost(a))

\* The memory of a future dropped in flight is given back: dropping requests
\* the cancellation, and its completion releases the last reference, also if
\* the hook panics.
AbandonedFreed ==
    \A a \in Ops : (state[a] = "Abandoned") ~> (strong[a] = 0 \/ Lost(a))
=============================================================================
