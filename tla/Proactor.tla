------------------------------ MODULE Proactor ------------------------------
(***************************************************************************)
(* The caller-driven backend, winasio/src/iocp/proactor.rs: RawOp with one *)
(* driving thread that submits, retrieves batches of packets from its own  *)
(* completion port and dispatches them in order, with the table of pending *)
(* operations, and with the shutdown that cancels and drains them.         *)
(*                                                                         *)
(* A worker of RawOp is a slot of the batch ProactorInner::poll collects:  *)
(* slot i holds the i-th packet, and the driver completes the slots one    *)
(* after the other.  Futures are Send, so their polls and drops interleave *)
(* with the driver; submissions come from the driving thread, between two  *)
(* polls or from a waker that runs an executor inline.                     *)
(***************************************************************************)
EXTENDS RawOp, FiniteSets

CONSTANTS
    BATCH,          \* how many packets one wait retrieves
    PortMayFail     \* whether GetQueuedCompletionStatusEx may fail

ASSUME ProactorAssumption ==
    /\ BATCH \in Nat \ {0}
    /\ Workers = 1..BATCH
    /\ IsFiniteSet(Ops)
    /\ PortMayFail \in BOOLEAN

VARIABLES
    pending,        \* ProactorInner::pending: the addresses in the table
    cancels,        \* the ErasedCancels shutdown has drained from the table
    driver,         \* where the driving thread is
    count,          \* packets collected into the batch
    slot,           \* the slot being completed
    down,           \* where Drop for Proactor is
    uncancelled,    \* the cancels it has not called yet
    outstanding,    \* shutdown: operations it cancelled
    drained,        \* shutdown: completions delivered since
    cut,            \* ghost: a failing port or a panic ended shutdown early
    lost            \* ghost: addresses whose packet a panic dropped

driverVars == <<driver, count, slot>>
downVars == <<cancels, uncancelled, down, outstanding, drained, cut, lost>>
procVars == <<vars, pending, driverVars, downVars>>

ProcTypeOK ==
    /\ TypeOK
    /\ pending \in SUBSET Ops
    /\ cancels \in SUBSET Ops
    /\ uncancelled \in SUBSET Ops
    /\ driver \in {"idle", "collecting", "dispatching", "unwinding"}
    /\ count \in 0..BATCH
    /\ slot \in 1..(BATCH + 1)
    /\ down \in {"up", "cancelling", "draining", "closing", "closed"}
    /\ outstanding \in Nat
    /\ drained \in Nat
    /\ cut \in BOOLEAN
    /\ lost \in SUBSET Ops

ProcInit ==
    /\ Init
    /\ pending = {}
    /\ cancels = {}
    /\ uncancelled = {}
    /\ driver = "idle"
    /\ count = 0
    /\ slot = 1
    /\ down = "up"
    /\ outstanding = 0
    /\ drained = 0
    /\ cut = FALSE
    /\ lost = {}

----------------------------------------------------------------------------
(* Proactor::submit.                                                       *)

InSubmit(a) ==
    fut[a] \in {"new", "leaked", "opPending", "opOk", "opErr", "started",
                "hooking", "unleaking"}

\* The driving thread is free to run a submit to its end: it is not inside
\* poll, or it is inside a waker that poll called.
CanSubmit ==
    /\ down = "up"
    /\ \/ driver = "idle"
       \/ driver = "dispatching" /\ slot <= count /\ wpc[slot] = "waking"

ProcNew(a) ==
    /\ CanSubmit
    /\ \A b \in Ops : ~InSubmit(b)
    /\ New(a)
    /\ UNCHANGED <<pending, driverVars, downVars>>

\* Mutant of ProcTrack: the operation is not entered in the table.
ProcTrackForgets(a) == Track(a) /\ UNCHANGED <<pending, driverVars, downVars>>

\* Mutant of ProcTrack: the table's pointer is stored without a clone of the Arc.
ProcTrackNoClone(a) ==
    TrackNoClone(a) /\ pending' = pending \cup {a} /\ UNCHANGED <<driverVars, downVars>>

\* Proactor::track inserts into the table.
ProcTrack(a) ==
    /\ Track(a)
    /\ pending' = pending \cup {a}
    /\ UNCHANGED <<driverVars, downVars>>

ProcSubmitRest(a) ==
    /\ \/ Leak(a) \/ Operate(a) \/ OperatePanics(a) \/ OperateReturns(a)
       \/ HookInline(a) \/ HookInlinePanics(a) \/ Unleak(a)
    /\ UNCHANGED <<pending, driverVars, downVars>>

ProcFuture(a) == FutureStep(a) /\ UNCHANGED <<pending, driverVars, downVars>>

ProcKernel ==
    /\ \/ \E a \in Ops \cup Foreign : IoCompletes(a)
       \/ down # "closed" /\ \E f \in Foreign : ForeignCall(f)
    /\ UNCHANGED <<pending, driverVars, downVars>>

----------------------------------------------------------------------------
(* ProactorInner::poll, called by the owner of the proactor or by shutdown. *)

Driving == down = "draining" \/ (down = "up" /\ \A a \in Ops : ~InSubmit(a))

\* The wait returns with a batch; a wait that times out changes nothing.
PollBegins ==
    /\ Driving
    /\ driver = "idle"
    /\ \E a \in Ops \cup Foreign : io[a] = "queued"
    /\ down = "draining" => drained < outstanding
    /\ driver' = "collecting"
    /\ count' = 0
    /\ slot' = 1
    /\ UNCHANGED <<vars, pending, downVars>>

\* The next packet goes into the batch.
Collect(a) ==
    /\ driver = "collecting"
    /\ count < BATCH
    /\ \A b \in pending : ~\E i \in 1..count : waddr[i] = b
    /\ Dequeue(count + 1, a)
    /\ count' = count + 1
    /\ UNCHANGED <<pending, driver, slot, downVars>>

\* pending.remove for the packet just collected, which drops the table's
\* reference.  A foreign packet, or one whose entry shutdown has taken out of
\* the table, has no entry.
RemovePending(a) ==
    /\ driver = "collecting"
    /\ \E i \in 1..count : waddr[i] = a
    /\ a \in pending
    /\ pending' = pending \ {a}
    /\ DropErased(a)
    /\ UNCHANGED <<driverVars, downVars>>

CollectEnds ==
    /\ driver = "collecting"
    /\ count > 0
    /\ \A b \in pending : ~\E i \in 1..count : waddr[i] = b
    /\ driver' = "dispatching"
    /\ UNCHANGED <<vars, pending, count, slot, downVars>>

\* One step of dispatch_completion_with for the current slot.  It returns
\* true, and is counted, unless the claim fails.
Dispatch ==
    /\ driver = "dispatching"
    /\ slot <= count
    /\ \A a \in Ops : ~InSubmit(a)
    /\ CompleteRuns(slot)
    /\ LET ends == wpc'[slot] = "idle"
           delivered == ends /\ wpc[slot] # "dequeued"
       IN /\ slot' = slot + One(ends)
          /\ drained' = drained + One(delivered /\ down = "draining")
    /\ UNCHANGED <<pending, driver, count, cancels, uncancelled, down, outstanding, cut, lost>>

PollEnds ==
    /\ driver = "dispatching"
    /\ slot > count
    /\ driver' = "idle"
    /\ count' = 0
    /\ slot' = 1
    /\ UNCHANGED <<vars, pending, downVars>>

\* A completion hook panics.  Nothing in poll catches it: the packets that
\* were collected after this one are dropped with the batch, undelivered.
DispatchPanics ==
    /\ driver = "dispatching"
    /\ slot <= count
    /\ HookPanics(slot)
    /\ driver' = "unwinding"
    /\ slot' = slot + 1
    /\ UNCHANGED <<pending, count, downVars>>

Unwind ==
    /\ driver = "unwinding"
    /\ slot <= count
    /\ DropPacket(slot)
    /\ slot' = slot + 1
    /\ lost' = lost \cup ({waddr[slot]} \cap Ops)
    /\ UNCHANGED <<pending, driver, count, cancels, uncancelled, down, outstanding,
                   drained, cut>>

\* The panic leaves poll, and shutdown too if that was the caller.
UnwindEnds ==
    /\ driver = "unwinding"
    /\ slot > count
    /\ driver' = "idle"
    /\ count' = 0
    /\ slot' = 1
    /\ down' = IF down = "draining" THEN "closing" ELSE down
    /\ cut' = (cut \/ down = "draining")
    /\ UNCHANGED <<vars, pending, cancels, uncancelled, outstanding, drained, lost>>

----------------------------------------------------------------------------
(* Drop for Proactor: ProactorInner::shutdown, then the port is closed.    *)

\* The table is drained into a vector.
ShutdownBegins ==
    /\ down = "up"
    /\ driver = "idle"
    /\ \A a \in Ops : ~InSubmit(a)
    /\ pending' = {}
    /\ cancels' = pending
    /\ uncancelled' = pending
    /\ outstanding' = Cardinality(pending)
    /\ down' = "cancelling"
    /\ UNCHANGED <<vars, driverVars, drained, cut, lost>>

\* Mutant of ShutdownCancel: the vector is only walked.
ShutdownCancelNoop(a) ==
    /\ down = "cancelling"
    /\ a \in uncancelled
    /\ uncancelled' = uncancelled \ {a}
    /\ UNCHANGED <<vars, pending, driverVars, cancels, down, outstanding, drained, cut, lost>>

\* Each of them is cancelled.
ShutdownCancel(a) ==
    /\ down = "cancelling"
    /\ a \in uncancelled
    /\ CancelErased(a)
    /\ uncancelled' = uncancelled \ {a}
    /\ UNCHANGED <<pending, driverVars, cancels, down, outstanding, drained, cut, lost>>

\* Mutant of ShutdownCancelled: shutdown does not drain.
ShutdownSkipsDrain ==
    /\ down = "cancelling"
    /\ uncancelled = {}
    /\ down' = "closing"
    /\ UNCHANGED <<vars, pending, driverVars, cancels, uncancelled, outstanding,
                   drained, cut, lost>>

\* With nothing outstanding shutdown returns at once; otherwise it polls.
ShutdownCancelled ==
    /\ down = "cancelling"
    /\ uncancelled = {}
    /\ down' = IF outstanding = 0 THEN "closing" ELSE "draining"
    /\ UNCHANGED <<vars, pending, driverVars, cancels, uncancelled, outstanding,
                   drained, cut, lost>>

\* The loop ends when as many completions were delivered as were outstanding.
ShutdownDrained ==
    /\ down = "draining"
    /\ driver = "idle"
    /\ drained >= outstanding
    /\ down' = "closing"
    /\ UNCHANGED <<vars, pending, driverVars, cancels, uncancelled, outstanding,
                   drained, cut, lost>>

\* The wait on the port fails: nothing further can be drained.
PortFails ==
    /\ PortMayFail
    /\ down = "draining"
    /\ driver = "idle"
    /\ drained < outstanding
    /\ cut' = TRUE
    /\ down' = "closing"
    /\ UNCHANGED <<vars, pending, driverVars, cancels, uncancelled, outstanding, drained,
                   lost>>

\* shutdown returns and its vector is dropped.
ShutdownDrops(a) ==
    /\ down = "closing"
    /\ a \in cancels
    /\ DropErased(a)
    /\ cancels' = cancels \ {a}
    /\ UNCHANGED <<pending, driverVars, uncancelled, down, outstanding, drained, cut, lost>>

\* Drop for CompletionPort.
ClosePort ==
    /\ down = "closing"
    /\ cancels = {}
    /\ down' = "closed"
    /\ UNCHANGED <<vars, pending, driverVars, cancels, uncancelled, outstanding,
                   drained, cut, lost>>

----------------------------------------------------------------------------

DriverStep ==
    \/ CollectEnds \/ Dispatch \/ PollEnds \/ DispatchPanics \/ Unwind \/ UnwindEnds
    \/ \E a \in Ops \cup Foreign : Collect(a)
    \/ \E a \in Ops : RemovePending(a)

ShutdownStep ==
    \/ ShutdownCancelled \/ ShutdownDrained \/ ClosePort
    \/ \E a \in Ops : ShutdownCancel(a) \/ ShutdownDrops(a)

ProcNext ==
    \/ \E a \in Ops : ProcNew(a) \/ ProcSubmitRest(a) \/ ProcTrack(a) \/ ProcFuture(a)
    \/ ProcKernel
    \/ PollBegins \/ DriverStep
    \/ ShutdownBegins \/ ShutdownStep \/ PortFails

ProcSpec == ProcInit /\ [][ProcNext]_procVars

\* The thread inside submit, poll or drop runs, and whoever owns the proactor
\* keeps polling it ("Nothing completes unless poll runs").  The kernel and
\* the woken tasks are as in RawOp!Fairness.
ProcFairness ==
    /\ SF_procVars(PollBegins)
    /\ SF_procVars(DriverStep)
    /\ WF_procVars(ShutdownStep)
    /\ \A a \in Ops :
        /\ WF_procVars(ProcSubmitRest(a) \/ ProcTrack(a))
        /\ WF_procVars(FutureRuns(a) /\ UNCHANGED <<pending, driverVars, downVars>>)
        /\ WF_procVars(a \in cancelled /\ IoCompletes(a)
                            /\ UNCHANGED <<pending, driverVars, downVars>>)
    /\ \A a \in Ops : SF_procVars(Collect(a))

ProcFairSpec == ProcSpec /\ ProcFairness

----------------------------------------------------------------------------
(* Properties.                                                             *)

\* The backend implements RawOp: batches, the pending table, shutdown and a
\* panic unwinding through poll drive the shared allocation only through the
\* steps of raw.rs and future.rs, so what is proved about RawOp holds of it.
ImplementsRawOp == Spec

\* Between polls the table lists exactly the operations Windows still owes a
\* completion for, whatever became of their futures: it is what shutdown
\* cancels, and pending_count reports it.
PendingExact ==
    down = "up" /\ driver = "idle" /\ (\A a \in Ops : ~InSubmit(a)) =>
        pending = {a \in Ops : io[a] # "none"}

\* While shutdown drains, the completions it still waits for are exactly those
\* that have not been delivered: it neither stops early nor waits for one that
\* will not come.
DrainExact ==
    down = "draining" /\ driver = "idle" =>
        outstanding - drained = Cardinality({a \in Ops : io[a] # "none"})

\* The bookkeeping of what Windows owes is exact, before and during shutdown.
OwedExact == PendingExact /\ DrainExact

\* If shutdown was not cut short, by a failure of the port or by a panic, the
\* port is closed only when Windows holds no OVERLAPPED pointer of ours; every
\* leaked reference was reclaimed and a future that outlives the proactor has
\* its result, except where user code panicked.
ClosedDrained ==
    down = "closed" /\ ~cut =>
        \A a \in Ops :
            /\ io[a] = "none"
            /\ a \in live => a \in lost \/ oplock[a] = "poisoned"
            /\ fut[a] \in {"pending", "checking"} =>
                    state[a] = "Completed" \/ a \in lost \/ oplock[a] = "poisoned"

\* shutdown terminates.
ShutdownEnds == down = "cancelling" ~> down = "closed"

\* With somebody polling the proactor, a future whose packet was queued
\* resolves, unless the future is dropped, its own hook or that of a packet
\* ahead of it panics, or shutdown is cut short.
PolledResolves ==
    \A a \in Ops :
        (fut[a] = "pending" /\ awaiting[a] # None /\ io[a] = "queued" /\ down = "up")
            ~> (fut[a] = "none" \/ oplock[a] = "poisoned" \/ cut \/ a \in lost)

\* Polling and shutting down both get somewhere: shutdown ends, and a packet
\* that was queued resolves its future.
DriverProgress == ShutdownEnds /\ PolledResolves
=============================================================================
