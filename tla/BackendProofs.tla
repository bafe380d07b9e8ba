--------------------------- MODULE BackendProofs ---------------------------
(***************************************************************************)
(* Both backends implement RawOp, so the theorems of RawOpProofs hold of   *)
(* them.  The teardown of the thread-pool backend leaves nothing behind,   *)
(* for any number of operations, pool threads and tasks; the table and the *)
(* shutdown of the proactor are exact, for any batch size and any number   *)
(* of operations and tasks, panics that unwind through poll and a failing  *)
(* port included.                                                          *)
(*                                                                         *)
(* Nothing about the thread pool is proved from the assumption on the      *)
(* proactor's constants, and nothing about the proactor from that on the   *)
(* pool's.                                                                 *)
(***************************************************************************)
EXTENDS ThreadPoolIo, Proactor, RawOpProofs

----------------------------------------------------------------------------
(* The thread-pool backend.                                                *)


\* Every step of the backend is a step of RawOp or leaves the operations
\* alone.
LEMMA PoolStepImplements == [PoolNext]_poolVars => [Next]_vars
<1> SUFFICES ASSUME [PoolNext]_poolVars PROVE [Next]_vars
  OBVIOUS
<1>1. ASSUME NEW a \in Ops, PoolSubmit(a) PROVE SubmitStep(a)
  BY <1>1 DEF PoolSubmit, PoolNew, PoolStart, PoolStartPanics, PoolStarted,
         PoolSubmitRest, SubmitStep
<1>2. ASSUME NEW a \in Ops, PoolFuture(a) PROVE FutureStep(a)
  BY <1>2 DEF PoolFuture
<1>3. ASSUME NEW a \in Ops, PoolKernel(a) PROVE KernelStep
  BY <1>3 DEF PoolKernel, KernelStep
<1>4. ASSUME NEW w \in Workers, NEW a \in Ops, PoolDequeue(w, a) PROVE Dequeue(w, a)
  BY <1>4 DEF PoolDequeue
<1>5. ASSUME NEW w \in Workers, PoolCallback(w) PROVE CompleteStep(w)
  BY <1>5 DEF PoolCallback
<1>6. CASE CancelAll
  BY <1>6 DEF CancelAll, KernelStep, Next
<1>7. CASE DropLast \/ WaitAndClose
  BY <1>7 DEF DropLast, WaitAndClose
<1>8. CASE UNCHANGED poolVars
  BY <1>8 DEF poolVars
<1> QED BY <1>1, <1>2, <1>3, <1>4, <1>5, <1>6, <1>7, <1>8 DEF PoolNext, Next

\* The thread-pool backend drives the operations only through the steps of
\* raw.rs and future.rs.
THEOREM PoolImplements == PoolSpec => PoolImplementsRawOp
<1>1. PoolInit => Init
  BY DEF PoolInit
<1> QED BY <1>1, PoolStepImplements, PTL DEF PoolSpec, PoolImplementsRawOp, Spec

\* So with the thread pool, too, the reference count is exact and Windows
\* writes to live memory only, and no wake-up is lost.
THEOREM PoolSafe == PoolSpec => [](RefCount /\ KernelMemory /\ ResultSlot /\ NoLostWakeup)
<1>1. Spec => [](RefCount /\ KernelMemory /\ ResultSlot /\ NoLostWakeup)
  BY ExactCount, MemorySafe, ResultSafe, WakeupNotLost, PTL
<1> QED BY <1>1, PoolImplements, PTL DEF PoolImplementsRawOp

----------------------------------------------------------------------------
(* The teardown.  Besides the count, the invariant says who will finish an *)
(* operation that is out.                                                  *)

\* The starts that no callback has taken over, and the callbacks.
Out == {a \in Ops : io[a] # "none" \/ fut[a] \in {"opOk", "opErr"}}
Busy == {w \in Workers : wpc[w] # "idle"}

\* While a submit runs the registration is open, and it is closed with
\* nothing started.
Teardown ==
    /\ starts \in Nat
    /\ reg \in {"open", "dropping", "draining", "closed"}
    /\ reg # "open" => \A a \in Ops : ~PoolInSubmit(a)
    /\ reg = "closed" => starts = 0

PoolInv == StartsBalanced /\ Teardown /\ OwnerInv({})

LEMMA Counts ==
    /\ Cardinality(Out) \in Nat /\ Cardinality(Busy) \in Nat
    /\ Cardinality(Out) = 0 => Out = {}
    /\ Cardinality(Busy) = 0 => Busy = {}
<1>1. IsFiniteSet(Out) /\ IsFiniteSet(Busy)
  BY PoolAssumption, FS_Subset DEF Out, Busy
<1> QED
  BY <1>1, FS_CardinalityType, FS_EmptySet

----------------------------------------------------------------------------
(* Every step keeps the count.                                             *)

\* What a step of the operation at a, or of worker w, does to the count.
LEMMA OpCounts ==
    ASSUME StartsBalanced, Teardown, NEW a \in Ops, UNCHANGED wpc,
           \A b \in Ops \ {a} : b \in Out' <=> b \in Out,
           starts' = starts + One(a \in Out') - One(a \in Out)
    PROVE  StartsBalanced' /\ starts' \in Nat
<1>1. /\ Cardinality(Out) \in Nat /\ Cardinality(Out') \in Nat
      /\ Cardinality(Out') = Cardinality(Out) + One(a \in Out') - One(a \in Out)
  BY Differ, PoolAssumption DEF Out
<1>2. Busy' = Busy
  BY DEF Busy
<1> QED
  BY <1>1, <1>2, Counts DEF StartsBalanced, Teardown, Out, Busy, One

LEMMA WorkerCounts ==
    ASSUME StartsBalanced, Teardown, NEW w \in Workers, UNCHANGED <<io, fut>>,
           \A v \in Workers \ {w} : wpc'[v] = wpc[v],
           starts' = starts + One(w \in Busy') - One(w \in Busy)
    PROVE  StartsBalanced' /\ starts' \in Nat
<1>1. /\ Cardinality(Busy) \in Nat /\ Cardinality(Busy') \in Nat
      /\ Cardinality(Busy') = Cardinality(Busy) + One(w \in Busy') - One(w \in Busy)
  BY Differ, PoolAssumption DEF Busy
<1>2. Out' = Out
  BY DEF Out
<1> QED
  BY <1>1, <1>2, Counts DEF StartsBalanced, Teardown, Out, Busy, One

LEMMA SubmitCounts ==
    ASSUME IInv, StartsBalanced, Teardown, NEW a \in Ops, PoolSubmit(a)
    PROVE  StartsBalanced' /\ Teardown'
<1> USE DEF IInv, TypeOK, Out, One
<1>1. reg = "open" /\ reg' = "open"
  BY DEF PoolSubmit, PoolNew, PoolStart, PoolStartPanics, PoolStarted, PoolSubmitRest, Teardown,
     PoolInSubmit, Operate, OperatePanics, OperateReturns, Leak, Pend, HookInline, HookInlinePanics,
     Unleak
<1>2. CASE PoolNew(a)
  BY <1>1, <1>2, OpCounts DEF PoolNew, New, Teardown, kernelVars, workerVars
<1>3. CASE PoolStart(a)
  BY <1>1, <1>3, OpCounts DEF PoolStart, Operate, Phase, Teardown, workerVars
<1>4. CASE PoolStartPanics(a)
  BY <1>1, <1>4, OpCounts DEF PoolStartPanics, OperatePanics, Teardown, kernelVars, workerVars
<1>5. CASE PoolStarted(a)
  BY <1>1, <1>5, OpCounts DEF PoolStarted, OperateReturns, Phase, Teardown, kernelVars, workerVars
<1>6. CASE PoolSubmitRest(a)
  BY <1>1, <1>6, OpCounts DEF PoolSubmitRest, Leak, Pend, HookInline, HookInlinePanics, Unleak,
     Teardown, kernelVars, workerVars
<1> QED
  BY <1>2, <1>3, <1>4, <1>5, <1>6 DEF PoolSubmit

LEMMA FutureCounts ==
    ASSUME IInv, StartsBalanced, Teardown, NEW a \in Ops, PoolFuture(a)
    PROVE  StartsBalanced' /\ Teardown'
<1>1. /\ UNCHANGED <<io, wpc, starts, reg>>
      /\ \A b \in Ops \ {a} : fut'[b] = fut[b]
      /\ ~PoolInSubmit(a) /\ ~PoolInSubmit(a)'
  BY DEF IInv, TypeOK, PoolFuture, FutureStep, PollReady, TakeCompletion, Resolve, Abandon, Cancel,
     Release, SetWaker, kernelVars, workerVars, PoolInSubmit
<1>2. StartsBalanced'
  BY <1>1, OpCounts DEF Out, One, PoolInSubmit, Teardown
<1> QED
  BY <1>1, <1>2 DEF Teardown, PoolInSubmit

LEMMA DequeueCounts ==
    ASSUME IInv, StartsBalanced, Teardown, NEW w \in Workers, NEW a \in Ops, PoolDequeue(w, a)
    PROVE  StartsBalanced' /\ Teardown'
<1> USE DEF PoolDequeue, Dequeue, IInv, TypeOK, futVars
<1>1. /\ Cardinality(Out) \in Nat /\ Cardinality(Out') \in Nat
      /\ Cardinality(Out') = Cardinality(Out) - 1
  <2>1. \A b \in Ops \ {a} : b \in Out' <=> b \in Out
    BY DEF Out
  <2>2. a \in Out /\ a \notin Out'
    BY DEF Out, Phase
  <2>3. Out \in SUBSET Ops /\ Out' \in SUBSET Ops
    BY DEF Out
  <2> HIDE DEF IInv, TypeOK, PoolDequeue, Dequeue
  <2> QED
    BY <2>1, <2>2, <2>3, Differ, PoolAssumption DEF One
<1>2. /\ Cardinality(Busy) \in Nat /\ Cardinality(Busy') \in Nat
      /\ Cardinality(Busy') = Cardinality(Busy) + 1
  <2>1. \A v \in Workers \ {w} : v \in Busy' <=> v \in Busy
    BY DEF Busy
  <2>2. w \notin Busy /\ w \in Busy'
    BY DEF Busy
  <2> QED
    BY <2>1, <2>2, Differ, PoolAssumption DEF Busy, One
<1> QED
  BY <1>1, <1>2 DEF StartsBalanced, Teardown, Out, Busy, PoolInSubmit

LEMMA CallbackCounts ==
    ASSUME IInv, StartsBalanced, Teardown, NEW w \in Workers, PoolCallback(w)
    PROVE  StartsBalanced' /\ Teardown'
<1>1. /\ UNCHANGED <<io, fut, reg>>
      /\ wpc[w] # "idle"
      /\ \A v \in Workers \ {w} : wpc'[v] = wpc[v]
  BY DEF IInv, TypeOK, PoolCallback, CompleteStep, CompleteRuns, Claim, Hook, HookPanics, WriteResult,
     Publish, TakeWaker, Discard, DropKernelRef, Wake, kernelVars, futVars
<1>2. StartsBalanced' /\ starts' \in Nat
  BY <1>1, WorkerCounts DEF PoolCallback, Busy, One, Teardown
<1>3. reg # "closed"
  <2>1. w \in Busy
    BY <1>1 DEF Busy
  <2> QED
    BY <2>1, Counts DEF StartsBalanced, Teardown, Out, Busy
<1> QED
  BY <1>1, <1>2, <1>3 DEF Teardown, PoolInSubmit

LEMMA PoolInvInit == PoolInit => PoolInv
<1> SUFFICES ASSUME PoolInit PROVE PoolInv
  OBVIOUS
<1>1. Out = {} /\ Busy = {}
  BY DEF PoolInit, Init, Out, Busy
<1>2. StartsBalanced
  BY <1>1, FS_EmptySet DEF StartsBalanced, Out, Busy, PoolInit
<1> QED
  BY <1>2, InitOwned DEF PoolInv, PoolInit, Teardown

LEMMA PoolOwned ==
    ASSUME IInv, OwnerInv({}), [PoolNext]_poolVars
    PROVE  OwnerInv({})'
<1>1. ASSUME NEW a \in Ops, PoolSubmit(a) PROVE OwnerInv({})'
  <2>1. SubmitStep(a)
    BY <1>1 DEF PoolSubmit, PoolNew, PoolStart, PoolStartPanics, PoolStarted, PoolSubmitRest,
       SubmitStep
  <2> QED
    BY <2>1, SubmitOwned
<1>2. ASSUME NEW a \in Ops, PoolFuture(a) PROVE OwnerInv({})'
  BY <1>2, FutureOwned DEF PoolFuture
<1>3. ASSUME NEW a \in Ops, PoolKernel(a) PROVE OwnerInv({})'
  BY <1>3, KernelOwned DEF PoolKernel, KernelStep
<1>4. ASSUME NEW w \in Workers, NEW a \in Ops, PoolDequeue(w, a) PROVE OwnerInv({})'
  BY <1>4, DequeueOwned DEF PoolDequeue
<1>5. ASSUME NEW w \in Workers, PoolCallback(w) PROVE OwnerInv({})'
  BY <1>5, CallbackOwned DEF PoolCallback
<1>6. CASE CancelAll
  BY <1>6, KernelOwned DEF CancelAll, KernelStep
<1>7. CASE UNCHANGED vars
  BY <1>7 DEF vars, futVars, opVars, kernelVars, workerVars, OwnerInv, OperateLocks, Wanted,
     Reclaimed, Finishes, OnItsWay, Completing, Dequeued
<1> QED
  BY <1>1, <1>2, <1>3, <1>4, <1>5, <1>6, <1>7 DEF PoolNext, DropLast, WaitAndClose, poolVars

LEMMA PoolInvNext == IInv /\ PoolInv /\ [PoolNext]_poolVars => PoolInv'
<1> SUFFICES ASSUME IInv, PoolInv, [PoolNext]_poolVars PROVE StartsBalanced' /\ Teardown'
  BY PoolOwned DEF PoolInv
<1> USE DEF PoolInv
<1>1. ASSUME NEW a \in Ops, PoolKernel(a) PROVE StartsBalanced' /\ Teardown'
  BY <1>1, OpCounts DEF PoolKernel, IoCompletes, IInv, TypeOK, Out, One, Teardown, PoolInSubmit, futVars,
     workerVars
<1>2. CASE DropLast \/ CancelAll \/ WaitAndClose \/ UNCHANGED poolVars
  <2>1. UNCHANGED <<io, fut, wpc, starts>>
    BY <1>2 DEF DropLast, CancelAll, CancelHandle, WaitAndClose, poolVars, vars, futVars,
       kernelVars, workerVars
  <2>2. StartsBalanced'
    BY <2>1 DEF StartsBalanced
  <2>3. Teardown'
    BY <1>2, <2>1 DEF DropLast, CancelAll, WaitAndClose, poolVars, Teardown, PoolInSubmit
  <2> QED
    BY <2>2, <2>3
<1> QED
  BY <1>1, <1>2, SubmitCounts, FutureCounts, DequeueCounts, CallbackCounts DEF PoolNext

\* When the registration is gone, nothing that it started is left: the pool's
\* count is exact at every step of submit, of the callbacks and of the
\* teardown, so the wait in Drop for Registration returns neither before the
\* last callback nor without reclaiming what was leaked.
THEOREM PoolDrained == PoolSpec => []PoolClosed
<1>1. IInv /\ PoolInv => PoolClosed
  <2> SUFFICES ASSUME IInv, PoolInv, reg = "closed" PROVE PoolClosed
    BY DEF PoolClosed, PoolInv
  <2>1. Out = {} /\ Busy = {}
    BY Counts DEF PoolInv, StartsBalanced, Teardown, Out, Busy
  <2>2. \A a \in Ops : io[a] = "none"
    BY <2>1 DEF Out
  <2>3. \A w \in Workers : wpc[w] = "idle"
    BY <2>1 DEF Busy
  <2>4. \A a \in Ops : ~OnItsWay(a) /\ \A w \in Workers : ~Completing(w, a)
    BY <2>2, <2>3 DEF OnItsWay, Dequeued, Completing
  <2>5. \A a \in Ops : ~PoolInSubmit(a)
    BY DEF PoolInv, Teardown
  <2>6. live \subseteq Ops
    BY DEF IInv, TypeOK
  <2> QED
    BY <2>2, <2>3, <2>4, <2>5, <2>6 DEF PoolClosed, PoolInv, OwnerInv, Reclaimed, Finishes, PoolInSubmit
<1>2. Spec => []IInv
  BY Invariant
<1>3. PoolSpec => []IInv
  BY <1>2, PoolImplements, PTL DEF PoolImplementsRawOp
<1> QED
  BY <1>1, <1>3, PoolInvInit, PoolInvNext, PTL DEF PoolSpec

----------------------------------------------------------------------------
(* The proactor.                                                           *)


\* The driver's position in its batch.
Position == count \in 0..BATCH /\ slot \in 1..(BATCH + 1)

\* The slots the driver works on are workers of RawOp.
LEMMA Slots ==
    ASSUME Position
    PROVE  /\ slot <= count => slot \in Workers
           /\ count < BATCH => count + 1 \in Workers
  BY ProactorAssumption DEF Position

\* poll never leaves its batch: not when it collects, when it dispatches, or
\* when a panic unwinds.
LEMMA PositionKept == Position /\ [ProcNext]_procVars => Position'
<1> SUFFICES ASSUME Position, [ProcNext]_procVars PROVE Position'
  OBVIOUS
<1> USE ProactorAssumption DEF Position
<1>1. CASE UNCHANGED driverVars
  BY <1>1 DEF driverVars
<1>2. CASE PollBegins \/ PollEnds \/ UnwindEnds \/ CollectEnds
  BY <1>2 DEF PollBegins, PollEnds, UnwindEnds, CollectEnds
<1>3. ASSUME NEW a \in Ops \cup Foreign, Collect(a) PROVE Position'
  BY <1>3 DEF Collect
<1>4. CASE Dispatch
  BY <1>4 DEF Dispatch, One
<1>5. CASE DispatchPanics \/ Unwind
  BY <1>5 DEF DispatchPanics, Unwind
<1>6. CASE \E a \in Ops : ProcNew(a) \/ ProcSubmitRest(a) \/ ProcTrack(a) \/ ProcFuture(a)
  <2>1. UNCHANGED driverVars
    BY <1>6 DEF ProcNew, ProcSubmitRest, ProcTrack, ProcFuture
  <2> QED BY <1>1, <2>1
<1>7. CASE ProcKernel \/ ShutdownBegins \/ PortFails \/ ShutdownStep
  <2>1. UNCHANGED driverVars
    BY <1>7 DEF ProcKernel, ShutdownBegins, PortFails, ShutdownStep, ShutdownCancelled,
           ShutdownDrained, ClosePort, ShutdownCancel, ShutdownDrops
  <2> QED BY <1>1, <2>1
<1>8. ASSUME NEW a \in Ops, RemovePending(a) PROVE Position'
  BY <1>1, <1>8 DEF RemovePending
<1>9. CASE UNCHANGED procVars
  BY <1>1, <1>9 DEF procVars
<1> QED BY <1>2, <1>3, <1>4, <1>5, <1>6, <1>7, <1>8, <1>9 DEF ProcNext, DriverStep

\* Every step of the proactor is a step of RawOp or leaves the operations
\* alone.
LEMMA ProcStepImplements == Position /\ [ProcNext]_procVars => [Next]_vars
<1> SUFFICES ASSUME Position, [ProcNext]_procVars PROVE [Next]_vars
  OBVIOUS
<1>1. ASSUME NEW a \in Ops, ProcNew(a) \/ ProcSubmitRest(a) \/ ProcTrack(a)
      PROVE  SubmitStep(a)
  BY <1>1 DEF ProcNew, ProcSubmitRest, ProcTrack, SubmitStep
<1>2. ASSUME NEW a \in Ops, ProcFuture(a) PROVE FutureStep(a)
  BY <1>2 DEF ProcFuture
<1>3. CASE ProcKernel
  BY <1>3 DEF ProcKernel, KernelStep, Next
<1>4. ASSUME NEW a \in Ops \cup Foreign, Collect(a) PROVE Next
  BY <1>4, Slots DEF Collect, Next
<1>5. ASSUME NEW a \in Ops, RemovePending(a) \/ ShutdownCancel(a) \/ ShutdownDrops(a)
      PROVE  TableStep(a)
  BY <1>5 DEF RemovePending, ShutdownCancel, ShutdownDrops, TableStep
<1>6. CASE Dispatch \/ DispatchPanics \/ Unwind
  <2>1. slot \in Workers
    BY <1>6, Slots DEF Dispatch, DispatchPanics, Unwind
  <2>2. CompleteStep(slot) \/ DropPacket(slot)
    BY <1>6 DEF Dispatch, DispatchPanics, Unwind, CompleteStep
  <2> QED BY <2>1, <2>2 DEF Next
<1>7. CASE PollBegins \/ CollectEnds \/ PollEnds \/ UnwindEnds
  BY <1>7 DEF PollBegins, CollectEnds, PollEnds, UnwindEnds
<1>8. CASE ShutdownBegins \/ ShutdownCancelled \/ ShutdownDrained \/ ClosePort \/ PortFails
  BY <1>8 DEF ShutdownBegins, ShutdownCancelled, ShutdownDrained, ClosePort, PortFails
<1>9. CASE UNCHANGED procVars
  BY <1>9 DEF procVars
<1> QED BY <1>1, <1>2, <1>3, <1>4, <1>5, <1>6, <1>7, <1>8, <1>9
    DEF ProcNext, DriverStep, ShutdownStep, Next

\* The proactor drives the operations only through the steps of raw.rs and
\* future.rs.
THEOREM ProcImplements == ProcSpec => ImplementsRawOp
<1>1. ProcInit => Init /\ Position
  BY ProactorAssumption DEF ProcInit, Position
<1> QED BY <1>1, PositionKept, ProcStepImplements, PTL DEF ProcSpec, ImplementsRawOp, Spec

\* So with the proactor, too, the reference count is exact, Windows writes to
\* live memory only, and no wake-up is lost.
THEOREM ProcSafe == ProcSpec => [](RefCount /\ KernelMemory /\ ResultSlot /\ NoLostWakeup)
<1>1. Spec => [](RefCount /\ KernelMemory /\ ResultSlot /\ NoLostWakeup)
  BY ExactCount, MemorySafe, ResultSafe, WakeupNotLost, PTL
<1> QED BY <1>1, ProcImplements, PTL DEF ImplementsRawOp

----------------------------------------------------------------------------
(* What is owed, and the shutdown.                                         *)

\* The calls that Windows has not completed, and the slots whose delivery will
\* be counted.
Owed == {a \in Ops : io[a] # "none"}
InHand == {i \in Workers : wpc[i] # "idle" /\ ~(wpc[i] = "dequeued" /\ waddr[i] \in Foreign)}

\* The driver works through its batch, and only the drop of the proactor polls
\* after the shutdown has begun.
Batch ==
    /\ Position
    /\ driver \in {"idle", "collecting", "dispatching", "unwinding"}
    /\ driver = "collecting" => slot = 1 /\ \A i \in 1..count : wpc[i] = "dequeued"
    /\ \A i \in Workers : wpc[i] # "idle" => driver # "idle" /\ slot <= i /\ i <= count
    /\ driver # "idle" => down \in {"up", "draining"}

\* A submit runs between two polls, or in a waker.
Submitting ==
    \A a \in Ops : InSubmit(a) =>
        /\ down = "up"
        /\ driver = "idle" \/ (driver = "dispatching" /\ slot <= count /\ wpc[slot] = "waking")

\* The entry of an operation leaves the table after its packet was collected
\* and before it is dispatched.
Table ==
    /\ pending \in SUBSET Ops
    /\ down # "up" => pending = {}
    /\ \A a \in pending : \/ io[a] # "none"
                          \/ driver = "collecting" /\ \E i \in 1..count : waddr[i] = a
    /\ down = "up" => \A a \in Ops : io[a] # "none" =>
                            a \in pending \/ fut[a] \in {"opPending", "started"}
    /\ \A a \in Ops : fut[a] \in {"opPending", "started"} => io[a] # "none"

\* The shutdown waits for what is owed or in hand.
Drain ==
    /\ down \in {"up", "cancelling", "draining", "closing", "closed"}
    /\ cut \in BOOLEAN /\ outstanding \in Nat /\ drained \in Nat
    /\ down \in {"up", "cancelling"} => drained = 0
    /\ down = "cancelling" => outstanding = Cardinality(Owed)
    /\ down = "draining" /\ driver # "unwinding" =>
            outstanding = drained + Cardinality(Owed) + Cardinality(InHand)
    /\ down \in {"closing", "closed"} /\ ~cut => Owed = {}

ProcInv == Batch /\ Submitting /\ Table /\ Drain /\ OwnerInv(lost)

LEMMA Sets ==
    /\ Owed \in SUBSET Ops /\ InHand \in SUBSET Workers
    /\ IsFiniteSet(Ops) /\ IsFiniteSet(Workers)
    /\ Cardinality(Owed) \in Nat /\ Cardinality(InHand) \in Nat
    /\ Cardinality(Owed) = 0 <=> Owed = {}
    /\ InHand = {} => Cardinality(InHand) = 0
<1>1. Owed \in SUBSET Ops /\ InHand \in SUBSET Workers
  BY DEF Owed, InHand
<1>2. IsFiniteSet(Ops) /\ IsFiniteSet(Workers)
  BY ProactorAssumption, FS_Interval
<1> QED
  BY <1>1, <1>2, FS_Subset, FS_CardinalityType, FS_EmptySet

LEMMA SubmitProc ==
    ASSUME IInv, ProcInv, NEW a \in Ops,
           ProcNew(a) \/ ProcSubmitRest(a) \/ ProcTrack(a)
    PROVE  ProcInv'
<1> USE DEF ProcInv
<1>1. /\ down = "up" /\ driver \in {"idle", "dispatching"}
      /\ driver = "dispatching" => slot <= count /\ wpc[slot] = "waking"
  BY DEF ProcNew, CanSubmit, ProcSubmitRest, ProcTrack, Leak, Operate, OperatePanics,
     OperateReturns, HookInline, HookInlinePanics, Unleak, Track, Submitting, InSubmit
<1>2. /\ UNCHANGED <<driver, count, slot, down, outstanding, drained, cut, lost, wpc, waddr>>
      /\ \A b \in Ops \ {a} : fut'[b] = fut[b] /\ io'[b] = io[b]
      /\ pending' \in {pending, pending \cup {a}}
  BY DEF ProcNew, ProcSubmitRest, ProcTrack, New, Leak, Operate, OperatePanics,
     OperateReturns, HookInline, HookInlinePanics, Unleak, Track, driverVars, downVars,
     kernelVars, workerVars, IInv, TypeOK
<1>3. Batch'
  BY <1>2 DEF Batch, Position
<1>4. Submitting'
  BY <1>1, <1>2 DEF Submitting, InSubmit
<1>5. Table'
  <2>1. CASE ProcTrack(a)
    BY <1>1, <1>2, <2>1 DEF ProcTrack, Track, IInv, TypeOK, Table
  <2>2. CASE ProcNew(a)
    <3>1. io[a] = "none"
      BY <2>2, Owners DEF ProcNew, New, IInv, KernelPins
    <3> QED
      BY <1>1, <1>2, <2>2, <3>1 DEF ProcNew, New, IInv, TypeOK, Table, kernelVars
  <2>3. CASE ProcSubmitRest(a)
    <3>1. UNCHANGED pending
      BY <2>3 DEF ProcSubmitRest
    <3>2. CASE Operate(a)
      BY <1>1, <1>2, <3>1, <3>2 DEF Operate, IInv, TypeOK, Table, Phase
    <3>3. CASE ~Operate(a)
      <4>1. UNCHANGED io
        BY <2>3, <3>3 DEF ProcSubmitRest, Leak, OperatePanics, OperateReturns, HookInline,
           HookInlinePanics, Unleak, kernelVars
      <4>2. /\ fut'[a] \in {"opPending", "started"} => fut[a] \in {"opPending", "started"}
            /\ fut[a] \in {"opPending", "started"} => fut'[a] \in {"opPending", "started"}
        BY <2>3, <3>3 DEF ProcSubmitRest, Leak, OperatePanics, OperateReturns, HookInline,
           HookInlinePanics, Unleak, IInv, TypeOK
      <4> QED
        BY <1>1, <1>2, <3>1, <4>1, <4>2 DEF Table
    <3> QED
      BY <3>2, <3>3
  <2> QED
    BY <2>1, <2>2, <2>3
<1>6. Drain'
  BY <1>1, <1>2 DEF Drain
<1>7. SubmitStep(a)
  BY DEF ProcNew, ProcSubmitRest, ProcTrack, SubmitStep
<1>8. PICK L : L = lost
  OBVIOUS
<1>9. OwnerInv(L)'
  BY <1>7, <1>8, SubmitOwned
<1> QED
  BY <1>2, <1>3, <1>4, <1>5, <1>6, <1>8, <1>9

\* Steps of others: what they may do to a call is complete it.
LEMMA AsideProc ==
    ASSUME IInv, ProcInv,
           UNCHANGED <<pending, driver, count, slot, down, outstanding, drained, cut, wpc, waddr>>,
           \A b \in Ops : /\ io'[b] = "none" <=> io[b] = "none"
                          /\ fut'[b] = fut[b] \/ {fut[b], fut'[b]} \cap SubmitPC = {}
    PROVE  Batch' /\ Submitting' /\ Table' /\ Drain'
<1> USE DEF ProcInv
<1>1. Batch'
  BY DEF Batch, Position
<1>2. Submitting'
  BY DEF Submitting, InSubmit, SubmitPC
<1>3. Table'
  BY DEF Table, SubmitPC
<1>4. Owed' = Owed /\ InHand' = InHand
  BY DEF Owed, InHand
<1> QED
  BY <1>1, <1>2, <1>3, <1>4 DEF Drain

LEMMA FutureProc ==
    ASSUME IInv, ProcInv, NEW a \in Ops, ProcFuture(a)
    PROVE  ProcInv'
<1> USE DEF ProcInv
<1>1. /\ UNCHANGED <<pending, driver, count, slot, down, outstanding, drained, cut, lost, wpc, waddr,
                     io>>
      /\ \A b \in Ops \ {a} : fut'[b] = fut[b]
      /\ {fut[a], fut'[a]} \cap SubmitPC = {}
  BY DEF IInv, TypeOK, ProcFuture, FutureStep, PollReady, TakeCompletion, Resolve, Abandon, Cancel,
     Release, SetWaker, kernelVars, workerVars, driverVars, downVars, SubmitPC
<1>2. Batch' /\ Submitting' /\ Table' /\ Drain'
  BY <1>1, AsideProc
<1>3. PICK L : L = lost
  OBVIOUS
<1>4. OwnerInv(L)'
  BY <1>3, FutureOwned DEF ProcFuture
<1> QED
  BY <1>1, <1>2, <1>3, <1>4

LEMMA KernelProc ==
    ASSUME IInv, ProcInv, ProcKernel
    PROVE  ProcInv'
<1> USE DEF ProcInv
<1>1. /\ UNCHANGED <<pending, driver, count, slot, down, outstanding, drained, cut, lost, wpc, waddr,
                     fut>>
      /\ \A b \in Ops : io'[b] = "none" <=> io[b] = "none"
  BY ConstantsAssumption DEF IInv, TypeOK, ProcKernel, IoCompletes, ForeignCall, driverVars, downVars,
     workerVars, futVars
<1>2. Batch' /\ Submitting' /\ Table' /\ Drain'
  BY <1>1, AsideProc
<1>3. PICK L : L = lost
  OBVIOUS
<1>4. KernelStep
  BY DEF ProcKernel, KernelStep
<1>5. OwnerInv(L)'
  BY <1>3, <1>4, KernelOwned
<1> QED
  BY <1>1, <1>2, <1>3, <1>5

\* Steps that concern the allocations not at all.
LEMMA Untouched ==
    ASSUME ProcInv, UNCHANGED <<vars, lost>>
    PROVE  OwnerInv(lost)' /\ Owed' = Owed /\ InHand' = InHand
<1>1. Owed' = Owed /\ InHand' = InHand
  BY DEF vars, kernelVars, workerVars, Owed, InHand
<1>2. OwnerInv(lost)'
  BY DEF ProcInv, OwnerInv, OperateLocks, Wanted, Reclaimed, Finishes, OnItsWay, Completing, Dequeued,
     vars, futVars, opVars, kernelVars, workerVars
<1> QED
  BY <1>1, <1>2

LEMMA PollProc ==
    ASSUME IInv, ProcInv, PollBegins \/ CollectEnds \/ PollEnds
    PROVE  ProcInv'
<1> USE DEF ProcInv
<1>1. UNCHANGED <<vars, pending, down, outstanding, drained, cut, lost>>
  BY DEF PollBegins, CollectEnds, PollEnds, downVars
<1>2. OwnerInv(lost)' /\ Owed' = Owed /\ InHand' = InHand
  BY <1>1, Untouched
<1>3. UNCHANGED <<io, fut, wpc, waddr>>
  BY <1>1 DEF vars, futVars, kernelVars, workerVars
<1>4. CASE PollBegins
  <2>1. Batch'
    BY <1>1, <1>3, <1>4, ProactorAssumption DEF PollBegins, Batch, Position, Driving
  <2>2. Submitting'
    BY <1>1, <1>3, <1>4 DEF PollBegins, Submitting, InSubmit, Driving
  <2>3. Table'
    BY <1>1, <1>3, <1>4 DEF PollBegins, Table, Batch
  <2>4. Drain'
    BY <1>1, <1>2, <1>4 DEF PollBegins, Drain
  <2> QED
    BY <1>2, <2>1, <2>2, <2>3, <2>4
<1>5. CASE CollectEnds
  <2>1. Batch'
    BY <1>1, <1>3, <1>5 DEF CollectEnds, Batch, Position
  <2>2. Submitting'
    BY <1>1, <1>3, <1>5 DEF CollectEnds, Submitting, InSubmit
  <2>3. Table'
    BY <1>1, <1>3, <1>5 DEF CollectEnds, Table
  <2>4. Drain'
    BY <1>1, <1>2, <1>5 DEF CollectEnds, Drain
  <2> QED
    BY <1>2, <2>1, <2>2, <2>3, <2>4
<1>6. CASE PollEnds
  <2>1. Batch'
    BY <1>1, <1>3, <1>6, ProactorAssumption DEF PollEnds, Batch, Position
  <2>2. Submitting'
    BY <1>1, <1>3, <1>6 DEF PollEnds, Submitting, InSubmit
  <2>3. Table'
    BY <1>1, <1>3, <1>6 DEF PollEnds, Table
  <2>4. Drain'
    BY <1>1, <1>2, <1>6 DEF PollEnds, Drain
  <2> QED
    BY <1>2, <2>1, <2>2, <2>3, <2>4
<1> QED
  BY <1>4, <1>5, <1>6

\* A packet leaves what is owed, and is in hand if it is one of ours.
LEMMA CollectProc ==
    ASSUME IInv, ProcInv, NEW a \in Ops \cup Foreign, Collect(a)
    PROVE  ProcInv'
<1> USE DEF ProcInv
<1>1. /\ UNCHANGED <<pending, driver, slot, down, outstanding, drained, cut, lost, fut>>
      /\ count' = count + 1 /\ driver = "collecting"
      /\ io' = [io EXCEPT ![a] = "none"] /\ io[a] = "queued"
      /\ wpc' = [wpc EXCEPT ![count + 1] = "dequeued"] /\ wpc[count + 1] = "idle"
      /\ waddr' = [waddr EXCEPT ![count + 1] = a]
  BY DEF Collect, Dequeue, downVars, futVars
<1>2. count + 1 \in Workers /\ count \in Nat
  BY Slots, ProactorAssumption DEF Collect, Batch, Position
<1>3. Batch'
  BY <1>1, <1>2, ProactorAssumption DEF Batch, Position, IInv, TypeOK
<1>4. \A b \in Ops : ~InSubmit(b) /\ ~InSubmit(b)'
  BY <1>1 DEF Submitting, InSubmit
<1>5. Submitting'
  BY <1>4 DEF Submitting
<1>6. Table'
  <2>1. ASSUME NEW b \in pending PROVE io'[b] # "none" \/ \E i \in 1..count' : waddr'[i] = b
    <3>1. io[b] # "none"
      BY <2>1 DEF Collect, Table
    <3>2. CASE b = a
      <4>1. waddr'[count + 1] = b /\ count + 1 \in 1..count'
        BY <1>1, <1>2, <3>2 DEF IInv, TypeOK
      <4> QED
        BY <4>1
    <3> QED
      BY <1>1, <3>1, <3>2 DEF IInv, TypeOK
  <2> QED
    BY <1>1, <1>4, <2>1 DEF Table, InSubmit, IInv, TypeOK
<1>7. Drain'
  <2>1. CASE a \in Ops
    <3>1. Owed' = Owed \ {a} /\ a \in Owed
      BY <1>1, <2>1 DEF Owed, IInv, TypeOK
    <3>2. InHand' = InHand \cup {count + 1} /\ count + 1 \notin InHand
      BY <1>1, <1>2, <2>1, ConstantsAssumption DEF InHand, IInv, TypeOK
    <3>3. Cardinality(Owed') = Cardinality(Owed) - 1
      BY <3>1, Sets, FS_Subset, FS_RemoveElement
    <3>4. Cardinality(InHand') = Cardinality(InHand) + 1
      BY <3>2, Sets, FS_Subset, FS_AddElement
    <3> QED
      BY <1>1, <3>1, <3>3, <3>4, Sets DEF Drain, Batch
  <2>2. CASE a \in Foreign
    <3>1. Owed' = Owed
      BY <1>1, <2>2, ConstantsAssumption DEF Owed, IInv, TypeOK
    <3>2. InHand' = InHand
      BY <1>1, <1>2, <2>2 DEF InHand, IInv, TypeOK
    <3> QED
      BY <1>1, <3>1, <3>2 DEF Drain
  <2> QED
    BY <2>1, <2>2
<1>8. PICK L : L = lost
  OBVIOUS
<1>9. OwnerInv(L)'
  BY <1>2, <1>8, DequeueOwned DEF Collect
<1> QED
  BY <1>1, <1>3, <1>5, <1>6, <1>7, <1>8, <1>9

LEMMA RemoveProc ==
    ASSUME IInv, ProcInv, NEW a \in Ops, RemovePending(a)
    PROVE  ProcInv'
<1> USE DEF ProcInv
<1>1. /\ UNCHANGED <<driver, count, slot, down, outstanding, drained, cut, lost, fut, io, wpc, waddr>>
      /\ pending' = pending \ {a} /\ driver = "collecting"
      /\ TableStep(a)
  BY DEF RemovePending, DropErased, TableStep, driverVars, downVars, futVars, workerVars
<1>2. Batch' /\ Submitting'
  BY <1>1 DEF Batch, Position, Submitting, InSubmit
<1>3. io[a] = "none"
  <2>1. PICK i \in 1..count : waddr[i] = a
    BY DEF RemovePending
  <2>2. i \in Workers
    BY <2>1, ProactorAssumption DEF Batch, Position
  <2>3. Dequeued(i, a)
    BY <1>1, <2>1 DEF Batch, Dequeued
  <2> QED
    BY <2>2, <2>3 DEF IInv, PacketOnce
<1>4. Table'
  <2>1. \A b \in pending' : io'[b] # "none" \/ (driver' = "collecting"
                                                 /\ \E i \in 1..count' : waddr'[i] = b)
    BY <1>1 DEF Table
  <2>2. down' = "up" => \A b \in Ops : io'[b] # "none" =>
                            b \in pending' \/ fut'[b] \in {"opPending", "started"}
    BY <1>1, <1>3 DEF Table
  <2> QED
    BY <1>1, <2>1, <2>2 DEF Table
<1>5. Drain'
  <2>1. Owed' = Owed /\ InHand' = InHand
    BY <1>1 DEF Owed, InHand
  <2> QED
    BY <1>1, <2>1 DEF Drain
<1>6. PICK L : L = lost
  OBVIOUS
<1>7. OwnerInv(L)'
  BY <1>1, <1>6, TableOwned
<1> QED
  BY <1>1, <1>2, <1>4, <1>5, <1>6, <1>7

\* A delivery leaves the hand and is counted; a foreign packet is neither.
LEMMA DispatchProc ==
    ASSUME IInv, ProcInv, Dispatch
    PROVE  ProcInv'
<1> USE DEF ProcInv
<1>1. /\ UNCHANGED <<pending, driver, count, down, outstanding, cut, lost>>
      /\ driver = "dispatching" /\ slot <= count
      /\ \A a \in Ops : ~InSubmit(a)
      /\ CompleteRuns(slot)
      /\ slot' = slot + One(wpc'[slot] = "idle")
      /\ drained' = drained + One(wpc'[slot] = "idle" /\ wpc[slot] # "dequeued"
                                    /\ down = "draining")
  BY DEF Dispatch
<1>2. slot \in Workers /\ slot \in Nat /\ count \in Nat
  BY <1>1, Slots, ProactorAssumption DEF Batch, Position
<1>3. /\ UNCHANGED <<io, fut>>
      /\ wpc[slot] # "idle"
      /\ \A i \in Workers \ {slot} : wpc'[i] = wpc[i] /\ waddr'[i] = waddr[i]
  BY <1>1, <1>2 DEF IInv, TypeOK, CompleteRuns, Claim, Hook, WriteResult, Publish, TakeWaker, Discard,
     DropKernelRef, Wake, kernelVars, futVars
<1>4. Batch'
  <2>1. Position'
    BY <1>1, <1>2, ProactorAssumption DEF Batch, Position, One
  <2>2. \A i \in Workers : wpc'[i] # "idle" => driver' # "idle" /\ slot' <= i /\ i <= count'
    BY <1>1, <1>2, <1>3, ProactorAssumption DEF Batch, One
  <2> QED
    BY <1>1, <2>1, <2>2 DEF Batch
<1>5. Submitting'
  BY <1>1, <1>3 DEF Submitting, InSubmit
<1>6. Table'
  BY <1>1, <1>3 DEF Table
<1>7. Drain'
  <2>1. Owed' = Owed
    BY <1>3 DEF Owed
  <2>2. \A i \in Workers \ {slot} : i \in InHand' <=> i \in InHand
    BY <1>3 DEF InHand
  <2>3. slot \in InHand <=> slot \in InHand' \/ (wpc'[slot] = "idle" /\ wpc[slot] # "dequeued")
    <3>1. CASE Claim(slot)
      <4>1. waddr[slot] \in live <=> waddr[slot] \in Ops
        BY <1>2, <3>1 DEF Claim, IInv, TypeOK, KernelPins
      <4>2. waddr[slot] \in Ops <=> waddr[slot] \notin Foreign
        BY <1>2, <3>1, ConstantsAssumption DEF Claim, IInv, Addresses
      <4> QED
        BY <1>2, <3>1, <4>1, <4>2 DEF Claim, InHand, IInv, TypeOK
    <3>2. CASE ~Claim(slot)
      <4>1. wpc[slot] # "dequeued" /\ wpc'[slot] # "dequeued"
        BY <1>1, <1>2, <3>2 DEF CompleteRuns, Hook, WriteResult, Publish, TakeWaker, Discard,
           DropKernelRef, Wake, IInv, TypeOK
      <4> QED
        BY <1>2, <1>3, <4>1 DEF InHand
    <3> QED
      BY <3>1, <3>2
  <2>4. slot \in InHand' => wpc'[slot] # "idle"
    BY DEF InHand
  <2>5. Cardinality(InHand') + One(wpc'[slot] = "idle" /\ wpc[slot] # "dequeued")
            = Cardinality(InHand)
    <3>1. InHand' \in SUBSET Workers
      BY DEF InHand
    <3>2. /\ Cardinality(InHand) \in Nat /\ Cardinality(InHand') \in Nat
          /\ Cardinality(InHand') = Cardinality(InHand) + One(slot \in InHand') - One(slot \in InHand)
      <4>1. InHand \in SUBSET Workers /\ slot \in Workers /\ IsFiniteSet(Workers)
        BY <1>2, Sets DEF InHand
      <4> QED
        BY <2>2, <3>1, <4>1, Differ
    <3> QED
      BY <2>3, <2>4, <3>2 DEF One
  <2>6. Cardinality(InHand') \in Nat
    <3>1. InHand' \in SUBSET Workers
      BY DEF InHand
    <3> QED
      BY <3>1, Sets, FS_Subset, FS_CardinalityType
  <2> QED
    BY <1>1, <2>1, <2>5, <2>6, Sets DEF Drain, One
<1>8. PICK L : L = lost
  OBVIOUS
<1>9. OwnerInv(L)'
  BY <1>1, <1>2, <1>8, CallbackOwned DEF CompleteStep
<1> QED
  BY <1>1, <1>4, <1>5, <1>6, <1>7, <1>8, <1>9

\* A panic: the shutdown, if there is one, will be cut short.
LEMMA PanicProc ==
    ASSUME IInv, ProcInv, DispatchPanics
    PROVE  ProcInv'
<1> USE DEF ProcInv
<1>1. /\ UNCHANGED <<pending, count, down, outstanding, drained, cut, lost, io, fut>>
      /\ driver = "dispatching" /\ driver' = "unwinding" /\ slot <= count
      /\ slot' = slot + 1
      /\ HookPanics(slot)
  BY DEF DispatchPanics, HookPanics, downVars, futVars, kernelVars
<1>2. slot \in Workers /\ slot \in Nat /\ count \in Nat
  BY <1>1, Slots, ProactorAssumption DEF Batch, Position
<1>3. /\ wpc[slot] = "claimed"
      /\ wpc' = [wpc EXCEPT ![slot] = "idle"]
  BY <1>1 DEF HookPanics
<1>4. Batch'
  BY <1>1, <1>2, <1>3, ProactorAssumption DEF Batch, Position, IInv, TypeOK
<1>5. \A a \in Ops : ~InSubmit(a)
  BY <1>1, <1>3 DEF Submitting
<1>6. Submitting'
  BY <1>1, <1>5 DEF Submitting, InSubmit
<1>7. Table'
  BY <1>1 DEF Table
<1>8. Drain'
  <2>1. Owed' = Owed
    BY <1>1 DEF Owed
  <2> QED
    BY <1>1, <2>1 DEF Drain, Batch
<1>9. PICK L : L = lost
  OBVIOUS
<1>10. OwnerInv(L)'
  BY <1>1, <1>2, <1>9, CallbackOwned DEF CompleteStep
<1> QED
  BY <1>1, <1>4, <1>6, <1>7, <1>8, <1>9, <1>10

LEMMA UnwindProc ==
    ASSUME IInv, ProcInv, Unwind
    PROVE  ProcInv'
<1> USE DEF ProcInv
<1>1. /\ UNCHANGED <<pending, driver, count, down, outstanding, drained, cut, io, fut>>
      /\ driver = "unwinding" /\ slot <= count
      /\ slot' = slot + 1
      /\ DropPacket(slot)
      /\ lost' = lost \cup ({waddr[slot]} \cap Ops)
  BY DEF Unwind, DropPacket, futVars, kernelVars
<1>2. slot \in Workers /\ slot \in Nat /\ count \in Nat
  BY <1>1, Slots, ProactorAssumption DEF Batch, Position
<1>3. wpc' = [wpc EXCEPT ![slot] = "idle"]
  BY <1>1 DEF DropPacket
<1>4. Batch'
  BY <1>1, <1>2, <1>3, ProactorAssumption DEF Batch, Position, IInv, TypeOK
<1>5. Submitting'
  BY <1>1 DEF Submitting, InSubmit
<1>6. Table'
  BY <1>1 DEF Table
<1>7. Drain'
  <2>1. Owed' = Owed
    BY <1>1 DEF Owed
  <2> QED
    BY <1>1, <2>1 DEF Drain, Batch
<1>8. PICK L : L = lost
  OBVIOUS
<1>9. PICK M : M = lost'
  OBVIOUS
<1>10. OwnerInv(M)'
  BY <1>1, <1>2, <1>8, <1>9, PacketOwned
<1> QED
  BY <1>4, <1>5, <1>6, <1>7, <1>9, <1>10

LEMMA UnwindEndsProc ==
    ASSUME IInv, ProcInv, UnwindEnds
    PROVE  ProcInv'
<1> USE DEF ProcInv
<1>1. /\ UNCHANGED <<vars, pending, outstanding, drained, lost>>
      /\ driver = "unwinding" /\ driver' = "idle" /\ slot > count
      /\ count' = 0 /\ slot' = 1
      /\ down' = IF down = "draining" THEN "closing" ELSE down
      /\ cut' = (cut \/ down = "draining")
  BY DEF UnwindEnds
<1>2. OwnerInv(lost)' /\ Owed' = Owed /\ InHand' = InHand
  BY <1>1, Untouched
<1>3. UNCHANGED <<io, fut, wpc, waddr>>
  BY <1>1 DEF vars, futVars, kernelVars, workerVars
<1>4. Batch'
  BY <1>1, <1>3, ProactorAssumption DEF Batch, Position
<1>5. Submitting'
  BY <1>1, <1>3 DEF Submitting, InSubmit
<1>6. Table'
  BY <1>1, <1>3 DEF Table, Batch
<1>7. Drain'
  BY <1>1, <1>2 DEF Drain, Batch
<1> QED
  BY <1>2, <1>4, <1>5, <1>6, <1>7

\* The shutdown begins with the table, which lists what is owed.
LEMMA BeginProc ==
    ASSUME IInv, ProcInv, ShutdownBegins
    PROVE  ProcInv'
<1> USE DEF ProcInv
<1>1. /\ UNCHANGED <<vars, driver, count, slot, drained, cut, lost>>
      /\ down = "up" /\ down' = "cancelling" /\ driver = "idle"
      /\ \A a \in Ops : ~InSubmit(a)
      /\ pending' = {} /\ outstanding' = Cardinality(pending)
  BY DEF ShutdownBegins, driverVars
<1>2. OwnerInv(lost)' /\ Owed' = Owed /\ InHand' = InHand
  BY <1>1, Untouched
<1>3. UNCHANGED <<io, fut, wpc, waddr>>
  BY <1>1 DEF vars, futVars, kernelVars, workerVars
<1>4. Batch'
  BY <1>1, <1>3 DEF Batch, Position
<1>5. Submitting'
  BY <1>1, <1>3 DEF Submitting, InSubmit
<1>6. Table'
  BY <1>1, <1>3 DEF Table
<1>7. pending = Owed
  BY <1>1 DEF Table, Owed, InSubmit
<1>8. Drain'
  BY <1>1, <1>2, <1>7, Sets DEF Drain
<1> QED
  BY <1>2, <1>4, <1>5, <1>6, <1>8

LEMMA CancelProc ==
    ASSUME IInv, ProcInv, NEW a \in Ops, ShutdownCancel(a) \/ ShutdownDrops(a)
    PROVE  ProcInv'
<1> USE DEF ProcInv
<1>1. /\ UNCHANGED <<pending, driver, count, slot, down, outstanding, drained, cut, lost, wpc, waddr,
                     io, fut>>
      /\ TableStep(a)
  BY DEF ShutdownCancel, ShutdownDrops, CancelErased, DropErased, TableStep, driverVars, futVars,
     workerVars
<1>2. Batch' /\ Submitting' /\ Table' /\ Drain'
  BY <1>1, AsideProc
<1>3. PICK L : L = lost
  OBVIOUS
<1>4. OwnerInv(L)'
  BY <1>1, <1>3, TableOwned
<1> QED
  BY <1>1, <1>2, <1>3, <1>4

\* It goes on to drain, and to close when all that was owed was delivered or
\* when it is cut short.
LEMMA ShutdownProc ==
    ASSUME IInv, ProcInv, ShutdownCancelled \/ ShutdownDrained \/ PortFails \/ ClosePort
    PROVE  ProcInv'
<1> USE DEF ProcInv
<1>1. /\ UNCHANGED <<vars, pending, driver, count, slot, outstanding, drained, lost>>
      /\ down # "up" /\ down' # "up" /\ driver = "idle"
  BY DEF ShutdownCancelled, ShutdownDrained, PortFails, ClosePort, driverVars, Batch
<1>2. OwnerInv(lost)' /\ Owed' = Owed /\ InHand' = InHand
  BY <1>1, Untouched
<1>3. UNCHANGED <<io, fut, wpc, waddr>>
  BY <1>1 DEF vars, futVars, kernelVars, workerVars
<1>4. Batch'
  BY <1>1, <1>3 DEF Batch, Position
<1>5. Submitting'
  BY <1>1, <1>3 DEF Submitting, InSubmit
<1>6. Table'
  BY <1>1, <1>3 DEF Table
<1>7. InHand = {}
  BY <1>1 DEF Batch, InHand
<1>8. Drain'
  <2>1. CASE ShutdownCancelled
    BY <1>1, <1>2, <1>7, <2>1, Sets DEF ShutdownCancelled, Drain
  <2>2. CASE ShutdownDrained
    BY <1>1, <1>2, <1>7, <2>2, Sets DEF ShutdownDrained, Drain
  <2>3. CASE PortFails \/ ClosePort
    BY <1>1, <1>2, <2>3 DEF PortFails, ClosePort, Drain
  <2> QED
    BY <2>1, <2>2, <2>3
<1> QED
  BY <1>2, <1>4, <1>5, <1>6, <1>8

LEMMA ProcInvInit == ProcInit => ProcInv
<1> SUFFICES ASSUME ProcInit PROVE ProcInv
  OBVIOUS
<1>1. PICK L : L = lost
  OBVIOUS
<1>2. OwnerInv(L)
  BY InitOwned DEF ProcInit
<1>3. Batch
  BY ProactorAssumption DEF ProcInit, Init, Batch, Position
<1>4. Submitting /\ Table /\ Drain
  BY DEF ProcInit, Init, Submitting, InSubmit, Table, Drain
<1> QED
  BY <1>1, <1>2, <1>3, <1>4 DEF ProcInv

LEMMA ProcInvNext == IInv /\ ProcInv /\ [ProcNext]_procVars => ProcInv'
<1> SUFFICES ASSUME IInv, ProcInv, [ProcNext]_procVars PROVE ProcInv'
  OBVIOUS
<1>1. CASE UNCHANGED procVars
  <2>1. UNCHANGED <<vars, lost>>
    BY <1>1 DEF procVars, downVars
  <2>2. OwnerInv(lost)'
    BY <2>1, Untouched
  <2>3. Batch' /\ Submitting' /\ Table' /\ Drain'
    <3>1. /\ UNCHANGED <<pending, driver, count, slot, down, outstanding, drained, cut>>
          /\ UNCHANGED <<wpc, waddr, io, fut>>
      BY <1>1 DEF procVars, driverVars, downVars, vars, futVars, kernelVars, workerVars
    <3> QED
      BY <3>1, AsideProc
  <2> QED
    BY <2>2, <2>3 DEF ProcInv
<1>2. CASE ProcNext
  BY <1>2, SubmitProc, FutureProc, KernelProc, PollProc, CollectProc, RemoveProc, DispatchProc,
     PanicProc, UnwindProc, UnwindEndsProc, BeginProc, CancelProc, ShutdownProc
     DEF ProcNext, DriverStep, ShutdownStep
<1> QED
  BY <1>1, <1>2

\* IInv holds of the proactor, as it implements RawOp.
LEMMA ProcInvariant == ProcSpec => [](IInv /\ ProcInv)
<1>1. ProcSpec => []IInv
  BY Invariant, ProcImplements, PTL DEF ImplementsRawOp
<1> QED
  BY <1>1, ProcInvInit, ProcInvNext, PTL DEF ProcSpec

\* Between two polls the table lists exactly what Windows owes, and the
\* shutdown waits for exactly what has not been delivered: the removal from
\* the table in poll, submits from inside a waker, and foreign packets in the
\* same batch leave both right.
THEOREM ProcOwed == ProcSpec => []OwedExact
<1>1. IInv /\ ProcInv => OwedExact
  <2> SUFFICES ASSUME IInv, ProcInv PROVE OwedExact
    OBVIOUS
  <2>1. PendingExact
    BY DEF PendingExact, ProcInv, Table, InSubmit
  <2>2. DrainExact
    <3> SUFFICES ASSUME down = "draining", driver = "idle"
                 PROVE  outstanding - drained = Cardinality(Owed)
      BY DEF DrainExact, Owed
    <3>1. InHand = {}
      BY DEF ProcInv, Batch, InHand
    <3> QED
      BY <3>1, Sets DEF ProcInv, Drain
  <2> QED
    BY <2>1, <2>2 DEF OwedExact
<1> QED
  BY <1>1, ProcInvariant, PTL

\* When the port is closed after a shutdown that was not cut short, Windows
\* has no pointer of ours, what was leaked has been reclaimed, and futures
\* that outlive the proactor have their results, except for operations whose
\* hook panicked or whose packet that panic dropped.
THEOREM ProcDrained == ProcSpec => []ClosedDrained
<1>1. IInv /\ ProcInv => ClosedDrained
  <2> SUFFICES ASSUME IInv, ProcInv, down = "closed", ~cut, NEW a \in Ops
               PROVE  /\ io[a] = "none"
                      /\ a \in live => a \in lost \/ oplock[a] = "poisoned"
                      /\ fut[a] \in {"pending", "checking"} =>
                            state[a] = "Completed" \/ a \in lost \/ oplock[a] = "poisoned"
    BY DEF ClosedDrained
  <2>1. io[a] = "none"
    BY DEF ProcInv, Drain, Owed
  <2>2. \A w \in Workers : wpc[w] = "idle"
    BY DEF ProcInv, Batch
  <2>3. ~OnItsWay(a) /\ \A w \in Workers : ~Completing(w, a)
    BY <2>1, <2>2 DEF OnItsWay, Dequeued, Completing
  <2>4. ~InSubmit(a)
    BY DEF ProcInv, Submitting
  <2> QED
    BY <2>1, <2>3, <2>4 DEF ProcInv, OwnerInv, Reclaimed, Finishes, InSubmit
<1> QED
  BY <1>1, ProcInvariant, PTL
=============================================================================
