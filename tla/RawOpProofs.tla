---------------------------- MODULE RawOpProofs ----------------------------
(***************************************************************************)
(* Proofs about RawOp, for any number of addresses, dispatching threads    *)
(* and tasks.                                                              *)
(*                                                                         *)
(* None of the safety properties of RawOp is inductive by itself: that the *)
(* reference count stays exact rests on who may own the kernel's           *)
(* reference, and that rests on where the future and the packet of an      *)
(* address are.  IInv adds those facts.                                    *)
(***************************************************************************)
EXTENDS RawOp, FiniteSetTheorems, TLAPS

----------------------------------------------------------------------------
(* The inductive invariant.                                                *)

\* The points of complete_erased at which the thread owns the kernel's
\* reference.
HoldPC == {"claimed", "hooked", "written", "won", "taken", "lost", "discarded"}

Held(a) == \E w \in Workers : Holds(w, a)

\* w has the packet of a and has not yet asked live::claim.
Dequeued(w, a) == wpc[w] = "dequeued" /\ waddr[w] = a

SubmitPC == {"new", "leaked", "opPending", "opOk", "opErr", "started",
             "hooking", "unleaking"}

\* A thread that dereferences an address got it from the live set, which
\* holds only addresses of this library.
Addresses ==
    \A w \in Workers : /\ wpc[w] \in HoldPC => waddr[w] \in Ops
                       /\ wpc[w] = "dequeued" => waddr[w] \in Ops \cup Foreign

\* There is one packet per call.
PacketOnce ==
    \A a \in Ops, v \in Workers :
        Dequeued(v, a) => /\ io[a] = "none"
                          /\ \A w \in Workers : Dequeued(w, a) => v = w

\* An address in the live set has not completed: its operation is in place,
\* and nobody dispatches it.
LiveOwned ==
    \A a \in live : /\ state[a] \in {"Submitted", "Abandoned"}
                    /\ op[a] = "some"
                    /\ ~Held(a)

\* What the owner of the future may assume at each point.
Phase ==
    \A a \in Ops :
        /\ fut[a] = "new" => a \notin live /\ ~Held(a) /\ state[a] = "Submitted"
        /\ fut[a] \in {"leaked", "opOk", "opErr", "hooking", "unleaking"} =>
                /\ a \in live
                /\ io[a] = "none"
                /\ \A w \in Workers : ~Dequeued(w, a)
        /\ fut[a] \in SubmitPC => a \notin tracked
        /\ fut[a] \in {"ready", "taking"} => a \notin live
        /\ fut[a] # "none" => op[a] = "some"
        /\ fut[a] = "taking" => state[a] = "Terminal"

\* What a dispatching thread may assume at each point.
Dispatching ==
    \A w \in Workers :
        /\ wpc[w] \in {"claimed", "hooked", "written"} =>
                state[waddr[w]] \in {"Submitted", "Abandoned"}
        /\ wpc[w] = "lost" => state[waddr[w]] = "Abandoned"
        /\ wpc[w] \in {"won", "taken"} => state[waddr[w]] \in {"Completed", "Terminal"}
        /\ wpc[w] = "discarded" => state[waddr[w]] = "Terminal"
        /\ wpc[w] \in {"written", "lost"} => result[waddr[w]] = "init"

\* A result that is in its slot has somebody who will read or drop it.
ResultOwned ==
    \A a \in Ops : result[a] = "init" =>
        /\ strong[a] > 0
        /\ \/ state[a] = "Completed"
           \/ fut[a] = "taking"
           \/ \E w \in Workers : waddr[w] = a /\ wpc[w] \in {"written", "lost"}

IInv ==
    /\ TypeOK
    /\ RefCount
    /\ KernelPins
    /\ Addresses
    /\ PacketOnce
    /\ LiveOwned
    /\ Phase
    /\ Dispatching
    /\ ResultSlot
    /\ ResultOwned

----------------------------------------------------------------------------
(* What the exact count says about ownership.                              *)

\* A count of 0 or 1 leaves no room for other owners.
LEMMA Owners ==
    ASSUME IInv, NEW a \in Ops
    PROVE  /\ strong[a] = 0 => fut[a] = "none" /\ a \notin live /\ a \notin tracked /\ ~Held(a)
           /\ strong[a] = 1 => /\ fut[a] # "none" => a \notin live /\ a \notin tracked /\ ~Held(a)
                               /\ a \in tracked => fut[a] = "none" /\ a \notin live /\ ~Held(a)
                               /\ Held(a) => fut[a] = "none" /\ a \notin live /\ a \notin tracked
           /\ fut[a] # "none" \/ a \in live \/ a \in tracked \/ Held(a) => strong[a] > 0
  BY DEF IInv, TypeOK, RefCount, Held, One

\* A thread inside complete_erased is the only one there for its address,
\* whose memory is allocated and not in the live set.
LEMMA Holder ==
    ASSUME IInv, NEW w \in Workers, wpc[w] \in HoldPC
    PROVE  /\ waddr[w] \in Ops
           /\ Held(waddr[w])
           /\ strong[waddr[w]] > 0
           /\ waddr[w] \notin live
           /\ \A v \in Workers : wpc[v] \in HoldPC /\ waddr[v] = waddr[w] => v = w
<1>1. waddr[w] \in Ops
  BY DEF IInv, Addresses
<1>2. Holds(w, waddr[w])
  BY DEF Holds, HoldPC
<1>3. Held(waddr[w])
  BY <1>2 DEF Held
<1>4. \A v \in Workers : wpc[v] \in HoldPC /\ waddr[v] = waddr[w] => v = w
  BY <1>1, <1>2 DEF IInv, RefCount, Holds, HoldPC
<1> QED BY <1>1, <1>3, <1>4, Owners DEF IInv, LiveOwned

----------------------------------------------------------------------------
(* Every action preserves IInv.                                            *)

USE ConstantsAssumption
USE DEF Held, Holds, HoldPC, Dequeued, SubmitPC, One, opVars, kernelVars, futVars, workerVars

\* New allocates where nobody holds a reference.
LEMMA NewPreserves ==
    ASSUME IInv, NEW a \in Ops, New(a)
    PROVE  IInv'
<1> USE DEF IInv, New
<1>1. TypeOK'
  BY DEF TypeOK, OpState, FutPC
<1>2. RefCount'
  BY DEF TypeOK, RefCount
<1>3. LiveOwned'
  BY DEF LiveOwned
<1>4. Phase'
  BY Owners DEF TypeOK, Phase
<1>5. Dispatching'
  BY DEF Dispatching, RefCount, LiveOwned
<1>6. ResultSlot'
  BY DEF TypeOK, ResultSlot
<1>7. ResultOwned'
  BY DEF ResultOwned
<1>8. KernelPins' /\ Addresses' /\ PacketOnce'
  BY DEF KernelPins, Addresses, PacketOnce
<1> QED BY <1>1, <1>2, <1>3, <1>4, <1>5, <1>6, <1>7, <1>8

\* leak adds the kernel's reference and nothing is in flight yet.
LEMMA LeakPreserves ==
    ASSUME IInv, NEW a \in Ops, Leak(a)
    PROVE  IInv'
<1> USE DEF IInv, Leak
<1>1. TypeOK'
  BY DEF TypeOK, FutPC
<1>2. RefCount'
  BY DEF TypeOK, RefCount, Phase
<1>3. KernelPins'
  BY DEF KernelPins
<1>4. LiveOwned'
  BY DEF LiveOwned, Phase
<1>5. Phase'
  BY DEF TypeOK, Phase, KernelPins
<1>6. ResultSlot'
  BY DEF ResultSlot, RefCount
<1>7. ResultOwned'
  BY DEF TypeOK, ResultOwned
<1>8. Addresses' /\ PacketOnce' /\ Dispatching'
  BY DEF Addresses, PacketOnce, Dispatching
<1> QED BY <1>1, <1>2, <1>3, <1>4, <1>5, <1>6, <1>7, <1>8

\* operate starts the call of an address that is in the live set.
LEMMA OperatePreserves ==
    ASSUME IInv, NEW a \in Ops, Operate(a)
    PROVE  IInv'
<1> USE DEF IInv, Operate
<1>1. TypeOK'
  BY DEF TypeOK, FutPC
<1>2. RefCount'
  BY DEF TypeOK, RefCount
<1>3. KernelPins'
  BY DEF TypeOK, KernelPins, Phase
<1>4. PacketOnce'
  BY DEF TypeOK, PacketOnce, Phase
<1>5. Phase'
  BY DEF TypeOK, Phase
<1>6. ResultSlot'
  BY DEF TypeOK, ResultSlot
<1>7. ResultOwned'
  BY DEF TypeOK, ResultOwned
<1>8. Addresses' /\ LiveOwned' /\ Dispatching'
  BY DEF Addresses, LiveOwned, Dispatching
<1> QED BY <1>1, <1>2, <1>3, <1>4, <1>5, <1>6, <1>7, <1>8

\* When operate unwinds the leaked reference stays in the live set.
LEMMA OperatePanicsPreserves ==
    ASSUME IInv, NEW a \in Ops, OperatePanics(a)
    PROVE  IInv'
<1> USE DEF IInv, OperatePanics, DropRef, DropArc, DropResult
<1>1. TypeOK'
  BY Owners DEF TypeOK, FutPC
<1>2. RefCount'
  BY DEF TypeOK, RefCount
<1>3. LiveOwned'
  BY DEF LiveOwned, RefCount
<1>4. Phase'
  BY DEF TypeOK, Phase
<1>5. Dispatching'
  BY DEF Dispatching
<1>6. ResultSlot'
  BY DEF ResultSlot, RefCount, Phase
<1>7. ResultOwned'
  BY DEF ResultOwned, RefCount, Phase
<1>8. KernelPins' /\ Addresses' /\ PacketOnce'
  BY DEF KernelPins, Addresses, PacketOnce
<1> QED BY <1>1, <1>2, <1>3, <1>4, <1>5, <1>6, <1>7, <1>8

\* operate returns: no reference moves.
LEMMA OperateReturnsPreserves ==
    ASSUME IInv, NEW a \in Ops, OperateReturns(a)
    PROVE  IInv'
<1> USE DEF IInv, OperateReturns
<1>1. TypeOK'
  BY DEF TypeOK, FutPC
<1>2. RefCount'
  BY DEF RefCount
<1>3. Phase'
  BY DEF Phase
<1>4. ResultSlot'
  BY DEF ResultSlot
<1>5. ResultOwned'
  BY DEF ResultOwned
<1>6. KernelPins' /\ Addresses' /\ PacketOnce' /\ LiveOwned' /\ Dispatching'
  BY DEF KernelPins, Addresses, PacketOnce, LiveOwned, Dispatching
<1> QED BY <1>1, <1>2, <1>3, <1>4, <1>5, <1>6

\* The table gets a reference of its own.
LEMMA TrackPreserves ==
    ASSUME IInv, NEW a \in Ops, Track(a)
    PROVE  IInv'
<1> USE DEF IInv, Track
<1>1. TypeOK'
  BY DEF TypeOK, FutPC
<1>2. RefCount'
  BY DEF TypeOK, RefCount, Phase
<1>3. Phase'
  BY DEF TypeOK, Phase
<1>4. ResultSlot'
  BY DEF ResultSlot, RefCount
<1>5. ResultOwned'
  BY DEF TypeOK, ResultOwned
<1>6. KernelPins' /\ Addresses' /\ PacketOnce' /\ LiveOwned' /\ Dispatching'
  BY DEF KernelPins, Addresses, PacketOnce, LiveOwned, Dispatching
<1> QED BY <1>1, <1>2, <1>3, <1>4, <1>5, <1>6

\* submit hands out a pending future.
LEMMA PendPreserves ==
    ASSUME IInv, NEW a \in Ops, Pend(a)
    PROVE  IInv'
<1> USE DEF IInv, Pend
<1>1. TypeOK'
  BY DEF TypeOK, FutPC
<1>2. RefCount'
  BY DEF RefCount
<1>3. Phase'
  BY DEF Phase
<1>4. ResultSlot'
  BY DEF ResultSlot
<1>5. ResultOwned'
  BY DEF ResultOwned
<1>6. KernelPins' /\ Addresses' /\ PacketOnce' /\ LiveOwned' /\ Dispatching'
  BY DEF KernelPins, Addresses, PacketOnce, LiveOwned, Dispatching
<1> QED BY <1>1, <1>2, <1>3, <1>4, <1>5, <1>6

\* The inline hook leaves the operation where it is.
LEMMA HookInlinePreserves ==
    ASSUME IInv, NEW a \in Ops, HookInline(a)
    PROVE  IInv'
<1> USE DEF IInv, HookInline
<1>1. TypeOK'
  BY DEF TypeOK, FutPC
<1>2. RefCount'
  BY DEF RefCount
<1>3. Phase'
  BY DEF Phase
<1>4. ResultSlot'
  BY DEF ResultSlot
<1>5. ResultOwned'
  BY DEF ResultOwned
<1>6. KernelPins' /\ Addresses' /\ PacketOnce' /\ LiveOwned' /\ Dispatching'
  BY DEF KernelPins, Addresses, PacketOnce, LiveOwned, Dispatching
<1> QED BY <1>1, <1>2, <1>3, <1>4, <1>5, <1>6

\* When the inline hook unwinds the leaked reference stays in the live set.
LEMMA HookInlinePanicsPreserves ==
    ASSUME IInv, NEW a \in Ops, HookInlinePanics(a)
    PROVE  IInv'
<1> USE DEF IInv, HookInlinePanics, DropRef, DropArc, DropResult
<1>1. TypeOK'
  BY Owners DEF TypeOK, FutPC
<1>2. RefCount'
  BY DEF TypeOK, RefCount
<1>3. LiveOwned'
  BY DEF LiveOwned, RefCount
<1>4. Phase'
  BY DEF TypeOK, Phase
<1>5. Dispatching'
  BY DEF Dispatching
<1>6. ResultSlot'
  BY DEF ResultSlot, RefCount, Phase
<1>7. ResultOwned'
  BY DEF ResultOwned, RefCount, Phase
<1>8. KernelPins' /\ Addresses' /\ PacketOnce'
  BY DEF KernelPins, Addresses, PacketOnce
<1> QED BY <1>1, <1>2, <1>3, <1>4, <1>5, <1>6, <1>7, <1>8

\* unleak takes the kernel's reference back: there is no packet of it.
LEMMA UnleakPreserves ==
    ASSUME IInv, NEW a \in Ops, Unleak(a)
    PROVE  IInv'
<1> USE DEF IInv, Unleak, DropRef, DropArc, DropResult
<1>1. TypeOK'
  BY Owners DEF TypeOK, FutPC
<1>2. RefCount'
  BY DEF TypeOK, RefCount
<1>3. KernelPins'
  BY DEF KernelPins, Phase
<1>4. LiveOwned'
  BY DEF TypeOK, LiveOwned
<1>5. Phase'
  BY Owners DEF TypeOK, Phase
<1>6. Dispatching'
  BY DEF TypeOK, Dispatching, LiveOwned
<1>7. ResultSlot'
  BY DEF TypeOK, ResultSlot, ResultOwned, RefCount
<1>8. ResultOwned'
  BY DEF TypeOK, ResultOwned, RefCount, Dispatching
<1>9. Addresses' /\ PacketOnce'
  BY DEF Addresses, PacketOnce
<1> QED BY <1>1, <1>2, <1>3, <1>4, <1>5, <1>6, <1>7, <1>8, <1>9

\* An inline result is moved out when nothing is in flight.
LEMMA PollReadyPreserves ==
    ASSUME IInv, NEW a \in Ops, PollReady(a)
    PROVE  IInv'
<1> USE DEF IInv, PollReady, DropRef, DropArc, DropResult
<1>1. TypeOK'
  BY Owners DEF TypeOK, FutPC
<1>2. RefCount'
  BY DEF TypeOK, RefCount
<1>3. LiveOwned'
  BY DEF LiveOwned, Phase
<1>4. Phase'
  BY DEF TypeOK, Phase
<1>5. Dispatching'
  BY DEF Dispatching
<1>6. ResultSlot'
  BY DEF TypeOK, ResultSlot, ResultOwned, RefCount, Dispatching
<1>7. ResultOwned'
  BY DEF TypeOK, ResultOwned, RefCount, Phase
<1>8. KernelPins' /\ Addresses' /\ PacketOnce'
  BY DEF KernelPins, Addresses, PacketOnce
<1> QED BY <1>1, <1>2, <1>3, <1>4, <1>5, <1>6, <1>7, <1>8

\* A poll begins: no reference moves.
LEMMA SetWakerPreserves ==
    ASSUME IInv, NEW a \in Ops, NEW t \in Tasks, SetWaker(a, t)
    PROVE  IInv'
<1> USE DEF IInv, SetWaker
<1>1. TypeOK'
  BY DEF TypeOK, FutPC
<1>2. RefCount'
  BY DEF RefCount
<1>3. Phase'
  BY DEF Phase
<1>4. ResultSlot'
  BY DEF ResultSlot
<1>5. ResultOwned'
  BY DEF ResultOwned
<1>6. KernelPins' /\ Addresses' /\ PacketOnce' /\ LiveOwned' /\ Dispatching'
  BY DEF KernelPins, Addresses, PacketOnce, LiveOwned, Dispatching
<1> QED BY <1>1, <1>2, <1>3, <1>4, <1>5, <1>6

\* The exchange of take_completion makes the future the owner of the result.
LEMMA TakeCompletionPreserves ==
    ASSUME IInv, NEW a \in Ops, TakeCompletion(a)
    PROVE  IInv'
<1> USE DEF IInv, TakeCompletion
<1>1. TypeOK'
  BY DEF TypeOK, OpState, FutPC
<1>2. RefCount'
  BY DEF TypeOK, RefCount
<1>3. LiveOwned'
  BY DEF TypeOK, LiveOwned
<1>4. Phase'
  BY DEF TypeOK, Phase, LiveOwned
<1>5. Dispatching'
  BY DEF TypeOK, Dispatching, Addresses
<1>6. ResultSlot'
  BY DEF TypeOK, ResultSlot, RefCount
<1>7. ResultOwned'
  BY DEF TypeOK, ResultOwned
<1>8. KernelPins' /\ Addresses' /\ PacketOnce'
  BY DEF KernelPins, Addresses, PacketOnce
<1> QED BY <1>1, <1>2, <1>3, <1>4, <1>5, <1>6, <1>7, <1>8

\* The future reads the result it owns and drops its reference.
LEMMA ResolvePreserves ==
    ASSUME IInv, NEW a \in Ops, Resolve(a)
    PROVE  IInv'
<1> USE DEF IInv, Resolve, DropRef, DropArc, DropResult
<1>1. TypeOK'
  BY Owners DEF TypeOK, FutPC
<1>2. RefCount'
  BY DEF TypeOK, RefCount
<1>3. LiveOwned'
  BY DEF LiveOwned, Phase
<1>4. Phase'
  BY DEF TypeOK, Phase
<1>5. Dispatching'
  BY DEF Dispatching, Phase
<1>6. ResultSlot'
  BY DEF TypeOK, ResultSlot, Dispatching, Phase
<1>7. ResultOwned'
  BY DEF TypeOK, ResultOwned
<1>8. KernelPins' /\ Addresses' /\ PacketOnce'
  BY DEF KernelPins, Addresses, PacketOnce
<1> QED BY <1>1, <1>2, <1>3, <1>4, <1>5, <1>6, <1>7, <1>8

\* abandon only wins against a completion that has not been published.
LEMMA AbandonPreserves ==
    ASSUME IInv, NEW a \in Ops, Abandon(a)
    PROVE  IInv'
<1> USE DEF IInv, Abandon
<1>1. TypeOK'
  BY DEF TypeOK, OpState, FutPC
<1>2. RefCount'
  BY DEF TypeOK, RefCount
<1>3. LiveOwned'
  BY DEF TypeOK, LiveOwned
<1>4. Phase'
  BY DEF TypeOK, Phase
<1>5. Dispatching'
  BY DEF TypeOK, Dispatching, Addresses
<1>6. ResultSlot'
  BY DEF TypeOK, ResultSlot
<1>7. ResultOwned'
  BY DEF TypeOK, ResultOwned
<1>8. KernelPins' /\ Addresses' /\ PacketOnce'
  BY DEF KernelPins, Addresses, PacketOnce
<1> QED BY <1>1, <1>2, <1>3, <1>4, <1>5, <1>6, <1>7, <1>8

\* A cancellation moves no reference.
LEMMA CancelPreserves ==
    ASSUME IInv, NEW a \in Ops, Cancel(a)
    PROVE  IInv'
<1> USE DEF IInv, Cancel, RequestCancel
<1>1. TypeOK'
  BY DEF TypeOK, FutPC
<1>2. RefCount'
  BY DEF RefCount
<1>3. Phase'
  BY DEF Phase
<1>4. ResultSlot'
  BY DEF ResultSlot
<1>5. ResultOwned'
  BY DEF ResultOwned
<1>6. KernelPins' /\ Addresses' /\ PacketOnce' /\ LiveOwned' /\ Dispatching'
  BY DEF KernelPins, Addresses, PacketOnce, LiveOwned, Dispatching
<1> QED BY <1>1, <1>2, <1>3, <1>4, <1>5, <1>6

\* The end of drop gives the future's reference up, with a result nobody took.
LEMMA ReleasePreserves ==
    ASSUME IInv, NEW a \in Ops, Release(a)
    PROVE  IInv'
<1> USE DEF IInv, Release, DropRef, DropArc, DropResult
<1>1. TypeOK'
  BY Owners DEF TypeOK, FutPC
<1>2. RefCount'
  BY DEF TypeOK, RefCount
<1>3. LiveOwned'
  BY DEF LiveOwned, RefCount
<1>4. Phase'
  BY DEF TypeOK, Phase
<1>5. Dispatching'
  BY DEF Dispatching
<1>6. ResultSlot'
  BY DEF TypeOK, ResultSlot, ResultOwned, RefCount
<1>7. ResultOwned'
  BY Owners DEF TypeOK, ResultOwned, RefCount
<1>8. KernelPins' /\ Addresses' /\ PacketOnce'
  BY DEF KernelPins, Addresses, PacketOnce
<1> QED BY <1>1, <1>2, <1>3, <1>4, <1>5, <1>6, <1>7, <1>8

\* The table's cancel borrows its reference.
LEMMA CancelErasedPreserves ==
    ASSUME IInv, NEW a \in Ops, CancelErased(a)
    PROVE  IInv'
<1> USE DEF IInv, CancelErased, RequestCancel
<1>1. TypeOK'
  BY DEF TypeOK
<1>2. RefCount' /\ KernelPins' /\ Addresses' /\ PacketOnce' /\ LiveOwned' /\ Phase'
      /\ Dispatching' /\ ResultSlot' /\ ResultOwned'
  BY DEF RefCount, KernelPins, Addresses, PacketOnce, LiveOwned, Phase, Dispatching,
         ResultSlot, ResultOwned
<1> QED BY <1>1, <1>2

\* The table gives its reference up.
LEMMA DropErasedPreserves ==
    ASSUME IInv, NEW a \in Ops, DropErased(a)
    PROVE  IInv'
<1> USE DEF IInv, DropErased, DropRef, DropArc, DropResult
<1>1. TypeOK'
  BY Owners DEF TypeOK
<1>2. RefCount'
  BY DEF TypeOK, RefCount
<1>3. LiveOwned'
  BY DEF LiveOwned, RefCount
<1>4. Phase'
  BY Owners DEF Phase
<1>5. Dispatching'
  BY DEF Dispatching
<1>6. ResultSlot'
  BY DEF TypeOK, ResultSlot, ResultOwned, RefCount
<1>7. ResultOwned'
  <2> SUFFICES ASSUME NEW b \in Ops, result'[b] = "init"
               PROVE  /\ strong'[b] > 0
                      /\ \/ state'[b] = "Completed"
                         \/ fut'[b] = "taking"
                         \/ \E v \in Workers : waddr'[v] = b /\ wpc'[v] \in {"written", "lost"}
    BY DEF ResultOwned
  <2>1. CASE b = a
    BY <2>1, Owners DEF TypeOK, ResultOwned, RefCount, Dispatching, Addresses, Phase
  <2>2. CASE b # a
    <3>1. result[b] = "init" /\ strong'[b] = strong[b] /\ state'[b] = state[b]
      BY <2>2 DEF TypeOK, Addresses
    <3> QED BY <2>2, <3>1 DEF TypeOK, ResultOwned, Addresses
  <2> QED BY <2>1, <2>2
<1>8. KernelPins' /\ Addresses' /\ PacketOnce'
  BY DEF KernelPins, Addresses, PacketOnce
<1> QED BY <1>1, <1>2, <1>3, <1>4, <1>5, <1>6, <1>7, <1>8

\* A call that finishes becomes one packet.
LEMMA IoCompletesPreserves ==
    ASSUME IInv, NEW a \in Ops \cup Foreign, IoCompletes(a)
    PROVE  IInv'
<1> USE DEF IInv, IoCompletes
<1>1. TypeOK'
  BY DEF TypeOK
<1>2. KernelPins'
  BY DEF KernelPins
<1>3. PacketOnce'
  BY DEF PacketOnce
<1>4. Phase'
  BY DEF Phase
<1>5. RefCount' /\ Addresses' /\ LiveOwned' /\ Dispatching' /\ ResultSlot' /\
      ResultOwned'
  BY DEF RefCount, Addresses, LiveOwned, Dispatching, ResultSlot, ResultOwned
<1> QED BY <1>1, <1>2, <1>3, <1>4, <1>5

\* CancelIoEx of a handle moves no reference.
LEMMA CancelHandlePreserves ==
    ASSUME IInv, CancelHandle
    PROVE  IInv'
<1> USE DEF IInv, CancelHandle
<1>1. TypeOK'
  BY DEF TypeOK
<1>2. RefCount' /\ KernelPins' /\ Addresses' /\ PacketOnce' /\ LiveOwned' /\ Phase'
      /\ Dispatching' /\ ResultSlot' /\ ResultOwned'
  BY DEF RefCount, KernelPins, Addresses, PacketOnce, LiveOwned, Phase, Dispatching,
         ResultSlot, ResultOwned
<1> QED BY <1>1, <1>2

\* Calls of others do not touch our addresses.
LEMMA ForeignCallPreserves ==
    ASSUME IInv, NEW f \in Foreign, ForeignCall(f)
    PROVE  IInv'
<1> USE DEF IInv, ForeignCall
<1>1. TypeOK'
  BY DEF TypeOK
<1>2. KernelPins'
  BY DEF KernelPins
<1>3. PacketOnce'
  BY DEF PacketOnce
<1>4. Phase'
  BY DEF Phase
<1>5. RefCount' /\ Addresses' /\ LiveOwned' /\ Dispatching' /\ ResultSlot' /\
      ResultOwned'
  BY DEF RefCount, Addresses, LiveOwned, Dispatching, ResultSlot, ResultOwned
<1> QED BY <1>1, <1>2, <1>3, <1>4, <1>5

\* The packet moves to one thread.
LEMMA DequeuePreserves ==
    ASSUME IInv, NEW w \in Workers, NEW a \in Ops \cup Foreign, Dequeue(w, a)
    PROVE  IInv'
<1> USE DEF IInv, Dequeue
<1>1. TypeOK'
  BY DEF TypeOK, WorkerPC
<1>2. RefCount'
  <2>1. \A v \in Workers, b \in Ops : Holds(v, b)' <=> Holds(v, b)
    BY DEF TypeOK
  <2> QED BY <2>1 DEF TypeOK, RefCount
<1>3. KernelPins'
  BY DEF TypeOK, KernelPins
<1>4. Addresses'
  BY DEF TypeOK, Addresses
<1>5. PacketOnce'
  BY DEF TypeOK, PacketOnce
<1>6. LiveOwned'
  BY DEF LiveOwned
<1>7. Phase'
  BY DEF TypeOK, Phase
<1>8. Dispatching'
  BY DEF Dispatching
<1>9. ResultSlot'
  BY DEF ResultSlot
<1>10. ResultOwned'
  BY DEF ResultOwned
<1> QED BY <1>1, <1>2, <1>3, <1>4, <1>5, <1>6, <1>7, <1>8, <1>9, <1>10

\* claim moves the kernel's reference from the live set to one thread.
LEMMA ClaimPreserves ==
    ASSUME IInv, NEW w \in Workers, Claim(w)
    PROVE  IInv'
<1> USE DEF IInv, Claim
<1>1. TypeOK'
  BY DEF TypeOK, WorkerPC
<1>2. RefCount'
  <2>1. CASE waddr[w] \in live
    <3>1. waddr[w] \in Ops /\ ~Held(waddr[w])
      BY <2>1 DEF TypeOK, LiveOwned
    <3>2. \A v \in Workers, b \in Ops : Holds(v, b)' <=> Holds(v, b) \/ (v = w /\ b = waddr[w])
      BY <2>1 DEF TypeOK
    <3>3. \A b \in Ops : Held(b)' <=> Held(b) \/ b = waddr[w]
      BY <3>2
    <3> QED BY <2>1, <3>1, <3>2, <3>3 DEF TypeOK, RefCount
  <2>2. CASE waddr[w] \notin live
    <3>1. \A v \in Workers, b \in Ops : Holds(v, b)' <=> Holds(v, b)
      BY <2>2 DEF TypeOK
    <3> QED BY <2>2, <3>1 DEF TypeOK, RefCount
  <2> QED BY <2>1, <2>2
<1>3. KernelPins'
  BY DEF TypeOK, KernelPins, PacketOnce
<1>4. Addresses'
  BY DEF TypeOK, Addresses
<1>5. PacketOnce'
  BY DEF TypeOK, PacketOnce
<1>6. LiveOwned'
  BY DEF TypeOK, LiveOwned
<1>7. Phase'
  BY DEF TypeOK, Phase
<1>8. Dispatching'
  BY DEF TypeOK, Dispatching, LiveOwned
<1>9. ResultSlot'
  BY DEF TypeOK, ResultSlot
<1>10. ResultOwned'
  BY DEF TypeOK, ResultOwned
<1> QED BY <1>1, <1>2, <1>3, <1>4, <1>5, <1>6, <1>7, <1>8, <1>9, <1>10

\* A packet lost by unwinding leaves its reference in the live set.
LEMMA DropPacketPreserves ==
    ASSUME IInv, NEW w \in Workers, DropPacket(w)
    PROVE  IInv'
<1> USE DEF IInv, DropPacket
<1>1. TypeOK'
  BY DEF TypeOK, WorkerPC
<1>2. RefCount'
  BY DEF RefCount, KernelPins, LiveOwned
<1>3. KernelPins'
  BY DEF KernelPins
<1>4. Addresses'
  BY DEF TypeOK, Addresses
<1>5. PacketOnce'
  BY DEF PacketOnce
<1>6. LiveOwned'
  BY DEF LiveOwned
<1>7. Phase'
  BY DEF Phase
<1>8. Dispatching'
  BY DEF Dispatching
<1>9. ResultSlot'
  BY DEF ResultSlot
<1>10. ResultOwned'
  BY DEF ResultOwned
<1> QED BY <1>1, <1>2, <1>3, <1>4, <1>5, <1>6, <1>7, <1>8, <1>9, <1>10

\* The hook runs in the thread that owns the reference.
LEMMA HookPreserves ==
    ASSUME IInv, NEW w \in Workers, Hook(w)
    PROVE  IInv'
<1> USE DEF IInv, Hook
<1>1. TypeOK'
  BY DEF TypeOK, WorkerPC
<1>2. RefCount'
  BY DEF RefCount
<1>3. KernelPins'
  BY DEF KernelPins
<1>4. Addresses'
  BY DEF Addresses
<1>5. PacketOnce'
  BY DEF PacketOnce
<1>6. LiveOwned'
  BY DEF LiveOwned
<1>7. Phase'
  BY DEF Phase
<1>8. Dispatching'
  BY DEF Dispatching
<1>9. ResultSlot'
  BY DEF ResultSlot
<1>10. ResultOwned'
  BY DEF ResultOwned
<1> QED BY <1>1, <1>2, <1>3, <1>4, <1>5, <1>6, <1>7, <1>8, <1>9, <1>10

\* When the hook unwinds its thread drops the reference it owns.
LEMMA HookPanicsPreserves ==
    ASSUME IInv, NEW w \in Workers, HookPanics(w)
    PROVE  IInv'
<1> USE DEF IInv, HookPanics, DropRef, DropArc, DropResult
<1>1. TypeOK'
  BY Owners DEF TypeOK, WorkerPC, Addresses
<1>2. RefCount'
  <2>1. \A v \in Workers, b \in Ops : Holds(v, b)' <=> Holds(v, b) /\ v # w
    BY DEF TypeOK
  <2>2. \A b \in Ops : Held(b)' <=> Held(b) /\ b # waddr[w]
    BY <2>1, Holder
  <2> QED BY <2>1, <2>2, Holder DEF TypeOK, RefCount
<1>3. KernelPins'
  BY DEF KernelPins
<1>4. Addresses'
  BY DEF TypeOK, Addresses
<1>5. PacketOnce'
  BY DEF PacketOnce
<1>6. LiveOwned'
  BY DEF TypeOK, LiveOwned
<1>7. Phase'
  BY Owners DEF Phase
<1>8. Dispatching'
  BY DEF TypeOK, Dispatching
<1>9. ResultSlot'
  <2>1. waddr[w] \in Ops /\ result[waddr[w]] # "init"
    BY Holder DEF ResultOwned, Dispatching, Phase
  <2>2. \A b \in Ops : result'[b] = result[b] /\ state'[b] = state[b]
    BY <2>1 DEF TypeOK, Dispatching
  <2>3. \A b \in Ops : strong'[b] # strong[b] => b = waddr[w]
    BY <2>1 DEF TypeOK
  <2>4. \A v \in Workers : wpc'[v] = "lost" => wpc[v] = "lost" /\ waddr'[v] = waddr[v] /\ waddr[v] \in Ops
    BY DEF TypeOK, Addresses
  <2> QED BY <2>1, <2>2, <2>3, <2>4 DEF ResultSlot, Dispatching
<1>10. ResultOwned'
  <2> SUFFICES ASSUME NEW b \in Ops, result'[b] = "init"
               PROVE  /\ strong'[b] > 0
                      /\ \/ state'[b] = "Completed"
                         \/ fut'[b] = "taking"
                         \/ \E v \in Workers : waddr'[v] = b /\ wpc'[v] \in {"written", "lost"}
    BY DEF ResultOwned
  <2>1. CASE b = waddr[w]
    <3>1. result[b] # "init"
      BY <2>1, Holder DEF ResultOwned, Dispatching, Phase
    <3> QED BY <2>1, <3>1 DEF TypeOK
  <2>2. CASE b # waddr[w]
    <3>1. result[b] = "init" /\ strong'[b] = strong[b] /\ state'[b] = state[b]
      BY <2>2 DEF TypeOK, Addresses
    <3> QED BY <2>2, <3>1 DEF TypeOK, ResultOwned, Addresses
  <2> QED BY <2>1, <2>2
<1> QED BY <1>1, <1>2, <1>3, <1>4, <1>5, <1>6, <1>7, <1>8, <1>9, <1>10

\* The result is written by the one thread that dispatches the address.
LEMMA WriteResultPreserves ==
    ASSUME IInv, NEW w \in Workers, WriteResult(w)
    PROVE  IInv'
<1> USE DEF IInv, WriteResult
<1>1. TypeOK'
  BY DEF TypeOK, WorkerPC
<1>2. RefCount'
  BY DEF RefCount
<1>3. KernelPins'
  BY DEF KernelPins
<1>4. Addresses'
  BY DEF Addresses
<1>5. PacketOnce'
  BY DEF PacketOnce
<1>6. LiveOwned'
  BY DEF LiveOwned
<1>7. Phase'
  BY DEF Phase
<1>8. Dispatching'
  BY DEF TypeOK, Dispatching, Addresses
<1>9. ResultSlot'
  BY Owners DEF ResultSlot
<1>10. ResultOwned'
  <2> SUFFICES ASSUME NEW b \in Ops, result'[b] = "init"
               PROVE  /\ strong'[b] > 0
                      /\ \/ state'[b] = "Completed"
                         \/ fut'[b] = "taking"
                         \/ \E v \in Workers : waddr'[v] = b /\ wpc'[v] \in {"written", "lost"}
    BY DEF ResultOwned
  <2>1. CASE b = waddr[w]
    <3>1. strong[b] > 0
      BY <2>1, Holder
    <3> QED BY <2>1, <3>1 DEF TypeOK
  <2>2. CASE b # waddr[w]
    <3>1. result[b] = "init" /\ strong'[b] = strong[b] /\ state'[b] = state[b]
      BY <2>2 DEF TypeOK, Addresses
    <3> QED BY <2>2, <3>1 DEF TypeOK, ResultOwned, Addresses
  <2> QED BY <2>1, <2>2
<1> QED BY <1>1, <1>2, <1>3, <1>4, <1>5, <1>6, <1>7, <1>8, <1>9, <1>10

\* Publishing finds Submitted, or Abandoned.
LEMMA PublishPreserves ==
    ASSUME IInv, NEW w \in Workers, Publish(w)
    PROVE  IInv'
<1> USE DEF IInv, Publish
<1>1. TypeOK'
  BY DEF TypeOK, OpState, WorkerPC
<1>2. RefCount'
  <2>1. \A v \in Workers, b \in Ops : Holds(v, b)' <=> Holds(v, b)
    BY DEF TypeOK
  <2> QED BY <2>1 DEF TypeOK, RefCount
<1>3. KernelPins'
  BY DEF TypeOK, KernelPins
<1>4. Addresses'
  BY DEF TypeOK, Addresses
<1>5. PacketOnce'
  BY DEF TypeOK, PacketOnce
<1>6. LiveOwned'
  BY DEF TypeOK, LiveOwned
<1>7. Phase'
  BY DEF TypeOK, Phase
<1>8. Dispatching'
  BY DEF TypeOK, Dispatching, RefCount, Addresses
<1>9. ResultSlot'
  BY DEF TypeOK, ResultSlot, Dispatching
<1>10. ResultOwned'
  BY DEF TypeOK, ResultOwned
<1> QED BY <1>1, <1>2, <1>3, <1>4, <1>5, <1>6, <1>7, <1>8, <1>9, <1>10

\* Taking the waker moves no reference.
LEMMA TakeWakerPreserves ==
    ASSUME IInv, NEW w \in Workers, TakeWaker(w)
    PROVE  IInv'
<1> USE DEF IInv, TakeWaker
<1>1. TypeOK'
  BY DEF TypeOK, WorkerPC, Addresses
<1>2. RefCount'
  BY DEF RefCount, Phase
<1>3. KernelPins'
  BY DEF KernelPins
<1>4. Addresses'
  BY DEF Addresses
<1>5. PacketOnce'
  BY DEF PacketOnce
<1>6. LiveOwned'
  BY DEF LiveOwned
<1>7. Phase'
  BY DEF Phase
<1>8. Dispatching'
  BY DEF Dispatching
<1>9. ResultSlot'
  BY DEF ResultSlot
<1>10. ResultOwned'
  BY DEF ResultOwned
<1> QED BY <1>1, <1>2, <1>3, <1>4, <1>5, <1>6, <1>7, <1>8, <1>9, <1>10

\* The dispatcher drops the result of an abandoned operation.
LEMMA DiscardPreserves ==
    ASSUME IInv, NEW w \in Workers, Discard(w)
    PROVE  IInv'
<1> USE DEF IInv, Discard
<1>1. TypeOK'
  BY DEF TypeOK, OpState, WorkerPC
<1>2. RefCount'
  BY DEF RefCount
<1>3. KernelPins'
  BY DEF KernelPins
<1>4. Addresses'
  BY DEF Addresses
<1>5. PacketOnce'
  BY DEF PacketOnce
<1>6. LiveOwned'
  BY DEF LiveOwned
<1>7. Phase'
  BY DEF Phase
<1>8. Dispatching'
  BY DEF TypeOK, Dispatching, RefCount, Addresses
<1>9. ResultSlot'
  BY DEF TypeOK, ResultSlot, RefCount, Dispatching, Phase
<1>10. ResultOwned'
  BY DEF TypeOK, ResultOwned
<1> QED BY <1>1, <1>2, <1>3, <1>4, <1>5, <1>6, <1>7, <1>8, <1>9, <1>10

\* The dispatcher drops the kernel's reference, and it alone has it.
LEMMA DropKernelRefPreserves ==
    ASSUME IInv, NEW w \in Workers, DropKernelRef(w)
    PROVE  IInv'
<1> USE DEF IInv, DropKernelRef, DropRef, DropArc, DropResult
<1>1. TypeOK'
  BY Owners DEF TypeOK, WorkerPC, Addresses
<1>2. RefCount'
  BY DEF TypeOK, RefCount
<1>3. KernelPins'
  BY DEF KernelPins
<1>4. Addresses'
  BY DEF TypeOK, Addresses
<1>5. PacketOnce'
  BY DEF PacketOnce
<1>6. LiveOwned'
  BY DEF TypeOK, LiveOwned
<1>7. Phase'
  BY Owners DEF Phase
<1>8. Dispatching'
  BY DEF TypeOK, Dispatching
<1>9. ResultSlot'
  BY Owners DEF TypeOK, ResultSlot, ResultOwned, Dispatching, Addresses, Phase
<1>10. ResultOwned'
  <2> SUFFICES ASSUME NEW b \in Ops, result'[b] = "init"
               PROVE  /\ strong'[b] > 0
                      /\ \/ state'[b] = "Completed"
                         \/ fut'[b] = "taking"
                         \/ \E v \in Workers : waddr'[v] = b /\ wpc'[v] \in {"written", "lost"}
    BY DEF ResultOwned
  <2>1. CASE b = waddr[w]
    <3>1. result[b] = "init" /\ (strong[b] = 1 => state[b] # "Completed")
      BY <2>1, Holder DEF TypeOK
    <3>2. state[b] = "Completed" \/ fut[b] = "taking"
      BY <2>1, <3>1, Holder DEF ResultOwned
    <3>3. strong[b] > 1
      BY <2>1, <3>1, <3>2, Holder, Owners DEF TypeOK
    <3> QED BY <2>1, <3>2, <3>3 DEF TypeOK
  <2>2. CASE b # waddr[w]
    <3>1. result[b] = "init" /\ strong'[b] = strong[b] /\ state'[b] = state[b]
      BY <2>2 DEF TypeOK, Addresses
    <3> QED BY <2>2, <3>1 DEF TypeOK, ResultOwned, Addresses
  <2> QED BY <2>1, <2>2
<1> QED BY <1>1, <1>2, <1>3, <1>4, <1>5, <1>6, <1>7, <1>8, <1>9, <1>10

\* Waking moves no reference.
LEMMA WakePreserves ==
    ASSUME IInv, NEW w \in Workers, Wake(w)
    PROVE  IInv'
<1> USE DEF IInv, Wake
<1>1. TypeOK'
  BY DEF TypeOK, WorkerPC
<1>2. RefCount'
  BY DEF RefCount, Addresses
<1>3. KernelPins'
  BY DEF KernelPins
<1>4. Addresses'
  BY DEF Addresses
<1>5. PacketOnce'
  BY DEF PacketOnce
<1>6. LiveOwned'
  BY DEF LiveOwned
<1>7. Phase'
  BY DEF Phase
<1>8. Dispatching'
  BY DEF Dispatching
<1>9. ResultSlot'
  BY DEF ResultSlot
<1>10. ResultOwned'
  BY DEF ResultOwned
<1> QED BY <1>1, <1>2, <1>3, <1>4, <1>5, <1>6, <1>7, <1>8, <1>9, <1>10

----------------------------------------------------------------------------
(* The invariant of the specification.                                     *)

\* In the initial state every address is free and nothing is in flight.
LEMMA InitIInv == Init => IInv
<1> SUFFICES ASSUME Init PROVE IInv
  OBVIOUS
<1> USE DEF Init
<1>1. TypeOK
  BY DEF TypeOK, OpState, FutPC, WorkerPC
<1>2. RefCount
  <2>1. \A a \in Ops, w \in Workers : ~Holds(w, a)
    OBVIOUS
  <2>2. \A a \in Ops, v \in Workers, w \in Workers : Holds(v, a) /\ Holds(w, a) => v = w
    BY <2>1
  <2>3. ASSUME NEW a \in Ops
        PROVE  strong[a] = One(fut[a] # "none") + One(a \in live) + One(a \in tracked)
                             + One(\E w \in Workers : Holds(w, a))
    <3>1. strong[a] = 0 /\ fut[a] = "none" /\ a \notin live /\ a \notin tracked
      OBVIOUS
    <3> HIDE DEF Init, Holds
    <3> QED BY <2>1, <3>1
  <2> HIDE DEF Init, Holds, One
  <2> QED BY <2>2, <2>3 DEF RefCount
<1>3. KernelPins /\ Addresses /\ PacketOnce /\ LiveOwned
  BY DEF KernelPins, Addresses, PacketOnce, LiveOwned
<1>4. Phase /\ Dispatching /\ ResultSlot /\ ResultOwned
  BY DEF Phase, Dispatching, ResultSlot, ResultOwned
<1> QED BY <1>1, <1>2, <1>3, <1>4 DEF IInv

\* Every step preserves the invariant: the steps of submit, of poll and drop,
\* of the pending table, of the dispatching threads and of the kernel.
LEMMA NextIInv == IInv /\ [Next]_vars => IInv'
<1> SUFFICES ASSUME IInv, [Next]_vars PROVE IInv'
  OBVIOUS
<1>1. ASSUME NEW a \in Ops, SubmitStep(a) PROVE IInv'
  BY <1>1, NewPreserves, LeakPreserves, OperatePreserves, OperatePanicsPreserves,
     OperateReturnsPreserves, TrackPreserves, PendPreserves, HookInlinePreserves,
     HookInlinePanicsPreserves, UnleakPreserves
  DEF SubmitStep
<1>2. ASSUME NEW a \in Ops, FutureStep(a) PROVE IInv'
  BY <1>2, PollReadyPreserves, TakeCompletionPreserves, ResolvePreserves,
     AbandonPreserves, CancelPreserves, ReleasePreserves, SetWakerPreserves
  DEF FutureStep
<1>3. ASSUME NEW a \in Ops, TableStep(a) PROVE IInv'
  BY <1>3, CancelErasedPreserves, DropErasedPreserves DEF TableStep
<1>4. ASSUME NEW w \in Workers, CompleteStep(w) PROVE IInv'
  BY <1>4, ClaimPreserves, HookPreserves, HookPanicsPreserves, WriteResultPreserves,
     PublishPreserves, TakeWakerPreserves, DiscardPreserves, DropKernelRefPreserves,
     WakePreserves
  DEF CompleteStep, CompleteRuns
<1>5. ASSUME NEW w \in Workers, DropPacket(w) PROVE IInv'
  BY <1>5, DropPacketPreserves
<1>6. ASSUME NEW w \in Workers, NEW a \in Ops \cup Foreign, Dequeue(w, a) PROVE IInv'
  BY <1>6, DequeuePreserves
<1>7. CASE KernelStep
  BY <1>7, IoCompletesPreserves, CancelHandlePreserves, ForeignCallPreserves
  DEF KernelStep
<1>8. CASE UNCHANGED vars
  BY <1>8 DEF vars, IInv, TypeOK, RefCount, KernelPins, Addresses, PacketOnce,
         LiveOwned, Phase, Dispatching, ResultSlot, ResultOwned
<1> QED BY <1>1, <1>2, <1>3, <1>4, <1>5, <1>6, <1>7, <1>8 DEF Next

\* IInv is an invariant of RawOp.
THEOREM Invariant == Spec => []IInv
  BY InitIInv, NextIInv, PTL DEF Spec

----------------------------------------------------------------------------
(* The properties.                                                         *)

\* Type correctness, for the state of raw.rs, future.rs and the kernel.
THEOREM TypeCorrect == Spec => []TypeOK
<1>1. IInv => TypeOK
  BY DEF IInv
<1> QED BY <1>1, Invariant, PTL

\* The strong count of an operation is the number of its owners: there is no
\* leak and no double free, whichever order poll, drop, completion and
\* shutdown come in.
THEOREM ExactCount == Spec => []RefCount
<1>1. IInv => RefCount
  BY DEF IInv
<1> QED BY <1>1, Invariant, PTL

\* The kernel's reference is in the live set as long as Windows has the
\* OVERLAPPED.
THEOREM Pinned == Spec => []KernelPins
<1>1. IInv => KernelPins
  BY DEF IInv
<1> QED BY <1>1, Invariant, PTL

\* The allocation and the operation's buffer outlive the call in flight.
THEOREM MemorySafe == Spec => []KernelMemory
<1>1. IInv => KernelMemory
  <2> SUFFICES ASSUME IInv, NEW a \in Ops, io[a] = "inflight"
               PROVE  strong[a] > 0 /\ op[a] = "some"
    BY DEF KernelMemory
  <2>1. a \in live
    BY DEF IInv, KernelPins
  <2> QED BY <2>1, Owners DEF IInv, LiveOwned
<1> QED BY <1>1, Invariant, PTL

\* The result is read and dropped only when it was written, and only once.
THEOREM ResultSafe == Spec => []ResultSlot
<1>1. IInv => ResultSlot
  BY DEF IInv
<1> QED BY <1>1, Invariant, PTL

\* No operation completes twice.
THEOREM CompletedOnce == Spec => []CompletesOnce
<1>1. IInv => CompletesOnce
  BY DEF IInv, Dispatching, CompletesOnce
<1> QED BY <1>1, Invariant, PTL

\* The operation is in its mutex wherever raw.rs expects it.
THEOREM NeverMissing == Spec => []OpPresent
<1>1. IInv => OpPresent
  BY DEF IInv, Phase, OpPresent
<1> QED BY <1>1, Invariant, PTL

\* The states of an operation follow the lifecycle of raw.rs.
THEOREM LifecycleFollowed == Spec => Lifecycle
<1>1. IInv /\ [Next]_vars => [LifecycleStep]_vars
  <2> SUFFICES ASSUME IInv, Next, NEW b \in Ops, state'[b] # state[b]
               PROVE  \/ strong[b] = 0 /\ state'[b] = "Submitted"
                      \/ /\ strong[b] > 0
                         /\ <<state[b], state'[b]>> \in
                              {<<"Submitted", "Completed">>, <<"Submitted", "Abandoned">>,
                               <<"Completed", "Terminal">>, <<"Abandoned", "Terminal">>}
    BY DEF LifecycleStep
  <2> USE DEF IInv, TypeOK, DropRef, DropArc
  <2>1. ASSUME NEW a \in Ops, SubmitStep(a)
        PROVE  strong[b] = 0 /\ state'[b] = "Submitted"
    BY <2>1 DEF SubmitStep, New, Leak, Operate, OperatePanics, OperateReturns, Track,
           Pend, HookInline, HookInlinePanics, Unleak
  <2>2. ASSUME NEW a \in Ops, FutureStep(a)
        PROVE  /\ strong[b] > 0
               /\ <<state[b], state'[b]>> \in {<<"Submitted", "Abandoned">>,
                                               <<"Completed", "Terminal">>}
    <3>1. CASE TakeCompletion(a)
      BY <2>2, <3>1, Owners DEF TakeCompletion
    <3>2. CASE Abandon(a)
      BY <2>2, <3>2, Owners DEF Abandon
    <3>3. CASE Cancel(a) \/ \E t \in Tasks : SetWaker(a, t)
      BY <3>3 DEF Cancel, SetWaker
    <3>4. CASE PollReady(a) \/ Resolve(a) \/ Release(a)
      BY <3>4 DEF PollReady, Resolve, Release
    <3> QED BY <2>2, <3>1, <3>2, <3>3, <3>4 DEF FutureStep
  <2>3. ASSUME NEW a \in Ops, TableStep(a) PROVE FALSE
    BY <2>3 DEF TableStep, CancelErased, DropErased
  <2>4. ASSUME NEW w \in Workers, CompleteStep(w)
        PROVE  /\ strong[b] > 0
               /\ <<state[b], state'[b]>> \in {<<"Submitted", "Completed">>,
                                               <<"Abandoned", "Terminal">>}
    <3>1. CASE Publish(w)
      <4>1. b = waddr[w] /\ state[b] = "Submitted" /\ state'[b] = "Completed"
        BY <3>1 DEF Publish
      <4> QED BY <3>1, <4>1, Holder DEF Publish
    <3>2. CASE Discard(w)
      <4>1. b = waddr[w] /\ state[b] = "Abandoned" /\ state'[b] = "Terminal"
        BY <3>2 DEF Discard, Dispatching
      <4> QED BY <3>2, <4>1, Holder DEF Discard
    <3>3. CASE Claim(w) \/ Hook(w) \/ WriteResult(w) \/ TakeWaker(w) \/ Wake(w)
      BY <3>3 DEF Claim, Hook, WriteResult, TakeWaker, Wake
    <3>4. CASE DropKernelRef(w) \/ HookPanics(w)
      BY <3>4 DEF DropKernelRef, HookPanics
    <3> QED BY <2>4, <3>1, <3>2, <3>3, <3>4 DEF CompleteStep, CompleteRuns
  <2>5. ASSUME NEW w \in Workers, DropPacket(w) PROVE FALSE
    BY <2>5 DEF DropPacket
  <2>6. ASSUME NEW w \in Workers, NEW a \in Ops \cup Foreign, Dequeue(w, a) PROVE FALSE
    BY <2>6 DEF Dequeue
  <2>7. CASE KernelStep
    BY <2>7 DEF KernelStep, IoCompletes, ForeignCall, CancelHandle
  <2> QED BY <2>1, <2>2, <2>3, <2>4, <2>5, <2>6, <2>7 DEF Next
<1> QED BY <1>1, Invariant, PTL DEF Spec, Lifecycle

----------------------------------------------------------------------------
(* No wake-up is lost.                                                     *)

\* While the operation has not completed, the waker in its mutex is the one
\* of the latest poll; an operation being submitted was never polled.
WakerInstalled ==
    \A a \in Ops :
        /\ fut[a] \in {"pending", "checking"} /\ state[a] = "Submitted" /\ awaiting[a] # None
                => waker[a] = awaiting[a]
        /\ fut[a] \in SubmitPC => awaiting[a] = None

WakeInv == WakerInstalled /\ NoLostWakeup

\* The steps of submit do not disturb a wake-up: the operation was not polled.
LEMMA SubmitWakes ==
    ASSUME IInv, WakeInv, NEW a \in Ops, SubmitStep(a)
    PROVE  WakeInv'
<1> USE DEF IInv, TypeOK, WakeInv, DropRef, DropArc
<1>1. CASE New(a)
  BY <1>1 DEF New, WakerInstalled, NoLostWakeup
<1>2. CASE Leak(a) \/ Operate(a) \/ OperateReturns(a)
  BY <1>2 DEF Leak, Operate, OperateReturns, WakerInstalled, NoLostWakeup
<1>3. CASE Track(a) \/ Pend(a) \/ HookInline(a)
  BY <1>3 DEF Track, Pend, HookInline, WakerInstalled, NoLostWakeup
<1>4. CASE OperatePanics(a) \/ HookInlinePanics(a)
  BY <1>4 DEF OperatePanics, HookInlinePanics, WakerInstalled, NoLostWakeup
<1>5. CASE Unleak(a)
  BY <1>5 DEF Unleak, WakerInstalled, NoLostWakeup
<1> QED BY <1>1, <1>2, <1>3, <1>4, <1>5 DEF SubmitStep

\* poll installs its waker before it looks at the state, and drop awaits
\* nothing.
LEMMA FutureWakes ==
    ASSUME IInv, WakeInv, NEW a \in Ops, FutureStep(a)
    PROVE  WakeInv'
<1> USE DEF IInv, TypeOK, WakeInv, DropRef, DropArc
<1>1. ASSUME NEW t \in Tasks, SetWaker(a, t) PROVE WakeInv'
  BY <1>1 DEF SetWaker, WakerInstalled, NoLostWakeup
<1>2. CASE TakeCompletion(a)
  BY <1>2 DEF TakeCompletion, WakerInstalled, NoLostWakeup
<1>3. CASE Abandon(a) \/ Cancel(a)
  BY <1>3 DEF Abandon, Cancel, WakerInstalled, NoLostWakeup
<1>4. CASE PollReady(a) \/ Resolve(a) \/ Release(a)
  BY <1>4 DEF PollReady, Resolve, Release, WakerInstalled, NoLostWakeup
<1> QED BY <1>1, <1>2, <1>3, <1>4 DEF FutureStep

\* The thread that publishes Completed takes the waker afterwards, and wakes it.
LEMMA CompleteWakes ==
    ASSUME IInv, WakeInv, NEW w \in Workers, CompleteStep(w)
    PROVE  WakeInv'
<1> USE DEF IInv, TypeOK, WakeInv, DropRef, DropArc
<1>1. CASE Publish(w)
  BY <1>1, Holder DEF Publish, WakerInstalled, NoLostWakeup
<1>2. CASE TakeWaker(w)
  BY <1>2, Holder DEF TakeWaker, WakerInstalled, NoLostWakeup, Dispatching
<1>3. CASE Wake(w)
  BY <1>3 DEF Wake, WakerInstalled, NoLostWakeup
<1>4. CASE DropKernelRef(w)
  BY <1>4, Holder DEF DropKernelRef, WakerInstalled, NoLostWakeup
<1>5. CASE Discard(w)
  BY <1>5, Holder DEF Discard, WakerInstalled, NoLostWakeup
<1>6. CASE HookPanics(w)
  BY <1>6, Holder DEF HookPanics, WakerInstalled, NoLostWakeup
<1>7. CASE Claim(w) \/ Hook(w) \/ WriteResult(w)
  BY <1>7 DEF Claim, Hook, WriteResult, WakerInstalled, NoLostWakeup
<1> QED BY <1>1, <1>2, <1>3, <1>4, <1>5, <1>6, <1>7 DEF CompleteStep, CompleteRuns

\* A future whose result is there has been woken, or is about to be: the
\* order "install the waker, then look at the state" of poll against the order
\* "publish, then take the waker" of complete_erased leaves no gap.
THEOREM WakeupNotLost == Spec => []NoLostWakeup
<1>1. Init => WakeInv
  BY DEF Init, WakeInv, WakerInstalled, NoLostWakeup
<1>2. IInv /\ WakeInv /\ [Next]_vars => WakeInv'
  <2> SUFFICES ASSUME IInv, WakeInv, [Next]_vars PROVE WakeInv'
    OBVIOUS
  <2> USE DEF WakeInv
  <2>1. ASSUME NEW a \in Ops, TableStep(a) PROVE WakeInv'
    BY <2>1 DEF TableStep, CancelErased, DropErased, DropRef, DropArc, IInv, TypeOK,
           WakerInstalled, NoLostWakeup
  <2>2. ASSUME NEW w \in Workers, DropPacket(w) PROVE WakeInv'
    BY <2>2 DEF DropPacket, IInv, TypeOK, WakerInstalled, NoLostWakeup
  <2>3. ASSUME NEW w \in Workers, NEW a \in Ops \cup Foreign, Dequeue(w, a)
        PROVE  WakeInv'
    BY <2>3 DEF Dequeue, IInv, TypeOK, WakerInstalled, NoLostWakeup
  <2>4. CASE KernelStep
    BY <2>4 DEF KernelStep, IoCompletes, ForeignCall, CancelHandle, WakerInstalled,
           NoLostWakeup
  <2>5. CASE UNCHANGED vars
    BY <2>5 DEF vars, WakerInstalled, NoLostWakeup
  <2> QED BY <2>1, <2>2, <2>3, <2>4, <2>5, SubmitWakes, FutureWakes, CompleteWakes
      DEF Next
<1>3. WakeInv => NoLostWakeup
  BY DEF WakeInv
<1> QED BY <1>1, <1>2, <1>3, Invariant, PTL DEF Spec
----------------------------------------------------------------------------
(* Who finishes an operation.  L are the addresses whose packets were      *)
(* dropped: a backend says which.                                          *)

\* operate holds the mutex, which a dispatcher that is early waits for.
OperateLocks == \A a \in Ops : fut[a] \in {"opPending", "opOk", "opErr"} => oplock[a] = "held"

\* Nobody has abandoned the operation of a future that may still be polled.
Wanted == \A a \in Ops : fut[a] \in SubmitPC \cup {"pending", "checking"} =>
                            state[a] \in {"Submitted", "Completed"}

\* The packet of a is on its way, or in the hands of a dispatcher.
OnItsWay(a) == io[a] # "none" \/ \E w \in Workers : Dequeued(w, a)

\* A leaked reference has somebody who reclaims it, unless user code panicked.
Reclaimed(L) ==
    \A a \in live : \/ fut[a] \in {"leaked", "opOk", "opErr", "hooking", "unleaking"}
                    \/ OnItsWay(a)
                    \/ a \in L
                    \/ oplock[a] = "poisoned"

\* A pending future has somebody who completes it, unless user code panicked.
Completing(w, a) == waddr[w] = a /\ wpc[w] \in {"claimed", "hooked", "written"}

Finishes(L) ==
    \A a \in Ops : fut[a] \in {"opPending", "started", "pending", "checking"} =>
        \/ state[a] = "Completed"
        \/ OnItsWay(a)
        \/ \E w \in Workers : Completing(w, a)
        \/ a \in L
        \/ oplock[a] = "poisoned"

OwnerInv(L) == OperateLocks /\ Wanted /\ Reclaimed(L) /\ Finishes(L)

LEMMA InitOwned == ASSUME Init, NEW L PROVE OwnerInv(L)
  BY DEF Init, OwnerInv, OperateLocks, Wanted, Reclaimed, Finishes

LEMMA SubmitOwned ==
    ASSUME IInv, NEW L, OwnerInv(L), NEW a \in Ops, SubmitStep(a)
    PROVE  OwnerInv(L)'
<1> USE DEF IInv, TypeOK, OwnerInv, OnItsWay, Completing
<1>1. CASE New(a)
  BY <1>1, Owners DEF New, OperateLocks, Wanted, Reclaimed, Finishes
<1>2. CASE Leak(a)
  BY <1>2 DEF Leak, OperateLocks, Wanted, Reclaimed, Finishes
<1>3. CASE Operate(a)
  BY <1>3 DEF Operate, OperateLocks, Wanted, Reclaimed, Finishes
<1>4. CASE OperatePanics(a) \/ HookInlinePanics(a)
  BY <1>4 DEF OperatePanics, HookInlinePanics, DropRef, DropArc, OperateLocks, Wanted, Reclaimed,
         Finishes
<1>5. CASE OperateReturns(a)
  BY <1>5 DEF OperateReturns, OperateLocks, Wanted, Reclaimed, Finishes
<1>6. CASE Track(a) \/ Pend(a) \/ HookInline(a)
  BY <1>6 DEF Track, Pend, HookInline, OperateLocks, Wanted, Reclaimed, Finishes
<1>7. CASE Unleak(a)
  BY <1>7 DEF Unleak, DropRef, DropArc, OperateLocks, Wanted, Reclaimed, Finishes
<1> QED
  BY <1>1, <1>2, <1>3, <1>4, <1>5, <1>6, <1>7 DEF SubmitStep

LEMMA FutureOwned ==
    ASSUME IInv, NEW L, OwnerInv(L), NEW a \in Ops, FutureStep(a)
    PROVE  OwnerInv(L)'
<1> USE DEF IInv, TypeOK, OwnerInv, OnItsWay, Completing
<1>1. CASE PollReady(a) \/ Resolve(a) \/ Release(a)
  BY <1>1 DEF PollReady, Resolve, Release, DropRef, DropArc, OperateLocks, Wanted, Reclaimed,
         Finishes
<1>2. CASE TakeCompletion(a)
  BY <1>2 DEF TakeCompletion, OperateLocks, Wanted, Reclaimed, Finishes
<1>3. CASE Abandon(a)
  BY <1>3 DEF Abandon, OperateLocks, Wanted, Reclaimed, Finishes
<1>4. CASE Cancel(a)
  BY <1>4 DEF Cancel, OperateLocks, Wanted, Reclaimed, Finishes
<1>5. ASSUME NEW t \in Tasks, SetWaker(a, t) PROVE OwnerInv(L)'
  BY <1>5 DEF SetWaker, OperateLocks, Wanted, Reclaimed, Finishes
<1> QED
  BY <1>1, <1>2, <1>3, <1>4, <1>5 DEF FutureStep

LEMMA KernelOwned ==
    ASSUME IInv, NEW L, OwnerInv(L), KernelStep
    PROVE  OwnerInv(L)'
<1> USE DEF IInv, TypeOK, OwnerInv, OnItsWay, Completing
<1>1. ASSUME NEW a \in Ops \cup Foreign, IoCompletes(a) PROVE OwnerInv(L)'
  BY <1>1 DEF IoCompletes, OperateLocks, Wanted, Reclaimed, Finishes
<1>2. CASE CancelHandle
  BY <1>2 DEF CancelHandle, OperateLocks, Wanted, Reclaimed, Finishes
<1>3. ASSUME NEW f \in Foreign, ForeignCall(f) PROVE OwnerInv(L)'
  BY <1>3 DEF ForeignCall, OperateLocks, Wanted, Reclaimed, Finishes
<1> QED
  BY <1>1, <1>2, <1>3 DEF KernelStep

LEMMA DequeueOwned ==
    ASSUME IInv, NEW L, OwnerInv(L), NEW w \in Workers, NEW a \in Ops \cup Foreign, Dequeue(w, a)
    PROVE  OwnerInv(L)'
<1> USE DEF IInv, TypeOK, OwnerInv, OnItsWay, Completing
<1>1. OperateLocks' /\ Wanted'
  BY DEF Dequeue, OperateLocks, Wanted
<1>2. \A b \in Ops : OnItsWay(b) => OnItsWay(b)'
  BY DEF Dequeue
<1>3. \A b \in Ops, v \in Workers : Completing(v, b) => Completing(v, b)'
  BY DEF Dequeue
<1> QED
  BY <1>1, <1>2, <1>3 DEF Dequeue, Reclaimed, Finishes

LEMMA CallbackOwned ==
    ASSUME IInv, NEW L, OwnerInv(L), NEW w \in Workers, CompleteStep(w)
    PROVE  OwnerInv(L)'
<1> USE DEF IInv, TypeOK, OwnerInv, OnItsWay, Completing
<1>1. CASE Claim(w)
  BY <1>1 DEF Claim, KernelPins, OperateLocks, Wanted, Reclaimed, Finishes
<1>2. CASE Hook(w)
  BY <1>2 DEF Hook, OperateLocks, Wanted, Reclaimed, Finishes
<1>3. CASE HookPanics(w)
  BY <1>3, Holder DEF HookPanics, DropRef, DropArc, OperateLocks, Wanted, Reclaimed, Finishes
<1>4. CASE WriteResult(w)
  BY <1>4 DEF WriteResult, OperateLocks, Wanted, Reclaimed, Finishes
<1>5. CASE Publish(w)
  BY <1>5, Holder DEF Publish, Dispatching, OperateLocks, Wanted, Reclaimed, Finishes
<1>6. CASE TakeWaker(w) \/ Wake(w)
  BY <1>6 DEF TakeWaker, Wake, OperateLocks, Wanted, Reclaimed, Finishes
<1>7. CASE Discard(w)
  BY <1>7, Holder DEF Discard, Dispatching, OperateLocks, Wanted, Reclaimed, Finishes
<1>8. CASE DropKernelRef(w)
  BY <1>8 DEF DropKernelRef, DropRef, DropArc, OperateLocks, Wanted, Reclaimed, Finishes
<1> QED
  BY <1>1, <1>2, <1>3, <1>4, <1>5, <1>6, <1>7, <1>8 DEF CompleteStep, CompleteRuns

LEMMA TableOwned ==
    ASSUME IInv, NEW L, OwnerInv(L), NEW a \in Ops, TableStep(a)
    PROVE  OwnerInv(L)'
<1> USE DEF IInv, TypeOK, OwnerInv, OnItsWay, Completing
<1>1. CASE CancelErased(a)
  BY <1>1 DEF CancelErased, OperateLocks, Wanted, Reclaimed, Finishes
<1>2. CASE DropErased(a)
  BY <1>2 DEF DropErased, DropRef, DropArc, OperateLocks, Wanted, Reclaimed, Finishes
<1> QED
  BY <1>1, <1>2 DEF TableStep

\* A dropped packet is one more that nobody will dispatch.
LEMMA PacketOwned ==
    ASSUME IInv, NEW L, OwnerInv(L), NEW w \in Workers, DropPacket(w), NEW M,
           L \subseteq M, waddr[w] \in Ops => waddr[w] \in M
    PROVE  OwnerInv(M)'
<1> USE DEF IInv, TypeOK, OwnerInv, OnItsWay, Completing
<1>1. OperateLocks' /\ Wanted'
  BY DEF DropPacket, OperateLocks, Wanted
<1>2. \A b \in Ops : OnItsWay(b) => OnItsWay(b)' \/ b \in M
  BY DEF DropPacket
<1>3. \A b \in Ops, v \in Workers : Completing(v, b) => Completing(v, b)'
  BY DEF DropPacket
<1> QED
  BY <1>1, <1>2, <1>3 DEF DropPacket, Reclaimed, Finishes

----------------------------------------------------------------------------
(* Counting, for the backends.                                             *)

\* Two sets that differ at most in c.
LEMMA Differ ==
    ASSUME NEW D, IsFiniteSet(D), NEW S \in SUBSET D, NEW T \in SUBSET D, NEW c \in D,
           \A d \in D \ {c} : d \in S <=> d \in T
    PROVE  /\ Cardinality(S) \in Nat /\ Cardinality(T) \in Nat
           /\ Cardinality(T) = Cardinality(S) + One(c \in T) - One(c \in S)
<1>1. IsFiniteSet(S) /\ IsFiniteSet(T)
  BY FS_Subset
<1>2. Cardinality(S) \in Nat /\ Cardinality(T) \in Nat
  BY <1>1, FS_CardinalityType
<1>3. CASE c \in S <=> c \in T
  <2>1. S = T
    BY <1>3
  <2> QED
    BY <2>1, <1>2, <1>3 DEF One
<1>4. CASE c \in T /\ c \notin S
  <2>1. T = S \cup {c}
    BY <1>4
  <2>2. Cardinality(T) = Cardinality(S) + 1
    BY <2>1, <1>4, <1>1, FS_AddElement
  <2> QED
    BY <2>2, <1>2, <1>4 DEF One
<1>5. CASE c \in S /\ c \notin T
  <2>1. T = S \ {c}
    BY <1>5
  <2>2. Cardinality(T) = Cardinality(S) - 1
    BY <2>1, <1>5, <1>1, FS_RemoveElement
  <2> QED
    BY <2>2, <1>2, <1>5 DEF One
<1> QED
  BY <1>3, <1>4, <1>5
=============================================================================
