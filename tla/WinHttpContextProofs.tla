------------------------ MODULE WinHttpContextProofs ------------------------
(***************************************************************************)
(* One WinHTTP request, for any number of operations and of tasks: memory  *)
(* that WinHTTP uses is alive, a future collects the completion of its own *)
(* operation and is woken for it, and the context is freed once.           *)
(***************************************************************************)
EXTENDS WinHttpContext, TLAPS

----------------------------------------------------------------------------
(* The invariant.                                                          *)

\* The types that the argument needs; that strong is a number follows from the
\* count.
Types ==
    /\ next_generation \in Generation \ {0}
    /\ slot \in [Side -> Slot]
    /\ waker \in [Side -> Tasks \cup {None}]
    /\ fut \in [Side -> Future]
    /\ awaiting \in [Side -> Tasks \cup {None}]
    /\ notified \in [Side -> SUBSET Tasks]
    /\ cb \in [st : {"idle", "entered", "released", "recorded"}, note : Note,
               wakers : SUBSET Tasks]
    /\ plat \in [Side -> {None} \cup [kind : OpKind, gen : Generation]]
    /\ phase \in {"opened", "sent", "received", "failed"}
    /\ notes \in Seq(Note)

Failed == phase = "failed"

\* A future and its slot.
FutureInv(s) ==
    /\ fut[s].st = "none" => fut[s] = NoFuture
    /\ fut[s].st # "none" => req = "open" /\ SideOf(fut[s].kind) = s
    /\ fut[s].st = "created" => fut[s].gen = 0
    /\ fut[s].st \in {"created", "claimed", "accepted", "failed"} /\ fut[s].kind = "Send"
         => fut[s].body
    /\ OwnsBuffer(s) => /\ slot[s].st \in {"Pending", "Complete"}
                        /\ slot[s].gen = fut[s].gen /\ slot[s].kind = fut[s].kind
    /\ fut[s].st \in {"claimed", "failed"} /\ slot[s].st = "Complete" => Failed

\* A slot in use has a generation of its own, and a pending one has a future,
\* whose task its waker wakes.
SlotInv(s) ==
    /\ slot[s].st # "Idle" => slot[s].gen \in 1..(next_generation - 1)
    /\ slot[s].st = "Pending" => /\ OwnsBuffer(s)
                                 /\ waker[s] = awaiting[s] /\ awaiting[s] \in Tasks
    /\ slot[s].st = "Complete" => slot[s].src \in {None, slot[s].gen}

Distinct ==
    slot["Write"].st # "Idle" /\ slot["Read"].st # "Idle" =>
        slot["Write"].gen # slot["Read"].gen

\* The operation of kind k and generation g has its slot.
HasSlot(k, g) ==
    LET s == SideOf(k)
    IN /\ slot[s].st \in {"Pending", "Abandoned"}
       /\ slot[s].kind = k /\ slot[s].gen = g
       /\ fut[s].st \notin {"claimed", "failed"}

\* WinHTTP works on an operation.
PlatInv(s) ==
    plat[s] # None =>
        /\ SideOf(plat[s].kind) = s
        /\ HasSlot(plat[s].kind, plat[s].gen)
        /\ ~Failed /\ req = "open"
        /\ slot[s].st = "Abandoned" /\ Buffered(plat[s].kind) => plat[s].gen \in retired

BodyInv ==
    /\ Failed => bodies = {}
    /\ 0 \notin bodies
    /\ \A g \in bodies : g \in send_retention \/ (fut["Write"].gen = g /\ fut["Write"].body)

\* A notification on its way: that of an operation finds the slot of that
\* operation, and the others say that all is over.
Owed(n) ==
    /\ n.status = "done" => /\ HasSlot(n.kind, n.gen)
                            /\ plat[SideOf(n.kind)] = None
                            /\ n.kind = "ReceiveResponse" => bodies = {}
    /\ n.status # "done" => Failed
    /\ n.status = "closing" => req \in {"closed", "dropped"}

\* A later notification n after m is not of the same slot, and no operation
\* completes after the request has failed.
Follows(m, n) ==
    /\ n.status = "done" => m.status = "done" /\ SideOf(m.kind) # SideOf(n.kind)
    /\ m.status # "closing"

Ordered(q) == \A i, j \in 1..Len(q) : i < j => Follows(q[i], q[j])

NotesInv ==
    /\ \A i \in 1..Len(notes) : Owed(notes[i])
    /\ Ordered(notes)

CallbackInv ==
    /\ cb.st = "entered" => /\ Owed(cb.note)
                            /\ \A i \in 1..Len(notes) : Follows(cb.note, notes[i])
    /\ cb.st = "released" => Failed /\ req \in {"closed", "dropped"}
    /\ req = "unopened" => notes = <<>> /\ cb.st = "idle"

CInv ==
    /\ Types
    /\ \A s \in Side : FutureInv(s) /\ SlotInv(s) /\ PlatInv(s)
    /\ Distinct
    /\ BodyInv
    /\ NotesInv
    /\ CallbackInv

----------------------------------------------------------------------------
(* Types.                                                                  *)

LEMMA ConstantTypes ==
    /\ IdleSlot \in Slot /\ NoFuture \in Future
    /\ NoCallback \in [st : {"idle", "entered", "released", "recorded"}, note : Note,
                       wakers : SUBSET Tasks]
BY ContextAssumption
   DEF IdleSlot, Slot, NoFuture, Future, NoCallback, AnyNote, Note, OpKind, Generation

----------------------------------------------------------------------------
(* Steps that leave the slots and the futures alone.                       *)

LEMMA AsideKeeps ==
    ASSUME CInv, Types', CallbackInv',
           UNCHANGED <<next_generation, slot, waker, retired, send_retention, fut, awaiting,
                       platVars>>,
           \/ req' = req
           \/ req = "unopened"
           \/ req = "closed" /\ req' = "dropped"
    PROVE  CInv'
<1>1. ASSUME NEW x \in Side PROVE FutureInv(x)' /\ SlotInv(x)' /\ PlatInv(x)'
  BY DEF CInv, FutureInv, SlotInv, PlatInv, HasSlot, OwnsBuffer, Failed, platVars
<1>2. Distinct' /\ BodyInv'
  BY DEF CInv, Distinct, BodyInv, Failed, platVars
<1>3. NotesInv'
  BY DEF CInv, NotesInv, Owed, HasSlot, CallbackInv, Failed, platVars
<1> QED
  BY <1>1, <1>2, <1>3 DEF CInv

LEMMA RequestKeeps ==
    ASSUME CInv, Arm \/ ArmFails \/ DropContext
    PROVE  CInv'
<1>1. /\ UNCHANGED <<next_generation, slot, waker, retired, send_retention, futureVars,
                     platVars, cb>>
      /\ \/ req = "unopened" /\ req' \in {"open", "dropped"}
         \/ req = "closed" /\ req' = "dropped"
  BY DEF Arm, ArmFails, DropContext, contextVars
<1>2. Types'
  BY <1>1 DEF CInv, Types, futureVars, platVars
<1>3. CallbackInv'
  BY <1>1 DEF CInv, CallbackInv, Owed, HasSlot, Failed, futureVars, platVars
<1> QED
  BY <1>1, <1>2, <1>3, AsideKeeps DEF futureVars

LEMMA ClosingReleaseKeeps ==
    ASSUME CInv, ClosingRelease
    PROVE  CInv'
<1>1. /\ cb.st = "entered" /\ cb.note.status = "closing" /\ cb' = [cb EXCEPT !.st = "released"]
      /\ UNCHANGED <<next_generation, slot, waker, retired, send_retention, futureVars,
                     platVars, req>>
  BY DEF ClosingRelease
<1>2. Types' /\ cb'.st = "released"
  BY <1>1 DEF CInv, Types, futureVars, platVars
<1>3. CallbackInv'
  BY <1>1, <1>2 DEF CInv, CallbackInv, Owed, Failed, platVars
<1> QED
  BY <1>1, <1>2, <1>3, AsideKeeps DEF futureVars

LEMMA WakeKeeps ==
    ASSUME CInv, Wake
    PROVE  CInv'
<1>1. /\ cb.st = "recorded" /\ cb' = NoCallback
      /\ notified' \in [Side -> SUBSET Tasks]
      /\ UNCHANGED <<next_generation, slot, waker, retired, send_retention, fut, awaiting,
                     platVars, req>>
  BY DEF Wake, CInv, Types
<1>2. Types'
  BY <1>1, ConstantTypes DEF CInv, Types, platVars
<1>3. CallbackInv'
  BY <1>1 DEF CInv, CallbackInv, NoCallback
<1> QED
  BY <1>1, <1>2, <1>3, AsideKeeps

----------------------------------------------------------------------------
(* The futures.                                                            *)

\* A step of the future of side s that WinHTTP does not see: it leaves the slot
\* of an operation that was accepted to that operation.
LEMMA FutureKeeps ==
    ASSUME CInv, NEW s \in Side, Types',
           UNCHANGED <<platVars, req, cb>>,
           \A x \in Side \ {s} : /\ fut'[x] = fut[x] /\ slot'[x] = slot[x]
                                 /\ waker'[x] = waker[x] /\ awaiting'[x] = awaiting[x],
           next_generation' >= next_generation, retired \subseteq retired',
           FutureInv(s)', SlotInv(s)', Distinct', BodyInv',
           slot[s].st \in {"Pending", "Abandoned"} /\ fut[s].st \notin {"claimed", "failed"} =>
               /\ slot'[s].st \in {"Pending", "Abandoned"}
               /\ slot'[s].kind = slot[s].kind /\ slot'[s].gen = slot[s].gen
               /\ fut'[s].st \notin {"claimed", "failed"}
               /\ slot'[s].st = "Abandoned" /\ Buffered(slot[s].kind) =>
                      slot[s].st = "Abandoned" \/ slot[s].gen \in retired'
    PROVE  CInv'
<1>1. ASSUME NEW x \in Side PROVE FutureInv(x)' /\ SlotInv(x)'
  <2>1. CASE x = s
    BY <2>1
  <2>2. CASE x # s
    <3>1. FutureInv(x)'
      BY <2>2 DEF CInv, FutureInv, OwnsBuffer, Failed, platVars
    <3>2. SlotInv(x)'
      BY <2>2 DEF CInv, Types, SlotInv, OwnsBuffer, Generation, Slot
    <3> QED
      BY <3>1, <3>2
  <2> QED
    BY <2>1, <2>2
<1>2. ASSUME NEW k \in OpKind, NEW g, HasSlot(k, g) PROVE HasSlot(k, g)'
  BY <1>2 DEF HasSlot, SideOf, Side
<1>3. ASSUME NEW x \in Side PROVE PlatInv(x)'
  <2>1. SUFFICES ASSUME plat[x] # None PROVE PlatInv(x)'
    BY DEF PlatInv, platVars
  <2>2. /\ plat[x].kind \in OpKind /\ SideOf(plat[x].kind) = x /\ ~Failed /\ req = "open"
        /\ HasSlot(plat[x].kind, plat[x].gen)
        /\ slot[x].st = "Abandoned" /\ Buffered(plat[x].kind) => plat[x].gen \in retired
    BY <2>1 DEF CInv, Types, PlatInv
  <2>3. slot'[x].st = "Abandoned" /\ Buffered(plat[x].kind) => plat[x].gen \in retired'
    BY <2>2 DEF HasSlot
  <2> QED
    BY <1>2, <2>2, <2>3 DEF PlatInv, Failed, platVars
<1>4. ASSUME NEW n \in Note, Owed(n) PROVE Owed(n)'
  <2>1. n.kind \in OpKind
    BY DEF Note
  <2> QED
    BY <1>2, <1>4, <2>1 DEF Owed, Failed, platVars
<1>5. NotesInv'
  <2>1. \A i \in 1..Len(notes) : notes[i] \in Note
    BY DEF CInv, Types
  <2> QED
    BY <1>4, <2>1 DEF CInv, NotesInv, Ordered, Follows, platVars
<1>6. CallbackInv'
  <2>1. cb.note \in Note
    BY DEF CInv, Types
  <2> QED
    BY <1>4, <2>1 DEF CInv, CallbackInv, Follows, Failed, platVars
<1> QED
  BY <1>1, <1>3, <1>5, <1>6 DEF CInv

\* Steps of the future of side s that change nothing else but, in Rollback, its
\* slot.
LEMMA CreateKeeps ==
    ASSUME CInv, NEW s \in Side, Create(s)
    PROVE  CInv'
<1>1. PICK k \in OpKind :
        /\ SideOf(k) = s
        /\ fut' = [fut EXCEPT ![s] = [st |-> "created", kind |-> k, gen |-> 0,
                                      body |-> k = "Send"]]
  BY DEF Create
<1>2. PICK b \in BOOLEAN : b = (k = "Send")
  OBVIOUS
<1>3. PICK f : f = [st |-> "created", kind |-> k, gen |-> 0, body |-> b]
  OBVIOUS
<1>4. f \in Future /\ f.st = "created" /\ f.kind = k /\ f.gen = 0 /\ f.body = b
  BY <1>3, ContextAssumption DEF Future, Generation
<1>5. fut' = [fut EXCEPT ![s] = f]
  BY <1>1, <1>2, <1>3
<1>6. /\ fut' \in [Side -> Future] /\ fut'[s] = f
      /\ \A x \in Side \ {s} : fut'[x] = fut[x]
  BY <1>4, <1>5 DEF CInv, Types
<1>7. k = "Send" => f.body
  BY <1>2, <1>4, Zenon
<1>8. /\ fut[s] = NoFuture /\ req = "open"
      /\ UNCHANGED <<contextVars, platVars, req, cb>>
      /\ awaiting' \in [Side -> Tasks \cup {None}] /\ notified' \in [Side -> SUBSET Tasks]
      /\ \A x \in Side \ {s} : awaiting'[x] = awaiting[x]
  BY DEF Create, CInv, Types, FutureInv
<1>9. Types'
  BY <1>6, <1>8 DEF CInv, Types, contextVars, platVars
<1>10. FutureInv(s)'
  BY <1>1, <1>4, <1>6, <1>7, <1>8 DEF FutureInv, OwnsBuffer
<1>11. slot[s].st # "Pending"
  BY <1>8 DEF CInv, SlotInv, OwnsBuffer, NoFuture
<1>12. SlotInv(s)'
  BY <1>8, <1>11 DEF CInv, SlotInv, contextVars
<1>13. Distinct' /\ BodyInv'
  BY <1>6, <1>8 DEF CInv, Distinct, BodyInv, Failed, NoFuture, Side, contextVars, platVars
<1>14. next_generation' >= next_generation /\ fut'[s].st \notin {"claimed", "failed"}
  BY <1>4, <1>6, <1>8 DEF CInv, Types, Generation, contextVars
<1> QED
  BY <1>6, <1>8, <1>9, <1>10, <1>12, <1>13, <1>14, FutureKeeps DEF contextVars

LEMMA SubmitFailedKeeps ==
    ASSUME CInv, NEW s \in Side, SubmitFailed(s)
    PROVE  CInv'
<1>1. /\ fut' \in [Side -> Future] /\ \A x \in Side \ {s} : fut'[x] = fut[x]
      /\ fut[s].st = "claimed" /\ fut'[s].st = "failed" /\ fut'[s].kind = fut[s].kind
      /\ fut'[s].gen = fut[s].gen /\ (fut'[s].body <=> fut[s].body)
  BY DEF CInv, Types, SubmitFailed, Future
<1>2. UNCHANGED <<contextVars, awaiting, notified, platVars, req, cb>>
  BY DEF SubmitFailed
<1>3. Types'
  BY <1>1, <1>2 DEF CInv, Types, contextVars, platVars
<1>4. FutureInv(s)' /\ SlotInv(s)'
  BY <1>1, <1>2 DEF CInv, FutureInv, SlotInv, OwnsBuffer, Failed, contextVars, platVars
<1>5. Distinct' /\ BodyInv'
  BY <1>1, <1>2 DEF CInv, Distinct, BodyInv, Failed, Side, contextVars, platVars
<1>6. next_generation' >= next_generation
  BY <1>2 DEF CInv, Types, Generation, contextVars
<1> QED
  BY <1>1, <1>2, <1>3, <1>4, <1>5, <1>6, FutureKeeps DEF contextVars

LEMMA RollbackKeeps ==
    ASSUME CInv, NEW s \in Side, Rollback(s)
    PROVE  CInv'
<1>1. /\ fut' \in [Side -> Future] /\ \A x \in Side \ {s} : fut'[x] = fut[x]
      /\ fut[s].st = "failed" /\ fut'[s].st = "resolved" /\ fut'[s].kind = fut[s].kind
      /\ fut'[s].gen = fut[s].gen /\ (fut'[s].body <=> fut[s].body)
  BY DEF CInv, Types, Rollback, Future
<1>2. UNCHANGED <<next_generation, waker, retired, send_retention, awaiting, notified,
                  platVars, req, cb>>
  BY DEF Rollback
<1>3. /\ slot' \in [Side -> Slot] /\ \A x \in Side \ {s} : slot'[x] = slot[x]
      /\ slot'[s] = IF slot[s].st = "Pending" /\ slot[s].gen = fut[s].gen
                    THEN IdleSlot ELSE slot[s]
  BY ConstantTypes DEF CInv, Types, Rollback
<1>4. Types'
  BY <1>1, <1>2, <1>3 DEF CInv, Types, platVars
<1>5. slot[s].st = "Pending" => slot[s].gen = fut[s].gen
  BY DEF CInv, FutureInv, SlotInv
<1>6. FutureInv(s)' /\ SlotInv(s)'
  BY <1>1, <1>2, <1>3, <1>5 DEF CInv, FutureInv, SlotInv, OwnsBuffer, IdleSlot
<1>7. Distinct' /\ BodyInv'
  BY <1>1, <1>2, <1>3 DEF CInv, Distinct, BodyInv, Failed, IdleSlot, Side, platVars
<1>8. next_generation' >= next_generation
  BY <1>2 DEF CInv, Types, Generation
<1> QED
  BY <1>1, <1>2, <1>3, <1>4, <1>6, <1>7, <1>8, FutureKeeps

LEMMA RetainKeeps ==
    ASSUME CInv, NEW s \in Side, Retain(s)
    PROVE  CInv'
<1>1. /\ fut' \in [Side -> Future] /\ \A x \in Side \ {s} : fut'[x] = fut[x]
      /\ fut'[s].st = fut[s].st /\ fut'[s].kind = fut[s].kind
      /\ fut'[s].gen = fut[s].gen /\ ~fut'[s].body
      /\ fut[s].st \in {"pending", "resolved"}
  BY DEF CInv, Types, Retain, Future
<1>2. /\ send_retention' = send_retention \cup {fut[s].gen}
      /\ UNCHANGED <<next_generation, slot, waker, retired, awaiting, notified,
                     platVars, req, cb>>
  BY DEF Retain
<1>3. Types'
  BY <1>1, <1>2 DEF CInv, Types, platVars
<1>4. FutureInv(s)' /\ SlotInv(s)'
  BY <1>1, <1>2 DEF CInv, FutureInv, SlotInv, OwnsBuffer
<1>5. Distinct' /\ BodyInv'
  BY <1>1, <1>2 DEF CInv, Distinct, BodyInv, Failed, Side, platVars
<1>6. next_generation' >= next_generation
  BY <1>2 DEF CInv, Types, Generation
<1> QED
  BY <1>1, <1>2, <1>3, <1>4, <1>5, <1>6, FutureKeeps

LEMMA FirstPollKeeps ==
    ASSUME CInv, NEW s \in Side, NEW t \in Tasks, FirstPoll(s, t)
    PROVE  CInv'
<1>1. CASE slot[s].st # "Idle"
  <2>1. /\ fut' = [fut EXCEPT ![s] = NoFuture]
        /\ fut[s].st = "created" /\ fut[s].gen = 0
        /\ UNCHANGED <<contextVars, awaiting, notified, platVars, req, cb>>
    BY <1>1 DEF FirstPoll, CInv, FutureInv
  <2>2. /\ \A x \in Side \ {s} : fut'[x] = fut[x]
        /\ fut'[s] = NoFuture /\ fut' \in [Side -> Future]
    BY <2>1, ConstantTypes DEF CInv, Types
  <2>3. Types'
    BY <2>1, <2>2 DEF CInv, Types, contextVars, platVars
  <2>4. FutureInv(s)'
    BY <2>2 DEF FutureInv, NoFuture, OwnsBuffer
  <2>5. SlotInv(s)'
    BY <2>1, <2>2 DEF CInv, SlotInv, OwnsBuffer, contextVars
  <2>6. Distinct' /\ BodyInv'
    BY <2>1, <2>2 DEF CInv, Distinct, BodyInv, Failed, Side, NoFuture, contextVars, platVars
  <2> QED
    BY <2>1, <2>2, <2>3, <2>4, <2>5, <2>6, FutureKeeps DEF CInv, Types, contextVars, NoFuture,
       Generation
<1>2. CASE slot[s].st = "Idle"
  <2> DEFINE g == next_generation
  <2>1. /\ g <= MaxGeneration /\ g' = g + 1 /\ g \in Nat
        /\ slot' = [slot EXCEPT ![s] = [st |-> "Pending", kind |-> fut[s].kind,
                                        gen |-> next_generation, src |-> None]]
        /\ fut[s].st = "created" /\ fut[s].gen = 0 /\ fut[s].kind \in OpKind
        /\ waker' = [waker EXCEPT ![s] = t] /\ awaiting' = [awaiting EXCEPT ![s] = t]
        /\ UNCHANGED <<retired, send_retention, strong, notified, platVars, req, cb>>
    BY <1>2 DEF FirstPoll, CInv, Types, FutureInv, Future, Generation
  <2>2. /\ \A x \in Side \ {s} : fut'[x] = fut[x]
        /\ fut'[s].st = "claimed" /\ fut'[s].gen = g /\ fut'[s].kind = fut[s].kind
        /\ (fut'[s].body <=> fut[s].body)
        /\ fut' \in [Side -> Future]
    <3>1. fut' = [fut EXCEPT ![s].st = "claimed", ![s].gen = next_generation]
      BY <1>2 DEF FirstPoll
    <3>2. fut'[s] = [fut[s] EXCEPT !.st = "claimed", !.gen = next_generation]
      BY <3>1 DEF CInv, Types
    <3>3. fut'[s] \in Future
      <4>1. fut[s] \in Future /\ next_generation \in Generation
        BY DEF CInv, Types
      <4> QED
        BY <3>2, <4>1 DEF Future
    <3> QED
      BY <3>1, <3>2, <3>3 DEF CInv, Types, Future
  <2>3. /\ \A x \in Side \ {s} : slot'[x] = slot[x]
        /\ slot'[s].st = "Pending" /\ slot'[s].gen = g /\ slot'[s].kind = fut[s].kind
        /\ slot' \in [Side -> Slot]
    BY <2>1, ContextAssumption DEF CInv, Types, Slot, Generation
  <2>4. Types'
    BY <2>1, <2>2, <2>3, ContextAssumption DEF CInv, Types, Generation, platVars
  <2>5. g # 0
    BY DEF CInv, Types
  <2>6. FutureInv(s)'
    BY <2>1, <2>2, <2>3 DEF CInv, FutureInv, OwnsBuffer
  <2>7. SlotInv(s)' /\ Distinct'
    BY <2>1, <2>2, <2>3, <2>5 DEF CInv, Types, SlotInv, Distinct, OwnsBuffer, Side, Slot,
       Generation
  <2>8. BodyInv'
    BY <2>1, <2>2 DEF CInv, BodyInv, Failed, Side, platVars
  <2> QED
    <3>1. /\ next_generation' >= next_generation /\ retired \subseteq retired'
          /\ slot[s].st \notin {"Pending", "Abandoned"}
          /\ \A x \in Side \ {s} : waker'[x] = waker[x] /\ awaiting'[x] = awaiting[x]
      BY <1>2, <2>1 DEF CInv, Types
    <3>2. UNCHANGED <<platVars, req, cb>>
      BY <2>1
    <3> QED
      BY <2>2, <2>3, <2>4, <2>6, <2>7, <2>8, <3>1, <3>2, FutureKeeps
<1> QED
  BY <1>1, <1>2

LEMMA CheckKeeps ==
    ASSUME CInv, NEW s \in Side, NEW t \in Tasks, Check(s, t)
    PROVE  CInv'
<1>0. fut[s].st \in {"accepted", "pending"} /\ UNCHANGED <<platVars, req, cb>>
      /\ UNCHANGED <<next_generation, retired, send_retention>>
  BY DEF Check
<1>1. notified' \in [Side -> SUBSET Tasks]
  BY DEF Check, CInv, Types
<1>2. CASE slot[s].st = "Complete" /\ slot[s].gen = fut[s].gen
  <2>1. slot' = [slot EXCEPT ![s] = IdleSlot] /\ UNCHANGED <<waker, awaiting>>
    BY <1>2 DEF Check
  <2>2. /\ \A x \in Side \ {s} : fut'[x] = fut[x] /\ slot'[x] = slot[x]
        /\ fut'[s].st = "resolved" /\ fut'[s].gen = fut[s].gen /\ fut'[s].kind = fut[s].kind
        /\ (fut'[s].body <=> fut[s].body)
        /\ slot'[s] = IdleSlot
        /\ fut' \in [Side -> Future] /\ slot' \in [Side -> Slot]
    <3>1. fut' = [fut EXCEPT ![s].st = "resolved"]
      BY <1>2 DEF Check
    <3> QED
      BY <2>1, <3>1, ConstantTypes DEF CInv, Types, Future
  <2>3. Types'
    BY <1>0, <1>1, <2>1, <2>2 DEF CInv, Types, platVars
  <2>4. FutureInv(s)' /\ SlotInv(s)'
    BY <1>0, <2>1, <2>2 DEF CInv, FutureInv, SlotInv, OwnsBuffer, IdleSlot
  <2>5. Distinct' /\ BodyInv'
    BY <1>0, <2>1, <2>2 DEF CInv, Distinct, BodyInv, Failed, Side, IdleSlot, platVars
  <2>6. next_generation' >= next_generation /\ retired \subseteq retired'
    BY <1>0 DEF CInv, Types, Generation
  <2>7. slot[s].st \notin {"Pending", "Abandoned"}
    BY <1>2
  <2>8. \A x \in Side \ {s} : waker'[x] = waker[x] /\ awaiting'[x] = awaiting[x]
    BY <2>1
  <2> QED
    BY <1>0, <2>2, <2>3, <2>4, <2>5, <2>6, <2>7, <2>8, FutureKeeps
<1>3. CASE ~(slot[s].st = "Complete" /\ slot[s].gen = fut[s].gen)
  <2>1. /\ slot' = slot
        /\ waker' = [waker EXCEPT ![s] = t] /\ awaiting' = [awaiting EXCEPT ![s] = t]
    BY <1>3 DEF Check
  <2>2. /\ \A x \in Side \ {s} : fut'[x] = fut[x]
        /\ fut'[s].st = "pending" /\ fut'[s].gen = fut[s].gen /\ fut'[s].kind = fut[s].kind
        /\ (fut'[s].body <=> fut[s].body)
        /\ fut' \in [Side -> Future]
    <3>1. fut' = [fut EXCEPT ![s].st = "pending"]
      BY <1>3 DEF Check
    <3> QED
      BY <3>1 DEF CInv, Types, Future
  <2>3. Types'
    BY <1>0, <1>1, <2>1, <2>2 DEF CInv, Types, platVars
  <2>4. FutureInv(s)' /\ SlotInv(s)'
    BY <1>0, <2>1, <2>2 DEF CInv, Types, FutureInv, SlotInv, OwnsBuffer
  <2>5. Distinct' /\ BodyInv'
    BY <1>0, <2>1, <2>2 DEF CInv, Distinct, BodyInv, Failed, Side, platVars
  <2>6. next_generation' >= next_generation /\ retired \subseteq retired'
    BY <1>0 DEF CInv, Types, Generation
  <2>7. \A x \in Side \ {s} : waker'[x] = waker[x] /\ awaiting'[x] = awaiting[x]
    BY <2>1 DEF CInv, Types
  <2>8. slot'[s] = slot[s] /\ \A x \in Side \ {s} : slot'[x] = slot[x]
    BY <2>1
  <2> QED
    BY <1>0, <2>2, <2>3, <2>4, <2>5, <2>6, <2>7, <2>8, FutureKeeps
<1> QED
  BY <1>2, <1>3

LEMMA DropKeeps ==
    ASSUME CInv, NEW s \in Side, Drop(s)
    PROVE  CInv'
<1> DEFINE mine == fut[s].gen # 0 /\ slot[s].gen = fut[s].gen
           parks == mine /\ slot[s].st = "Pending"
<1>1. /\ fut[s].st \in {"created", "pending", "resolved"}
      /\ fut[s].st = "created" => fut[s].gen = 0
      /\ fut[s].st # "created" => ~fut[s].body
      /\ UNCHANGED <<platVars, req, cb>>
      /\ UNCHANGED <<next_generation, waker, send_retention, awaiting, notified>>
  BY DEF Drop, CInv, FutureInv
<1>2. /\ \A x \in Side \ {s} : fut'[x] = fut[x] /\ slot'[x] = slot[x]
      /\ fut'[s] = NoFuture /\ fut' \in [Side -> Future]
  BY ConstantTypes DEF Drop, CInv, Types
<1>3. /\ retired \subseteq retired'
      /\ parks /\ Buffered(fut[s].kind) => fut[s].gen \in retired'
  BY DEF Drop, CInv, SlotInv, OwnsBuffer
<1>4. \/ /\ parks /\ slot'[s].st = "Abandoned" /\ slot'[s].kind = slot[s].kind
         /\ slot'[s].gen = slot[s].gen /\ slot'[s] \in Slot
      \/ /\ mine /\ slot[s].st = "Complete" /\ slot'[s] = IdleSlot
      \/ /\ slot'[s] = slot[s] /\ ~parks
  <2>1. slot \in [Side -> Slot] /\ slot[s] \in Slot
    BY DEF CInv, Types
  <2>2. slot'[s] = IF parks THEN [slot[s] EXCEPT !.st = "Abandoned"]
                   ELSE IF mine /\ slot[s].st = "Complete" THEN IdleSlot ELSE slot[s]
    BY <2>1 DEF Drop
  <2>3. [slot[s] EXCEPT !.st = "Abandoned"].st = "Abandoned"
        /\ [slot[s] EXCEPT !.st = "Abandoned"].kind = slot[s].kind
        /\ [slot[s] EXCEPT !.st = "Abandoned"].gen = slot[s].gen
        /\ [slot[s] EXCEPT !.st = "Abandoned"] \in Slot
    BY <2>1 DEF Slot
  <2> QED
    BY <2>2, <2>3
<1>5. slot' \in [Side -> Slot]
  BY <1>2, <1>4, ConstantTypes DEF Drop, CInv, Types
<1>6. Types'
  BY <1>1, <1>2, <1>5 DEF CInv, Types, platVars
<1>7. slot[s].st = "Pending" => parks /\ slot[s].kind = fut[s].kind
  <2>1. slot[s].st = "Pending" =>
            /\ slot[s].gen = fut[s].gen /\ slot[s].kind = fut[s].kind
            /\ slot[s].gen \in 1..(next_generation - 1)
    BY DEF CInv, FutureInv, SlotInv
  <2> QED
    BY <2>1
<1> HIDE DEF parks
<1>8. FutureInv(s)'
  BY <1>2 DEF FutureInv, NoFuture, OwnsBuffer
<1>9. SlotInv(s)'
  <2>1. parks => slot[s].st = "Pending"
    BY DEF parks
  <2> QED
    BY <1>1, <1>2, <1>4, <1>7, <2>1 DEF CInv, SlotInv, IdleSlot, OwnsBuffer
<1>10. Distinct' /\ BodyInv'
  BY <1>1, <1>2, <1>4, <1>7 DEF CInv, Distinct, BodyInv, Failed, Side, IdleSlot, NoFuture,
     platVars, parks
<1>11. parks => slot[s].st = "Pending" /\ slot[s].gen = fut[s].gen
  BY DEF parks
<1>12. slot[s].st \in {"Pending", "Abandoned"} =>
          /\ slot'[s].st = "Abandoned"
          /\ slot'[s].kind = slot[s].kind /\ slot'[s].gen = slot[s].gen
          /\ Buffered(slot[s].kind) => slot[s].st = "Abandoned" \/ slot[s].gen \in retired'
  BY <1>3, <1>4, <1>7, <1>11
<1>13. /\ next_generation' >= next_generation
       /\ \A x \in Side \ {s} : waker'[x] = waker[x] /\ awaiting'[x] = awaiting[x]
       /\ fut'[s].st \notin {"claimed", "failed"}
  BY <1>1, <1>2 DEF CInv, Types, Generation, NoFuture
<1>14. UNCHANGED <<platVars, req, cb>>
  BY <1>1
<1> QED
  BY <1>2, <1>3, <1>6, <1>8, <1>9, <1>10, <1>12, <1>13, <1>14, FutureKeeps

\* WinHTTP accepts the operation, and uses its buffer from then on.
LEMMA SubmitAcceptedKeeps ==
    ASSUME CInv, NEW s \in Side, SubmitAccepted(s)
    PROVE  CInv'
<1>0. /\ fut' \in [Side -> Future] /\ \A x \in Side \ {s} : fut'[x] = fut[x]
      /\ fut'[s].st = "accepted" /\ fut'[s].kind = fut[s].kind
      /\ fut'[s].gen = fut[s].gen /\ (fut'[s].body <=> fut[s].body)
  BY DEF CInv, Types, SubmitAccepted, Future, Generation
<1>1. Types'
  <2>1. plat' \in [Side -> {None} \cup [kind : OpKind, gen : Generation]]
    BY DEF CInv, Types, SubmitAccepted, Future
  <2>2. phase' \in {"opened", "sent", "received", "failed"}
    BY DEF CInv, Types, SubmitAccepted
  <2> QED
    BY <1>0, <2>1, <2>2 DEF CInv, Types, SubmitAccepted, contextVars
<1>2. ASSUME NEW x \in Side PROVE FutureInv(x)'
  <2>1. CASE x = s
    BY <1>0, <2>1 DEF CInv, Types, FutureInv, SlotInv, SubmitAccepted, Accepts, contextVars,
       futureVars, platVars, Slot, IdleSlot, OwnsBuffer, Failed
  <2>2. CASE x # s
    BY <1>0, <2>2 DEF CInv, Types, FutureInv, SubmitAccepted, Accepts, contextVars,
       futureVars, platVars, OwnsBuffer, Failed
  <2> QED
    BY <2>1, <2>2
<1>3. ASSUME NEW x \in Side PROVE SlotInv(x)'
  BY <1>0 DEF CInv, Types, FutureInv, SlotInv, SubmitAccepted, Accepts, contextVars,
     futureVars, platVars, Slot, IdleSlot, NoFuture, OwnsBuffer, Side, Generation
<1>4. ASSUME NEW x \in Side PROVE PlatInv(x)'
  BY <1>0 DEF CInv, Types, FutureInv, SlotInv, PlatInv, HasSlot, SubmitAccepted, Accepts,
     contextVars, futureVars, platVars, Slot, Future, IdleSlot, NoFuture, OwnsBuffer, Failed,
     Side, SideOf, Buffered
<1>5. Distinct'
  BY <1>0 DEF CInv, Types, SlotInv, Distinct, SubmitAccepted, Accepts, contextVars,
     futureVars, platVars, Slot, IdleSlot, Side, Generation
<1>6. BodyInv'
  <2>1. ~Failed /\ ~Failed'
    BY DEF CInv, Types, SubmitAccepted, Accepts, Failed, Future, OpKind
  <2>2. \A g \in bodies : g \in send_retention \/ (fut["Write"].gen = g /\ fut["Write"].body)
    BY DEF CInv, BodyInv
  <2>3. fut'["Write"].gen = fut["Write"].gen /\ (fut'["Write"].body <=> fut["Write"].body)
    BY <1>0 DEF Side
  <2>4. CASE fut[s].kind = "Send"
    <3>1. s = "Write" /\ fut[s].body /\ fut[s].gen # 0 /\ bodies' = bodies \cup {fut[s].gen}
      BY <2>4 DEF CInv, Types, FutureInv, SlotInv, SubmitAccepted, SideOf, OwnsBuffer, Slot,
         Generation
    <3> QED
      BY <2>1, <2>2, <2>3, <3>1 DEF CInv, BodyInv, SubmitAccepted, contextVars
  <2>5. CASE fut[s].kind # "Send"
    BY <2>1, <2>2, <2>3, <2>5 DEF CInv, BodyInv, SubmitAccepted, contextVars
  <2> QED
    BY <2>4, <2>5
<1>7. NotesInv'
  BY <1>0 DEF CInv, Types, FutureInv, SlotInv, PlatInv, HasSlot, NotesInv, Ordered, Owed,
     Follows, SubmitAccepted, Accepts, contextVars, futureVars, platVars, Slot, Future,
     IdleSlot, NoFuture, Failed, Side, SideOf
<1>8. CallbackInv'
  BY <1>0 DEF CInv, Types, FutureInv, SlotInv, PlatInv, HasSlot, NotesInv, CallbackInv, Owed,
     Follows, SubmitAccepted, Accepts, contextVars, futureVars, platVars, Slot, Future,
     IdleSlot, NoFuture, Failed, Side, SideOf
<1> QED
  BY <1>1, <1>2, <1>3, <1>4, <1>5, <1>6, <1>7, <1>8 DEF CInv

----------------------------------------------------------------------------
(* The callback.                                                           *)

LEMMA TakeWakersType ==
    ASSUME Types, NEW S \in SUBSET Side, TakeWakers(S)
    PROVE  /\ waker' \in [Side -> Tasks \cup {None}]
           /\ \A x \in Side : waker'[x] = IF x \in S THEN None ELSE waker[x]
           /\ cb' \in [st : {"idle", "entered", "released", "recorded"}, note : Note,
                       wakers : SUBSET Tasks]
           /\ cb'.st = "recorded"
           /\ cb'.wakers = {waker[s] : s \in S} \ {None}
<1>1. {waker[s] : s \in S} \ {None} \in SUBSET Tasks
  BY DEF Types
<1>2. cb' = [cb EXCEPT !.st = "recorded", !.wakers = {waker[s] : s \in S} \ {None}]
  BY DEF TakeWakers
<1>3. waker' = [x \in Side |-> IF x \in S THEN None ELSE waker[x]]
  BY DEF TakeWakers
<1> HIDE DEF TakeWakers
<1>4. /\ waker' \in [Side -> Tasks \cup {None}]
      /\ \A x \in Side : waker'[x] = IF x \in S THEN None ELSE waker[x]
  BY <1>3 DEF Types
<1> QED
  BY <1>1, <1>2, <1>4 DEF Types

LEMMA ClosingKeeps ==
    ASSUME CInv, Closing
    PROVE  CInv'
<1>1. /\ cb.st = "released" /\ TakeWakers(Side) /\ send_retention' = {} /\ retired' = {}
      /\ UNCHANGED <<next_generation, slot, strong, futureVars, platVars, req>>
  BY DEF Closing
<1>2. Failed /\ req \in {"closed", "dropped"} /\ cb'.st = "recorded"
  BY <1>1, TakeWakersType DEF CInv, CallbackInv
<1>3. Types'
  BY <1>1, TakeWakersType DEF CInv, Types, futureVars, platVars
<1>4. ASSUME NEW x \in Side PROVE FutureInv(x)' /\ SlotInv(x)'
  <2>1. fut[x].st = "none"
    BY <1>2 DEF CInv, FutureInv
  <2> QED
    BY <1>1, <2>1 DEF CInv, FutureInv, SlotInv, OwnsBuffer, Failed, futureVars, platVars
<1>5. ASSUME NEW x \in Side PROVE PlatInv(x)'
  BY <1>1, <1>2 DEF CInv, PlatInv, platVars
<1>6. Distinct' /\ BodyInv'
  BY <1>1, <1>2 DEF CInv, Distinct, BodyInv, Failed, futureVars, platVars
<1>7. NotesInv' /\ CallbackInv'
  BY <1>1, <1>2 DEF CInv, NotesInv, CallbackInv, Owed, HasSlot, Failed, futureVars, platVars
<1> QED
  BY <1>3, <1>4, <1>5, <1>6, <1>7 DEF CInv

\* A completion goes to the slot of its own operation.
LEMMA RecordKeeps ==
    ASSUME CInv, Record
    PROVE  CInv'
<1> DEFINE n == cb.note
<1>0. PICK s \in Side : s = SideOf(n.kind)
  BY DEF Side, SideOf
<1>1. /\ cb.st = "entered" /\ n.status = "done" /\ n \in Note
      /\ UNCHANGED <<next_generation, strong, futureVars, platVars, req>>
  BY DEF Record, CInv, Types
<1>2. /\ slot[s].st \in {"Pending", "Abandoned"} /\ slot[s].kind = n.kind /\ slot[s].gen = n.gen
      /\ fut[s].st \notin {"claimed", "failed"} /\ plat[s] = None
      /\ n.kind = "ReceiveResponse" => bodies = {}
  BY <1>0, <1>1 DEF CInv, CallbackInv, Owed, HasSlot
<1>3. /\ slot' = [slot EXCEPT ![s] = Completed(s, n.gen)]
      /\ retired' = IF slot[s].st = "Abandoned" THEN retired \ {slot[s].gen} ELSE retired
      /\ TakeWakers({s})
      /\ send_retention' = IF n.kind = "ReceiveResponse" THEN {} ELSE send_retention
  BY <1>0, <1>1, <1>2 DEF Record
<1>4. /\ \A x \in Side \ {s} : slot'[x] = slot[x] /\ waker'[x] = waker[x]
      /\ slot'[s] = Completed(s, n.gen) /\ cb'.st = "recorded"
  BY <1>3, TakeWakersType DEF CInv, Types
<1>5. \/ /\ slot[s].st = "Pending" /\ slot'[s].st = "Complete" /\ slot'[s].kind = slot[s].kind
         /\ slot'[s].gen = slot[s].gen /\ slot'[s].src = slot[s].gen /\ slot'[s] \in Slot
      \/ /\ slot[s].st = "Abandoned" /\ slot'[s] = IdleSlot /\ slot'[s] \in Slot
  <2>1. CASE slot[s].st = "Pending"
    <3>1. slot'[s] = [slot[s] EXCEPT !.st = "Complete", !.src = slot[s].gen]
      BY <1>2, <1>4, <2>1 DEF Completed
    <3>2. slot[s] \in Slot
      BY DEF CInv, Types
    <3> QED
      BY <2>1, <3>1, <3>2 DEF Slot
  <2>2. CASE slot[s].st = "Abandoned"
    BY <1>4, <2>2, ConstantTypes DEF Completed
  <2> QED
    BY <1>2, <2>1, <2>2
<1> HIDE DEF n
<1>6. Types'
  <2>1. slot' \in [Side -> Slot]
    BY <1>3, <1>4, <1>5 DEF CInv, Types
  <2> QED
    BY <1>1, <1>3, <2>1, TakeWakersType DEF CInv, Types, futureVars, platVars
<1>7. ASSUME NEW x \in Side PROVE FutureInv(x)'
  <2>1. CASE x = s
    BY <1>1, <1>2, <1>5, <2>1 DEF CInv, FutureInv, SlotInv, OwnsBuffer, futureVars
  <2>2. CASE x # s
    BY <1>1, <1>4, <2>2 DEF CInv, FutureInv, OwnsBuffer, Failed, futureVars, platVars
  <2> QED
    BY <2>1, <2>2
<1>8. ASSUME NEW x \in Side PROVE SlotInv(x)'
  <2>1. CASE x = s
    BY <1>1, <1>5, <2>1 DEF CInv, SlotInv, IdleSlot
  <2>2. CASE x # s
    BY <1>1, <1>4, <2>2 DEF CInv, SlotInv, OwnsBuffer, futureVars
  <2> QED
    BY <2>1, <2>2
<1>9. ASSUME NEW x \in Side, plat[x] # None PROVE PlatInv(x)'
  <2>1. x # s
    BY <1>2, <1>9
  <2>2. slot[x].st # "Idle" /\ slot[x].gen = plat[x].gen /\ SideOf(plat[x].kind) = x
    BY <1>9 DEF CInv, PlatInv, HasSlot
  <2>3. slot[x].gen # slot[s].gen
    BY <1>2, <2>1, <2>2 DEF CInv, Distinct, Side
  <2>4. HasSlot(plat[x].kind, plat[x].gen)' /\ plat' = plat
    BY <1>1, <1>4, <1>9, <2>1, <2>2 DEF CInv, PlatInv, HasSlot, futureVars, platVars
  <2> QED
    BY <1>1, <1>3, <1>4, <1>9, <2>1, <2>2, <2>3, <2>4
       DEF CInv, PlatInv, Failed, platVars
<1>10. ASSUME NEW x \in Side PROVE PlatInv(x)'
  BY <1>1, <1>9 DEF PlatInv, platVars
<1>11. Distinct'
  BY <1>4, <1>5 DEF CInv, Distinct, IdleSlot, Side
<1>12. BodyInv'
  BY <1>1, <1>2, <1>3 DEF CInv, BodyInv, Failed, futureVars, platVars
<1>13. NotesInv'
  <2>1. ASSUME NEW i \in 1..Len(notes) PROVE Owed(notes[i])'
    <3>1. Owed(notes[i]) /\ Follows(n, notes[i])
      BY <1>1 DEF CInv, NotesInv, CallbackInv, n
    <3>2. notes[i] \in Note
      BY DEF CInv, Types
    <3>3. PICK m \in Note : m = notes[i]
      BY <3>2
    <3>4. m.status = "done" => SideOf(m.kind) # s /\ SideOf(m.kind) \in Side
      BY <1>0, <3>1, <3>3 DEF Follows, SideOf, Side
    <3>5. Owed(m)'
      BY <1>1, <1>4, <3>1, <3>3, <3>4 DEF Owed, HasSlot, Failed, futureVars, platVars
    <3> QED
      BY <1>1, <3>3, <3>5 DEF platVars
  <2> QED
    BY <1>1, <2>1 DEF CInv, NotesInv, platVars
<1>14. CallbackInv'
  BY <1>1, <1>4 DEF CInv, CallbackInv
<1> QED
  BY <1>6, <1>7, <1>8, <1>10, <1>11, <1>12, <1>13, <1>14 DEF CInv

\* An error ends both operations; nothing else is on its way.
LEMMA RecordErrorKeeps ==
    ASSUME CInv, RecordError
    PROVE  CInv'
<1> DEFINE S == {s \in Side : slot[s].st \in {"Pending", "Abandoned"}}
<1>1. /\ cb.st = "entered" /\ cb.note.status = "error" /\ send_retention' = {}
      /\ TakeWakers(S) /\ S \in SUBSET Side
      /\ slot' = [s \in Side |-> Completed(s, None)]
      /\ UNCHANGED <<next_generation, strong, futureVars, platVars, req>>
  BY DEF RecordError
<1>2. Failed /\ \A i \in 1..Len(notes) : notes[i].status # "done"
  BY <1>1 DEF CInv, CallbackInv, Owed, Follows
<1>3. \A x \in Side : waker'[x] = IF x \in S THEN None ELSE waker[x]
  BY <1>1, TakeWakersType DEF CInv
<1>4. ASSUME NEW x \in Side
      PROVE  \/ /\ slot[x].st = "Pending" /\ slot'[x].st = "Complete" /\ slot'[x].src = None
                /\ slot'[x].kind = slot[x].kind /\ slot'[x].gen = slot[x].gen
                /\ slot'[x] \in Slot
             \/ slot[x].st = "Abandoned" /\ slot'[x] = IdleSlot /\ slot'[x] \in Slot
             \/ slot[x].st \in {"Idle", "Complete"} /\ slot'[x] = slot[x] /\ slot'[x] \in Slot
  BY <1>1, ConstantTypes DEF Completed, CInv, Types, Slot
<1>5. Types'
  <2>1. slot' \in [Side -> Slot]
    BY <1>1, <1>4
  <2>2. /\ waker' \in [Side -> Tasks \cup {None}]
        /\ cb' \in [st : {"idle", "entered", "released", "recorded"}, note : Note,
                    wakers : SUBSET Tasks]
        /\ cb'.st = "recorded"
    BY <1>1, TakeWakersType DEF CInv
  <2> QED
    BY <1>1, <2>1, <2>2 DEF CInv, Types, futureVars, platVars
<1>6. cb'.st = "recorded"
  BY <1>1, TakeWakersType DEF CInv
<1> HIDE DEF S
<1>7. ASSUME NEW x \in Side PROVE FutureInv(x)'
  BY <1>1, <1>2, <1>4 DEF CInv, FutureInv, OwnsBuffer, Failed, IdleSlot, futureVars, platVars
<1>8. ASSUME NEW x \in Side PROVE SlotInv(x)'
  BY <1>1, <1>3, <1>4 DEF CInv, SlotInv, IdleSlot
<1>9. ASSUME NEW x \in Side PROVE PlatInv(x)'
  BY <1>1, <1>2 DEF CInv, PlatInv, platVars
<1>10. Distinct'
  BY <1>4 DEF CInv, Distinct, IdleSlot, Side
<1>11. BodyInv'
  BY <1>1, <1>2 DEF CInv, BodyInv, Failed, platVars
<1>12. NotesInv'
  BY <1>1, <1>2 DEF CInv, NotesInv, Owed, Failed, platVars
<1>13. CallbackInv'
  BY <1>1, <1>6 DEF CInv, CallbackInv
<1> QED
  BY <1>5, <1>7, <1>8, <1>9, <1>10, <1>11, <1>12, <1>13 DEF CInv

\* A callback begins with the oldest notification.
LEMMA EnterKeeps ==
    ASSUME CInv, Enter
    PROVE  CInv'
<1>1. /\ cb.st = "idle" /\ notes # <<>> /\ notes' = Tail(notes)
      /\ cb' = [st |-> "entered", note |-> Head(notes), wakers |-> {}]
      /\ UNCHANGED <<next_generation, slot, waker, retired, send_retention,
                     futureVars, plat, bodies, phase, req>>
  BY DEF Enter
<1>2. /\ notes \in Seq(Note) /\ Len(notes) >= 1 /\ Head(notes) = notes[1]
      /\ notes' \in Seq(Note) /\ Len(notes') = Len(notes) - 1
      /\ \A i \in 1..Len(notes') : notes'[i] = notes[i + 1] /\ i + 1 \in 1..Len(notes)
  BY <1>1 DEF CInv, Types
<1>3. cb'.st = "entered" /\ cb'.note = notes[1] /\ notes[1] \in Note
  BY <1>1, <1>2
<1>4. Types'
  BY <1>1, <1>2, <1>3 DEF CInv, Types, futureVars
<1>5. ASSUME NEW x \in Side PROVE FutureInv(x)' /\ SlotInv(x)' /\ PlatInv(x)'
  BY <1>1 DEF CInv, FutureInv, SlotInv, PlatInv, HasSlot, OwnsBuffer, Failed, futureVars
<1>6. Distinct' /\ BodyInv'
  BY <1>1 DEF CInv, Distinct, BodyInv, Failed, futureVars
<1>7. ASSUME NEW m, Owed(m) PROVE Owed(m)'
  BY <1>1, <1>7 DEF Owed, HasSlot, Failed, futureVars
<1>8. NotesInv'
  <2>2. ASSUME NEW i \in 1..Len(notes') PROVE Owed(notes[i])'
    <3>1. PICK m : m = notes[i + 1]
      OBVIOUS
    <3>2. Owed(m)' /\ notes'[i] = m
      BY <1>2, <1>7, <3>1 DEF CInv, NotesInv
    <3> QED
      BY <3>2
  <2>3. Ordered(notes')
    BY <1>2 DEF CInv, NotesInv, Ordered
  <2> QED
    BY <2>2, <2>3 DEF NotesInv
<1>9. CallbackInv'
  <2>1. Owed(notes[1]) /\ \A i \in 1..Len(notes') : Follows(notes[1], notes'[i])
    BY <1>2 DEF CInv, NotesInv, Ordered
  <2>2. Owed(cb.note)'
    <3>1. PICK m : m = notes[1]
      OBVIOUS
    <3>2. Owed(m)' /\ cb'.note = m
      BY <1>3, <1>7, <2>1, <3>1
    <3> QED
      BY <3>2
  <2>3. req' # "unopened"
    BY <1>1 DEF CInv, CallbackInv
  <2> QED
    BY <1>3, <2>1, <2>2, <2>3 DEF CallbackInv
<1> QED
  BY <1>4, <1>5, <1>6, <1>8, <1>9 DEF CInv

----------------------------------------------------------------------------
(* WinHTTP and the request.                                                *)

\* One notification more, at the end.
LEMMA Joined ==
    ASSUME NEW q \in Seq(Note), NEW n \in Note
    PROVE  q \o <<n>> = Append(q, n) /\ Append(q, n) \in Seq(Note) /\ q \o <<>> = q
OBVIOUS

LEMMA Appended ==
    ASSUME NEW q \in Seq(Note), NEW n \in Note, Ordered(q),
           \A i \in 1..Len(q) : Follows(q[i], n)
    PROVE  /\ Append(q, n) \in Seq(Note) /\ Ordered(Append(q, n))
           /\ Len(Append(q, n)) = Len(q) + 1
           /\ \A i \in 1..Len(q) : Append(q, n)[i] = q[i]
           /\ Append(q, n)[Len(q) + 1] = n
BY DEF Ordered

\* WinHTTP adds the notification n, and nothing the futures see changes.
LEMMA NoteKeeps ==
    ASSUME CInv, NEW n \in Note, notes' = Append(notes, n),
           UNCHANGED <<contextVars, futureVars, req, cb>>,
           Types',
           \A x \in Side : PlatInv(x)', BodyInv',
           Failed => Failed',
           n.status # "closing", Owed(n)',
           \A m \in Note : Owed(m) => Owed(m)',
           \A m \in Note : Owed(m) => Follows(m, n),
           req # "unopened"
    PROVE  CInv'
<1>1. /\ notes \in Seq(Note) /\ \A i \in 1..Len(notes) : notes[i] \in Note /\ Owed(notes[i])
      /\ Ordered(notes)
  BY DEF CInv, Types, NotesInv
<1>2. \A i \in 1..Len(notes) : Follows(notes[i], n)
  BY <1>1
<1>3. /\ Ordered(notes') /\ Len(notes') = Len(notes) + 1 /\ Len(notes) \in Nat
      /\ \A i \in 1..Len(notes) : notes'[i] = notes[i]
      /\ notes'[Len(notes) + 1] = n
  BY <1>1, <1>2, Appended
<1>4. ASSUME NEW i \in 1..Len(notes') PROVE i \in 1..Len(notes) \/ notes'[i] = n
  BY <1>3
<1>5. NotesInv'
  <2>1. ASSUME NEW i \in 1..Len(notes') PROVE Owed(notes[i])'
    <3>1. PICK m : m = notes'[i]
      OBVIOUS
    <3>2. Owed(m)'
      BY <1>1, <1>3, <1>4, <3>1
    <3> QED
      BY <3>1, <3>2
  <2> QED
    BY <1>3, <2>1 DEF NotesInv
<1>6. CallbackInv'
  <2>1. cb.note \in Note /\ cb' = cb
    BY DEF CInv, Types
  <2>2. ASSUME cb.st = "entered"
        PROVE  Owed(cb.note)' /\ \A i \in 1..Len(notes') : Follows(cb.note, notes'[i])
    <3>1. Owed(cb.note) /\ \A i \in 1..Len(notes) : Follows(cb.note, notes[i])
      BY <2>2 DEF CInv, CallbackInv
    <3>2. PICK m \in Note : m = cb.note
      BY <2>1
    <3>3. Owed(m)' /\ Follows(m, n)
      BY <3>1, <3>2
    <3> QED
      BY <1>3, <1>4, <2>1, <3>1, <3>2, <3>3
  <2> QED
    BY <2>1, <2>2 DEF CInv, CallbackInv
<1>7. ASSUME NEW x \in Side PROVE FutureInv(x)' /\ SlotInv(x)'
  BY DEF CInv, FutureInv, SlotInv, OwnsBuffer, contextVars, futureVars
<1>8. Distinct'
  BY DEF CInv, Distinct, contextVars
<1> QED
  BY <1>5, <1>6, <1>7, <1>8 DEF CInv

LEMMA PlatDoneKeeps ==
    ASSUME CInv, NEW s \in Side, PlatDone(s)
    PROVE  CInv'
<1>0. PICK n : n = [status |-> "done", kind |-> plat[s].kind, gen |-> plat[s].gen]
  OBVIOUS
<1>1. /\ plat[s] # None /\ plat[s].kind \in OpKind /\ plat[s].gen \in Generation
      /\ notes' = Append(notes, n) /\ plat' = [plat EXCEPT ![s] = None]
      /\ UNCHANGED <<contextVars, futureVars, req, cb>>
  BY <1>0 DEF PlatDone, CInv, Types
<1>2. n \in Note /\ n.status = "done" /\ n.kind = plat[s].kind /\ n.gen = plat[s].gen
  BY <1>0, <1>1 DEF Note
<1>3. /\ SideOf(n.kind) = s /\ HasSlot(n.kind, n.gen) /\ ~Failed
  BY <1>1, <1>2 DEF CInv, PlatInv
<1>4. /\ phase' \in {"opened", "sent", "received", "failed"} /\ ~Failed'
      /\ bodies' = IF n.kind = "ReceiveResponse" THEN {} ELSE bodies
  BY <1>1, <1>2, <1>3 DEF PlatDone, Failed, CInv, Types
<1>5. plat'[s] = None /\ \A x \in Side \ {s} : plat'[x] = plat[x]
  BY <1>1 DEF CInv, Types
<1>6. Types'
  <2>1. notes' \in Seq(Note) /\ plat' \in [Side -> {None} \cup [kind : OpKind, gen : Generation]]
    BY <1>1, <1>2 DEF CInv, Types
  <2> QED
    BY <1>1, <1>4, <2>1 DEF CInv, Types, contextVars, futureVars
<1>7. \A x \in Side : PlatInv(x)'
  BY <1>1, <1>4, <1>5 DEF CInv, PlatInv, HasSlot, contextVars, futureVars
<1>8. BodyInv'
  BY <1>1, <1>4 DEF CInv, BodyInv, contextVars, futureVars
<1>9. Owed(n)'
  BY <1>1, <1>2, <1>3, <1>4, <1>5 DEF Owed, HasSlot, contextVars, futureVars
<1>10. ASSUME NEW m \in Note, Owed(m) PROVE Owed(m)' /\ Follows(m, n)
  <2>1. m.status = "done" /\ SideOf(m.kind) # s /\ SideOf(m.kind) \in Side
    BY <1>1, <1>3, <1>10 DEF Owed, Note, SideOf, Side
  <2> QED
    BY <1>1, <1>3, <1>4, <1>5, <1>10, <2>1 DEF Owed, HasSlot, Follows, contextVars, futureVars
<1>11. req # "unopened"
  BY <1>1 DEF CInv, PlatInv
<1> QED
  BY <1>1, <1>2, <1>3, <1>6, <1>7, <1>8, <1>9, <1>10, <1>11, NoteKeeps

\* The request fails: the operations in flight end with it.
LEMMA PlatFailsKeeps ==
    ASSUME CInv, PlatFails
    PROVE  CInv'
<1>0. PICK n : n = [status |-> "error", kind |-> "Send", gen |-> 0]
  OBVIOUS
<1>1. /\ \E s \in Side : plat[s] # None
      /\ notes' = Append(notes, n) /\ plat' = [s \in Side |-> None]
      /\ phase' = "failed" /\ bodies' = {}
      /\ UNCHANGED <<contextVars, futureVars, req, cb>>
  BY <1>0 DEF PlatFails
<1>2. n \in Note /\ n.status = "error"
  BY <1>0, ContextAssumption DEF Note, OpKind, Generation
<1>3. ~Failed /\ req = "open" /\ Failed'
  BY <1>1 DEF CInv, PlatInv, Failed
<1>4. Types'
  <2>1. notes' \in Seq(Note) /\ plat' \in [Side -> {None} \cup [kind : OpKind, gen : Generation]]
    BY <1>1, <1>2 DEF CInv, Types
  <2> QED
    BY <1>1, <2>1 DEF CInv, Types, contextVars, futureVars
<1>5. BodyInv' /\ \A x \in Side : PlatInv(x)'
  BY <1>1 DEF BodyInv, PlatInv
<1>6. Owed(n)'
  BY <1>2, <1>3 DEF Owed
<1>7. ASSUME NEW m \in Note, Owed(m) PROVE Owed(m)' /\ Follows(m, n)
  <2>1. m.status = "done" /\ SideOf(m.kind) \in Side
    BY <1>3, <1>7 DEF Owed, SideOf, Side
  <2> QED
    BY <1>1, <1>2, <1>7, <2>1 DEF Owed, HasSlot, Follows, contextVars, futureVars
<1> QED
  BY <1>1, <1>2, <1>3, <1>4, <1>5, <1>6, <1>7, NoteKeeps

\* WinHttpCloseHandle: an error for what is in flight, and HANDLE_CLOSING last.
LEMMA CloseKeeps ==
    ASSUME CInv, Close
    PROVE  CInv'
<1>0. PICK e, c : /\ e = [status |-> "error", kind |-> "Send", gen |-> 0]
                  /\ c = [status |-> "closing", kind |-> "Send", gen |-> 0]
  OBVIOUS
<1>1. /\ e \in Note /\ e.status = "error" /\ c \in Note /\ c.status = "closing"
  BY <1>0, ContextAssumption DEF Note, OpKind, Generation
<1>2. /\ req = "open" /\ req' = "closed" /\ plat' = [s \in Side |-> None]
      /\ bodies' = {} /\ phase' = "failed" /\ Failed'
      /\ \A s \in Side : fut[s].st = "none"
      /\ UNCHANGED <<contextVars, futureVars, cb>>
  BY DEF Close, Failed
<1>3. PICK b \in BOOLEAN : b <=> \E s \in Side : plat[s] # None
  OBVIOUS
<1>4. notes \in Seq(Note) /\ Ordered(notes)
      /\ \A i \in 1..Len(notes) : notes[i] \in Note /\ Owed(notes[i])
  BY DEF CInv, Types, NotesInv
<1>5. ASSUME NEW m, Owed(m) PROVE m.status # "closing" /\ (b => m.status = "done")
  BY <1>2, <1>3, <1>5 DEF Owed, CInv, PlatInv
<1>6. PICK q : q = IF b THEN Append(notes, e) ELSE notes
  OBVIOUS
<1>7. notes' = Append(q, c)
  <2>1. notes' = (notes \o (IF b THEN <<e>> ELSE <<>>)) \o <<c>>
    BY <1>0, <1>3 DEF Close
  <2>2. CASE b
    <3>1. notes \o <<e>> = Append(notes, e) /\ Append(notes, e) \in Seq(Note)
      BY <1>1, <1>4, Joined
    <3>2. q = Append(notes, e) /\ notes' = (notes \o <<e>>) \o <<c>>
      BY <1>6, <2>1, <2>2
    <3>3. q \in Seq(Note) /\ notes' = q \o <<c>>
      BY <3>1, <3>2
    <3> QED
      BY <1>1, <3>3, Joined
  <2>3. CASE ~b
    <3>1. q = notes /\ notes' = (notes \o <<>>) \o <<c>>
      BY <1>6, <2>1, <2>3
    <3> QED
      BY <1>1, <1>4, <3>1, Joined
  <2> QED
    BY <2>2, <2>3
<1>8. /\ q \in Seq(Note) /\ Ordered(q) /\ Len(q) \in Nat
      /\ \A i \in 1..Len(q) : q[i] \in Note /\ (q[i] = e \/ Owed(q[i]))
      /\ \A i \in 1..Len(q) : q[i].status # "closing"
  <2>1. CASE b
    <3>1. \A i \in 1..Len(notes) : Follows(notes[i], e)
      BY <1>1, <1>4, <1>5 DEF Follows
    <3>2. /\ q \in Seq(Note) /\ Ordered(q) /\ Len(q) = Len(notes) + 1
          /\ \A i \in 1..Len(notes) : q[i] = notes[i]
          /\ q[Len(notes) + 1] = e
      BY <1>1, <1>4, <1>6, <2>1, <3>1, Appended
    <3>3. ASSUME NEW i \in 1..Len(q)
          PROVE  q[i] \in Note /\ (q[i] = e \/ Owed(q[i])) /\ q[i].status # "closing"
      <4>1. CASE i \in 1..Len(notes)
        BY <1>4, <1>5, <3>2, <4>1
      <4>2. CASE i = Len(notes) + 1
        BY <1>1, <3>2, <4>2
      <4> QED
        BY <1>4, <3>2, <4>1, <4>2
    <3> QED
      BY <3>2, <3>3
  <2>2. CASE ~b
    BY <1>4, <1>5, <1>6, <2>2
  <2> QED
    BY <2>1, <2>2
<1>9. /\ notes' \in Seq(Note) /\ Ordered(notes') /\ Len(notes') = Len(q) + 1
      /\ \A i \in 1..Len(q) : notes'[i] = q[i]
      /\ notes'[Len(q) + 1] = c
  <2>1. \A i \in 1..Len(q) : Follows(q[i], c)
    BY <1>1, <1>8 DEF Follows
  <2> QED
    BY <1>1, <1>7, <1>8, <2>1, Appended
<1>10. /\ Owed(e)' /\ Owed(c)'
       /\ \A m : Owed(m) => Owed(m)'
  <2>1. Owed(e)' /\ Owed(c)'
    BY <1>1, <1>2 DEF Owed
  <2>2. ASSUME NEW m, Owed(m) PROVE Owed(m)'
    BY <1>2, <2>2 DEF Owed, HasSlot, SideOf, Side, contextVars, futureVars
  <2> QED
    BY <2>1, <2>2
<1>11. NotesInv'
  <2>1. ASSUME NEW i \in 1..Len(notes') PROVE Owed(notes[i])'
    <3>1. PICK m : m = notes'[i]
      OBVIOUS
    <3>2. m = c \/ m = e \/ Owed(m)
      BY <1>8, <1>9, <3>1
    <3>3. Owed(m)'
      BY <1>10, <3>2
    <3> QED
      BY <3>1, <3>3
  <2> QED
    BY <1>9, <2>1 DEF NotesInv
<1>12. CallbackInv'
  <2>1. ASSUME cb.st = "entered"
        PROVE  Owed(cb.note)' /\ \A i \in 1..Len(notes') : Follows(cb.note, notes'[i])
    <3>1. PICK m : m = cb.note
      OBVIOUS
    <3>2. Owed(m) /\ \A i \in 1..Len(notes) : Follows(m, notes[i])
      BY <2>1, <3>1 DEF CInv, CallbackInv
    <3>3. Owed(m)' /\ Follows(m, e) /\ Follows(m, c)
      BY <1>1, <1>5, <1>10, <3>2 DEF Follows
    <3>4. \A i \in 1..Len(q) : q[i] = e \/ Follows(m, q[i])
      <4>1. CASE b
        <5>1. /\ Len(q) = Len(notes) + 1 /\ Len(notes) \in Nat
              /\ \A i \in 1..Len(notes) : q[i] = notes[i]
              /\ q[Len(notes) + 1] = e
          BY <1>1, <1>4, <1>6, <4>1
        <5> QED
          BY <3>2, <5>1
      <4>2. CASE ~b
        BY <1>6, <3>2, <4>2
      <4> QED
        BY <4>1, <4>2
    <3>5. \A i \in 1..Len(notes') : Follows(m, notes'[i])
      BY <1>8, <1>9, <3>3, <3>4
    <3> QED
      BY <1>2, <3>1, <3>3, <3>5
  <2> QED
    BY <1>2, <2>1 DEF CInv, CallbackInv
<1>13. Types'
  <2>1. plat' \in [Side -> {None} \cup [kind : OpKind, gen : Generation]]
    BY <1>2
  <2> QED
    BY <1>2, <1>9, <2>1 DEF CInv, Types, contextVars, futureVars
<1>14. ASSUME NEW x \in Side PROVE FutureInv(x)' /\ SlotInv(x)' /\ PlatInv(x)'
  BY <1>2 DEF CInv, FutureInv, SlotInv, PlatInv, OwnsBuffer, contextVars, futureVars
<1>15. Distinct' /\ BodyInv'
  BY <1>2 DEF CInv, Distinct, BodyInv, contextVars
<1> QED
  BY <1>11, <1>12, <1>13, <1>14, <1>15 DEF CInv

----------------------------------------------------------------------------

LEMMA CInvInit == Init => CInv
<1> SUFFICES ASSUME Init PROVE CInv
  OBVIOUS
<1>1. Types
  BY ConstantTypes, ContextAssumption DEF Init, Types, Generation
<1>2. ASSUME NEW s \in Side PROVE FutureInv(s) /\ SlotInv(s) /\ PlatInv(s)
  BY DEF Init, FutureInv, SlotInv, PlatInv, NoFuture, IdleSlot, OwnsBuffer
<1>3. Distinct /\ BodyInv /\ NotesInv /\ CallbackInv
  BY DEF Init, Distinct, BodyInv, NotesInv, Ordered, CallbackInv, Failed, IdleSlot,
     NoCallback, Side
<1> QED
  BY <1>1, <1>2, <1>3 DEF CInv

LEMMA CInvNext == CInv /\ [Next]_vars => CInv'
<1> SUFFICES ASSUME CInv, [Next]_vars PROVE CInv'
  OBVIOUS
<1>1. CASE RequestStep
  BY <1>1, RequestKeeps, CloseKeeps DEF RequestStep
<1>2. ASSUME NEW s \in Side, FutureStep(s) PROVE CInv'
  BY <1>2, CreateKeeps, SubmitAcceptedKeeps, SubmitFailedKeeps, RollbackKeeps, RetainKeeps,
     DropKeeps, FirstPollKeeps, CheckKeeps DEF FutureStep
<1>3. CASE CallbackStep
  BY <1>3, EnterKeeps, RecordKeeps, RecordErrorKeeps, ClosingReleaseKeeps, ClosingKeeps,
     WakeKeeps
     DEF CallbackStep
<1>4. CASE PlatformStep
  BY <1>4, PlatFailsKeeps, PlatDoneKeeps DEF PlatformStep
<1>5. CASE UNCHANGED vars
  BY <1>5 DEF vars, contextVars, futureVars, platVars, CInv, Types, FutureInv, SlotInv, PlatInv,
     HasSlot, OwnsBuffer, Distinct, BodyInv, NotesInv, CallbackInv, Owed, Failed
<1> QED
  BY <1>1, <1>2, <1>3, <1>4, <1>5 DEF Next

LEMMA Kept == Spec => []CInv
BY CInvInit, CInvNext, PTL DEF Spec

LEMMA AliveInside == CInv => BufferAlive /\ RightCompletion
<1> SUFFICES ASSUME CInv PROVE BufferAlive /\ RightCompletion
  OBVIOUS
<1>1. ASSUME NEW s \in Side, plat[s] # None, Buffered(plat[s].kind)
      PROVE  (OwnsBuffer(s) /\ fut[s].gen = plat[s].gen) \/ plat[s].gen \in retired
  BY <1>1 DEF CInv, FutureInv, SlotInv, PlatInv, HasSlot
<1>2. RightCompletion
  BY DEF CInv, SlotInv, RightCompletion
<1> QED
  BY <1>1, <1>2 DEF BufferAlive, CInv, BodyInv

\* A buffer that WinHTTP reads or writes is owned by the future of that very
\* operation or retired in the context, and a send body is retained (ops.rs and
\* Inner::abandon of context.rs).
THEOREM BuffersAlive == Spec => []BufferAlive
BY Kept, AliveInside, PTL

\* Although notifications carry no generation, a future collects the completion
\* of its own operation or a request error (Inner::record of context.rs).
THEOREM OwnCompletion == Spec => []RightCompletion
BY Kept, AliveInside, PTL

----------------------------------------------------------------------------
(* Wake-ups.                                                               *)

\* The result of side s is there and its future does not know.
Unseen(s) == fut[s].st = "pending" /\ slot[s].st = "Complete" /\ slot[s].gen = fut[s].gen
Woken(s) == awaiting[s] \in notified[s] \cup (IF cb.st = "recorded" THEN cb.wakers ELSE {})

LEMMA WakerTaken ==
    ASSUME CInv, Record \/ RecordError, NEW s \in Side, Unseen(s)', ~Unseen(s)
    PROVE  Woken(s)'
<1>1. UNCHANGED futureVars /\ cb.st = "entered"
  BY DEF Record, RecordError
<1>2. slot[s].st = "Pending" /\ fut[s].st = "pending"
  <2>1. /\ fut[s].st = "pending" /\ slot[s].st \in {"Pending", "Complete"}
        /\ slot[s].gen = fut[s].gen
    BY <1>1 DEF CInv, FutureInv, OwnsBuffer, Unseen, futureVars
  <2> QED
    BY <2>1 DEF Unseen
<1>3. waker[s] = awaiting[s] /\ awaiting[s] \in Tasks
  BY <1>2 DEF CInv, SlotInv
<1>4. \E S \in SUBSET Side : TakeWakers(S) /\ s \in S
  <2>1. CASE RecordError
    <3>1. TakeWakers({x \in Side : slot[x].st \in {"Pending", "Abandoned"}})
      BY <2>1 DEF RecordError
    <3> QED
      BY <1>2, <3>1
  <2>2. CASE Record
    <3>1. slot'[s] # slot[s]
      BY <1>2 DEF Unseen
    <3>2. SideOf(cb.note.kind) = s /\ TakeWakers({s})
      BY <2>2, <3>1 DEF Record, CInv, Types, SideOf, Side
    <3> QED
      BY <3>2
  <2> QED
    BY <2>1, <2>2
<1>5. PICK S \in SUBSET Side : TakeWakers(S) /\ s \in S
  BY <1>4
<1>6. cb'.st = "recorded" /\ cb'.wakers = {waker[x] : x \in S} \ {None}
  BY <1>5, TakeWakersType DEF CInv
<1>7. awaiting[s] \in cb'.wakers
  BY <1>3, <1>5, <1>6, ContextAssumption
<1> QED
  BY <1>1, <1>6, <1>7 DEF Woken, futureVars

LEMMA WokenNext ==
    ASSUME CInv, NoLostWakeup, [Next]_vars
    PROVE  NoLostWakeup'
<1> SUFFICES ASSUME NEW s \in Side, Unseen(s)' PROVE Woken(s)'
  BY DEF NoLostWakeup, Unseen, Woken
<1>0. Unseen(s) => Woken(s)
  BY DEF NoLostWakeup, Unseen, Woken
<1>1. CASE RequestStep \/ PlatformStep \/ UNCHANGED vars
  <2>1. UNCHANGED <<slot, fut, awaiting, notified, cb>>
    BY <1>1 DEF RequestStep, Arm, ArmFails, Close, DropContext, PlatformStep, PlatDone,
       PlatFails,
       vars, contextVars, futureVars
  <2> QED
    BY <1>0, <2>1 DEF Unseen, Woken
<1>2. ASSUME NEW x \in Side, FutureStep(x) PROVE Woken(s)'
  <2>0. cb' = cb
    BY <1>2 DEF FutureStep, Create, SubmitAccepted, SubmitFailed, Rollback, Retain, Drop,
       FirstPoll, Check
  <2>1. CASE x # s
    <3>1. /\ fut'[s] = fut[s] /\ slot'[s] = slot[s]
          /\ awaiting'[s] = awaiting[s] /\ notified'[s] = notified[s]
      BY <1>2, <2>1 DEF FutureStep, Create, SubmitAccepted, SubmitFailed, Rollback, Retain,
         Drop,
         FirstPoll, Check, CInv, Types, contextVars
    <3> QED
      BY <1>0, <2>0, <3>1 DEF Unseen, Woken
  <2>2. CASE x = s
    <3>1. CASE Retain(s)
      <4>1. /\ fut'[s].st = fut[s].st /\ fut'[s].gen = fut[s].gen
            /\ UNCHANGED <<slot, awaiting, notified>>
        BY <3>1 DEF Retain, CInv, Types, Future
      <4> QED
        BY <1>0, <2>0, <4>1 DEF Unseen, Woken
    <3>2. ASSUME NEW t \in Tasks, Check(s, t) PROVE Woken(s)'
      <4>1. fut[s].st \in {"accepted", "pending"}
        BY <3>2 DEF Check
      <4>2. slot[s].st = "Complete" /\ slot[s].gen = fut[s].gen => fut'[s].st = "resolved"
        BY <3>2 DEF Check, CInv, Types, Future
      <4>3. ~(slot[s].st = "Complete" /\ slot[s].gen = fut[s].gen) =>
                slot' = slot /\ slot[s].st = "Pending"
        BY <3>2, <4>1 DEF Check, CInv, FutureInv, OwnsBuffer
      <4> QED
        BY <4>2, <4>3 DEF Unseen
    <3>3. CASE \/ Create(s) \/ SubmitAccepted(s) \/ SubmitFailed(s) \/ Rollback(s) \/ Drop(s)
               \/ \E t \in Tasks : FirstPoll(s, t)
      <4>1. fut'[s].st # "pending"
        BY <3>3 DEF Create, SubmitAccepted, SubmitFailed, Rollback, Drop, FirstPoll, CInv,
           Types,
           Future, NoFuture
      <4> QED
        BY <4>1 DEF Unseen
    <3> QED
      BY <1>2, <2>2, <3>1, <3>2, <3>3 DEF FutureStep
  <2> QED
    BY <2>1, <2>2
<1>3. CASE Record \/ RecordError
  <2>1. CASE ~Unseen(s)
    BY <1>3, <2>1, WakerTaken
  <2>2. CASE Unseen(s)
    BY <1>0, <1>3, <2>2 DEF Record, RecordError, Woken, futureVars
  <2> QED
    BY <2>1, <2>2
<1>4. CASE Enter \/ ClosingRelease
  <2>1. cb.st # "recorded" /\ UNCHANGED <<slot, fut, awaiting, notified>>
    BY <1>4 DEF Enter, ClosingRelease, futureVars
  <2> QED
    BY <1>0, <2>1 DEF Unseen, Woken
<1>5. CASE Closing
  <2>1. cb.st = "released" /\ UNCHANGED <<slot, fut, awaiting, notified>>
    BY <1>5 DEF Closing, futureVars
  <2> QED
    BY <1>0, <2>1 DEF Unseen, Woken
<1>6. CASE Wake
  <2>1. /\ UNCHANGED <<slot, fut, awaiting>> /\ cb.st = "recorded"
        /\ notified'[s] = notified[s] \cup cb.wakers
    BY <1>6 DEF Wake
  <2> QED
    BY <1>0, <2>1 DEF Unseen, Woken
<1> QED
  BY <1>1, <1>2, <1>3, <1>4, <1>5, <1>6 DEF Next, CallbackStep

\* A task whose poll saw Pending is woken when its result is there, whether the
\* callback ran inside the call that submitted or later (poll_operation of
\* ops.rs and record of context.rs).
THEOREM TaskWoken == Spec => []NoLostWakeup
<1>1. Init => NoLostWakeup
  BY DEF Init, NoLostWakeup, NoFuture
<1> QED
  BY <1>1, Kept, WokenNext, PTL DEF Spec

----------------------------------------------------------------------------
(* The count.                                                              *)

InNotes == \E i \in 1..Len(notes) : notes[i].status = "closing"
ClosingOwed == req = "open" \/ InNotes \/ (cb.st = "entered" /\ cb.note.status = "closing")
References == One(req \in {"open", "closed"}) + One(ClosingOwed) + One(cb.st # "idle")

LEMMA CountRestated == ContextCount <=> strong = References
BY DEF ContextCount, References, ClosingOwed, InNotes

LEMMA CountNext ==
    ASSUME CInv, strong = References, [Next]_vars
    PROVE  (strong = References)'
<1>1. CASE RequestStep
  <2>1. CASE Arm
    <3>1. req = "unopened" /\ req' = "open" /\ strong' = 2 /\ cb' = cb /\ cb.st = "idle"
      BY <2>1 DEF Arm, CInv, CallbackInv
    <3> QED
      BY <3>1 DEF References, ClosingOwed, One
  <2>2. CASE ArmFails
    BY <2>2 DEF ArmFails, References, ClosingOwed, InNotes, One, contextVars, platVars
  <2>3. CASE Close
    <3>1. req = "open" /\ req' = "closed" /\ cb' = cb /\ strong' = strong
      BY <2>3 DEF Close, contextVars
    <3>2. InNotes'
      <4>1. PICK q \in Seq(Note), c \in Note : c.status = "closing" /\ notes' = q \o <<c>>
        <5>1. PICK b \in BOOLEAN : b <=> \E s \in Side : plat[s] # None
          OBVIOUS
        <5>2. PICK e, c : /\ e = [status |-> "error", kind |-> "Send", gen |-> 0]
                          /\ c = [status |-> "closing", kind |-> "Send", gen |-> 0]
          OBVIOUS
        <5>3. e \in Note /\ c \in Note /\ c.status = "closing"
          BY <5>2, ContextAssumption DEF Note, OpKind, Generation
        <5>4. notes' = (notes \o (IF b THEN <<e>> ELSE <<>>)) \o <<c>>
          BY <2>3, <5>1, <5>2 DEF Close
        <5>5. (IF b THEN <<e>> ELSE <<>>) \in Seq(Note)
          BY <5>3
        <5>6. notes \o (IF b THEN <<e>> ELSE <<>>) \in Seq(Note)
          BY <5>5 DEF CInv, Types
        <5> QED
          BY <5>3, <5>4, <5>6
      <4>2. notes' = Append(q, c)
        BY <4>1, Joined
      <4>3. Len(notes') = Len(q) + 1 /\ Len(q) \in Nat /\ notes'[Len(q) + 1] = c
        BY <4>2
      <4> QED
        BY <4>1, <4>3 DEF InNotes
    <3> QED
      BY <3>1, <3>2 DEF References, ClosingOwed, One
  <2>4. CASE DropContext
    <3>1. req = "closed" /\ req' = "dropped" /\ cb' = cb /\ notes' = notes /\ strong' = strong - 1
      BY <2>4 DEF DropContext, platVars
    <3> QED
      BY <3>1 DEF References, ClosingOwed, InNotes, One
  <2> QED
    BY <1>1, <2>1, <2>2, <2>3, <2>4 DEF RequestStep
<1>2. ASSUME NEW s \in Side, FutureStep(s) PROVE (strong = References)'
  <2>1. UNCHANGED <<strong, req, cb, notes>>
    BY <1>2 DEF FutureStep, Create, SubmitAccepted, SubmitFailed, Rollback, Retain, Drop,
       FirstPoll, Check, contextVars, platVars
  <2> QED
    BY <2>1 DEF References, ClosingOwed, InNotes
<1>3. CASE Enter
  <2>1. /\ cb.st = "idle" /\ notes # <<>> /\ notes' = Tail(notes) /\ strong' = strong + 1
        /\ cb'.st = "entered" /\ cb'.note = Head(notes) /\ req' = req
    BY <1>3 DEF Enter
  <2>2. /\ Len(notes) >= 1 /\ Head(notes) = notes[1] /\ Len(notes) \in Nat
        /\ Len(notes') = Len(notes) - 1
        /\ \A i \in 1..Len(notes') : notes'[i] = notes[i + 1] /\ i + 1 \in 1..Len(notes)
    BY <2>1 DEF CInv, Types
  <2>3. InNotes <=> InNotes' \/ notes[1].status = "closing"
    <3>1. ASSUME InNotes PROVE InNotes' \/ notes[1].status = "closing"
      <4>1. PICK i \in 1..Len(notes) : notes[i].status = "closing"
        BY <3>1 DEF InNotes
      <4>2. CASE i = 1
        BY <4>1, <4>2
      <4>3. CASE i # 1
        <5>1. i - 1 \in 1..Len(notes') /\ notes'[i - 1] = notes[i]
          BY <2>2, <4>3
        <5> QED
          BY <4>1, <5>1 DEF InNotes
      <4> QED
        BY <4>2, <4>3
    <3>2. ASSUME InNotes' \/ notes[1].status = "closing" PROVE InNotes
      BY <2>2, <3>2 DEF InNotes
    <3> QED
      BY <3>1, <3>2
  <2>4. ClosingOwed' <=> ClosingOwed
    BY <2>1, <2>2, <2>3 DEF ClosingOwed
  <2> QED
    BY <2>1, <2>4 DEF References, One
<1>4. CASE Record \/ RecordError \/ Closing
  <2>1. /\ UNCHANGED <<strong, req, notes>>
        /\ cb.st # "idle"
        /\ cb.st = "entered" => cb.note.status # "closing"
    BY <1>4 DEF Record, RecordError, Closing, platVars
  <2>2. cb'.st = "recorded"
    BY <1>4 DEF Record, RecordError, Closing, TakeWakers, CInv, Types
  <2>3. ClosingOwed' <=> ClosingOwed
    BY <2>1, <2>2 DEF ClosingOwed, InNotes
  <2> QED
    BY <2>1, <2>2, <2>3 DEF References, One
<1>5. CASE ClosingRelease
  <2>1. /\ cb.st = "entered" /\ cb.note.status = "closing" /\ cb'.st = "released"
        /\ strong' = strong - 1 /\ UNCHANGED <<notes, req>>
    BY <1>5 DEF ClosingRelease, CInv, Types, platVars
  <2>2. req \in {"closed", "dropped"} /\ ~InNotes /\ ~InNotes'
    BY <2>1 DEF CInv, CallbackInv, Owed, Follows, InNotes
  <2>3. ClosingOwed /\ ~ClosingOwed'
    BY <2>1, <2>2 DEF ClosingOwed
  <2> QED
    BY <2>1, <2>3 DEF References, One
<1>6. CASE Wake
  <2>1. /\ cb.st = "recorded" /\ cb'.st = "idle" /\ strong' = strong - 1
        /\ UNCHANGED <<notes, req>>
    BY <1>6 DEF Wake, NoCallback, platVars
  <2> QED
    BY <2>1 DEF References, ClosingOwed, InNotes, One
<1>7. CASE PlatformStep
  <2>1. PICK n : n.status # "closing" /\ notes' = Append(notes, n)
    BY <1>7 DEF PlatformStep, PlatDone, PlatFails
  <2>2. UNCHANGED <<strong, req, cb>>
    BY <1>7 DEF PlatformStep, PlatDone, PlatFails, contextVars
  <2>3. /\ Len(notes') = Len(notes) + 1 /\ Len(notes) \in Nat
        /\ \A i \in 1..Len(notes) : notes'[i] = notes[i]
        /\ notes'[Len(notes) + 1] = n
    BY <2>1 DEF CInv, Types
  <2>4. \A i \in 1..Len(notes') : i \in 1..Len(notes) \/ notes'[i] = n
    BY <2>3
  <2>5. InNotes' <=> InNotes
    BY <2>1, <2>3, <2>4 DEF InNotes
  <2> QED
    BY <2>2, <2>5 DEF References, ClosingOwed
<1>8. CASE UNCHANGED vars
  BY <1>8 DEF vars, contextVars, platVars, References, ClosingOwed, InNotes
<1> QED
  BY <1>1, <1>2, <1>3, <1>4, <1>5, <1>6, <1>7, <1>8 DEF Next, CallbackStep

\* The request, WinHTTP and a running callback have one reference each, and
\* HANDLE_CLOSING gives WinHTTP's back once (status_callback of context.rs and
\* arm of mod.rs).
THEOREM ContextCounted == Spec => []ContextCount
<1>1. Init => strong = References
  BY DEF Init, References, ClosingOwed, InNotes, NoCallback, One
<1>2. CInv /\ strong = References /\ [Next]_vars => (strong = References)'
  BY CountNext
<1> QED
  BY <1>1, <1>2, Kept, CountRestated, PTL DEF Spec
=============================================================================
