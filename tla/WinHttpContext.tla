--------------------------- MODULE WinHttpContext ---------------------------
(***************************************************************************)
(* One WinHTTP request: the completion context the awaiting futures share  *)
(* with the status callback (winasio/src/winhttp/context.rs), the futures  *)
(* (winhttp/ops.rs) and the request that owns the handle (winhttp/mod.rs). *)
(*                                                                         *)
(* A request has a write slot and a read slot, each with at most one       *)
(* operation outstanding.  WinHTTP's notifications carry no generation:    *)
(* only the kind of the operation, so what keeps a late completion away    *)
(* from a later operation is that a slot is not reused before the          *)
(* notification of its abandoned operation has arrived.                    *)
(*                                                                         *)
(* External: WinHTTP itself, as the comments and calls of the source use   *)
(* it.  It runs the callbacks of a handle one at a time, possibly inside   *)
(* the call that submits, so a callback may come before the submitting     *)
(* call has returned; an error ends every operation of the handle; and     *)
(* HANDLE_CLOSING is the last notification.                                *)
(***************************************************************************)
EXTENDS Integers, Sequences

CONSTANTS
    Tasks,          \* tasks that poll the futures
    None,           \* no task, no operation
    MaxGeneration   \* bound: how many operations are submitted

ASSUME ContextAssumption == None \notin Tasks /\ MaxGeneration \in Nat

VARIABLES
    next_generation,
    slot,           \* Inner::write and Inner::read
    waker,          \* the waker of each slot
    retired,        \* generations whose buffer is in Inner::retired
    send_retention, \* generations whose body is in Inner::send_retention
    strong,         \* strong count of the RequestContext
    fut,            \* the future of each side
    awaiting,       \* the task its last poll ran in
    notified,       \* tasks woken since they last polled it
    req,            \* the Request value
    cb,             \* the status callback that is running
    plat,           \* external: the operation WinHTTP works on, per side
    bodies,         \* external: send bodies WinHTTP may still read
    phase,          \* external: how far the exchange has come
    notes           \* external: notifications to deliver

contextVars == <<next_generation, slot, waker, retired, send_retention, strong>>
futureVars == <<fut, awaiting, notified>>
platVars == <<plat, bodies, phase, notes>>
vars == <<contextVars, futureVars, platVars, req, cb>>

Side == {"Write", "Read"}
OpKind == {"Send", "Write", "ReceiveResponse", "QueryDataAvailable", "Read"}

\* OpKind::side.
SideOf(kind) == IF kind \in {"Send", "Write"} THEN "Write" ELSE "Read"

\* The operations whose future owns a buffer it gives back or retires.
Buffered(kind) == kind \in {"Write", "Read"}

Generation == 0..(MaxGeneration + 1)

\* src is the generation of the operation whose completion the slot carries,
\* or None for an error; the code has no such field.
Slot == [st : {"Idle", "Pending", "Abandoned", "Complete"}, kind : OpKind,
         gen : Generation, src : Generation \cup {None}]

Future == [st : {"none", "created", "claimed", "accepted", "failed", "pending",
                 "resolved"},
           kind : OpKind, gen : Generation, body : BOOLEAN]

Note == [status : {"done", "error", "closing"}, kind : OpKind, gen : Generation]

TypeOK ==
    /\ next_generation \in Generation
    /\ slot \in [Side -> Slot]
    /\ waker \in [Side -> Tasks \cup {None}]
    /\ retired \in SUBSET Generation
    /\ send_retention \in SUBSET Generation
    /\ strong \in Nat
    /\ fut \in [Side -> Future]
    /\ awaiting \in [Side -> Tasks \cup {None}]
    /\ notified \in [Side -> SUBSET Tasks]
    /\ req \in {"unopened", "open", "closed", "dropped"}
    /\ cb \in [st : {"idle", "entered", "released", "recorded"}, note : Note,
               wakers : SUBSET Tasks]
    /\ plat \in [Side -> {None} \cup [kind : OpKind, gen : Generation]]
    /\ bodies \in SUBSET Generation
    /\ phase \in {"opened", "sent", "received", "failed"}
    /\ notes \in Seq(Note)

AnyNote == [status |-> "closing", kind |-> "Send", gen |-> 0]
IdleSlot == [st |-> "Idle", kind |-> "Send", gen |-> 0, src |-> None]
NoFuture == [st |-> "none", kind |-> "Send", gen |-> 0, body |-> FALSE]
NoCallback == [st |-> "idle", note |-> AnyNote, wakers |-> {}]

Init ==
    /\ next_generation = 1
    /\ slot = [s \in Side |-> IdleSlot]
    /\ waker = [s \in Side |-> None]
    /\ retired = {}
    /\ send_retention = {}
    /\ strong = 0
    /\ fut = [s \in Side |-> NoFuture]
    /\ awaiting = [s \in Side |-> None]
    /\ notified = [s \in Side |-> {}]
    /\ req = "unopened"
    /\ cb = NoCallback
    /\ plat = [s \in Side |-> None]
    /\ bodies = {}
    /\ phase = "opened"
    /\ notes = <<>>

----------------------------------------------------------------------------
(* Request::arm and Drop for Request.                                      *)

\* The context gets two references: the request's and WinHTTP's.
Arm ==
    /\ req = "unopened"
    /\ req' = "open"
    /\ strong' = 2
    /\ UNCHANGED <<next_generation, slot, waker, retired, send_retention,
                   futureVars, platVars, cb>>

\* Setting the context option or the callback fails: WinHTTP's reference is
\* taken back, the handle closed, and the request's reference dropped.  No
\* notification will carry the context.
ArmFails ==
    /\ req = "unopened"
    /\ req' = "dropped"
    /\ UNCHANGED <<contextVars, futureVars, platVars, cb>>

\* The handle field is dropped first: WinHttpCloseHandle.  The futures borrow
\* the request, so there is none.  WinHTTP fails what is in flight, and will
\* deliver HANDLE_CLOSING last.
Close ==
    /\ req = "open"
    /\ \A s \in Side : fut[s].st = "none"
    /\ req' = "closed"
    /\ plat' = [s \in Side |-> None]
    /\ bodies' = {}
    /\ phase' = "failed"
    /\ notes' = notes
          \o (IF \E s \in Side : plat[s] # None
              THEN <<[status |-> "error", kind |-> "Send", gen |-> 0]>> ELSE <<>>)
          \o <<[status |-> "closing", kind |-> "Send", gen |-> 0]>>
    /\ UNCHANGED <<contextVars, futureVars, cb>>

\* The context field is dropped after the handle.
DropContext ==
    /\ req = "closed"
    /\ req' = "dropped"
    /\ strong' = strong - 1
    /\ UNCHANGED <<next_generation, slot, waker, retired, send_retention,
                   futureVars, platVars, cb>>

----------------------------------------------------------------------------
(* The futures.  Each side has at most one: they are made from &mut of the *)
(* request, or of one of the two halves it is split into.                  *)

Create(s) ==
    /\ req = "open"
    /\ fut[s].st = "none"
    /\ \E k \in OpKind :
        /\ SideOf(k) = s
        /\ fut' = [fut EXCEPT ![s] = [st |-> "created", kind |-> k, gen |-> 0,
                                      body |-> k = "Send"]]
    /\ awaiting' = [awaiting EXCEPT ![s] = None]
    /\ notified' = [notified EXCEPT ![s] = {}]
    /\ UNCHANGED <<contextVars, platVars, req, cb>>

\* poll_operation, first poll: a busy slot is refused (OperationInProgress);
\* an idle one is claimed, and the waker is stored before WinHTTP is called.
FirstPoll(s, t) ==
    /\ fut[s].st = "created"
    /\ IF slot[s].st # "Idle"
       THEN /\ fut' = [fut EXCEPT ![s] = NoFuture]
            /\ UNCHANGED <<contextVars, awaiting>>
       ELSE /\ next_generation <= MaxGeneration
            /\ next_generation' = next_generation + 1
            /\ slot' = [slot EXCEPT ![s] = [st |-> "Pending", kind |-> fut[s].kind,
                                            gen |-> next_generation, src |-> None]]
            /\ waker' = [waker EXCEPT ![s] = t]
            /\ awaiting' = [awaiting EXCEPT ![s] = t]
            /\ fut' = [fut EXCEPT ![s].st = "claimed", ![s].gen = next_generation]
            /\ UNCHANGED <<retired, send_retention, strong>>
    /\ UNCHANGED <<notified, platVars, req, cb>>

\* What WinHTTP (external) accepts, and when.  A handle sends again only after
\* the previous exchange is over, its last notification included.
Accepts(kind) ==
    /\ plat[SideOf(kind)] = None
    /\ CASE kind = "Send" -> /\ phase \in {"opened", "received"}
                             /\ plat["Read"] = None
                             /\ notes = <<>>
                             /\ cb.st = "idle"
         [] kind \in {"Write", "ReceiveResponse"} -> phase = "sent"
         [] OTHER -> phase = "received"

\* The call is accepted.  From here on WinHTTP uses the buffer.
SubmitAccepted(s) ==
    /\ fut[s].st = "claimed"
    /\ Accepts(fut[s].kind)
    /\ plat' = [plat EXCEPT ![s] = [kind |-> fut[s].kind, gen |-> fut[s].gen]]
    /\ bodies' = IF fut[s].kind = "Send" THEN bodies \cup {fut[s].gen} ELSE bodies
    /\ phase' = IF fut[s].kind = "Send" THEN "opened" ELSE phase
    /\ fut' = [fut EXCEPT ![s].st = "accepted"]
    /\ UNCHANGED <<contextVars, notes, awaiting, notified, req, cb>>

\* The call fails synchronously.
SubmitFailed(s) ==
    /\ fut[s].st = "claimed"
    /\ fut' = [fut EXCEPT ![s].st = "failed"]
    /\ UNCHANGED <<contextVars, awaiting, notified, platVars, req, cb>>

\* Inner::rollback: only a slot that is still Pending for this generation goes
\* back to Idle.  The poll is Ready with the error and the buffer.
Rollback(s) ==
    /\ fut[s].st = "failed"
    /\ slot' = [slot EXCEPT ![s] = IF @.st = "Pending" /\ @.gen = fut[s].gen
                                   THEN IdleSlot ELSE @]
    /\ fut' = [fut EXCEPT ![s].st = "resolved"]
    /\ UNCHANGED <<next_generation, waker, retired, send_retention, strong,
                   awaiting, notified, platVars, req, cb>>

\* SendRequest::poll moves the body and the headers into the context after
\* poll_operation returned, whatever it returned, once a generation exists.
Retain(s) ==
    /\ fut[s].st \in {"pending", "resolved"}
    /\ fut[s].body
    /\ send_retention' = send_retention \cup {fut[s].gen}
    /\ fut' = [fut EXCEPT ![s].body = FALSE]
    /\ UNCHANGED <<next_generation, slot, waker, retired, strong,
                   awaiting, notified, platVars, req, cb>>

\* Mutant of Check: a later poll does not replace the waker.
CheckKeepsWaker(s, t) ==
    /\ \/ fut[s].st = "accepted" /\ t = awaiting[s]
       \/ fut[s].st = "pending" /\ ~fut[s].body
    /\ IF slot[s].st = "Complete" /\ slot[s].gen = fut[s].gen
       THEN /\ slot' = [slot EXCEPT ![s] = IdleSlot]
            /\ fut' = [fut EXCEPT ![s].st = "resolved"]
            /\ UNCHANGED awaiting
       ELSE /\ awaiting' = [awaiting EXCEPT ![s] = t]
            /\ fut' = [fut EXCEPT ![s].st = "pending"]
            /\ UNCHANGED slot
    /\ notified' = [notified EXCEPT ![s] = IF fut[s].st = "pending" THEN @ \ {t} ELSE @]
    /\ UNCHANGED <<next_generation, waker, retired, send_retention, strong, platVars, req, cb>>

\* The completion check of poll_operation: Inner::take_completion, or the
\* waker is replaced.  It ends the first poll and is all of a later one.
Check(s, t) ==
    /\ \/ fut[s].st = "accepted" /\ t = awaiting[s]
       \/ fut[s].st = "pending" /\ ~fut[s].body
    /\ IF slot[s].st = "Complete" /\ slot[s].gen = fut[s].gen
       THEN /\ slot' = [slot EXCEPT ![s] = IdleSlot]
            /\ fut' = [fut EXCEPT ![s].st = "resolved"]
            /\ UNCHANGED <<waker, awaiting>>
       ELSE /\ waker' = [waker EXCEPT ![s] = t]
            /\ awaiting' = [awaiting EXCEPT ![s] = t]
            /\ fut' = [fut EXCEPT ![s].st = "pending"]
            /\ UNCHANGED slot
    /\ notified' = [notified EXCEPT ![s] = IF fut[s].st = "pending" THEN @ \ {t} ELSE @]
    /\ UNCHANGED <<next_generation, retired, send_retention, strong, platVars, req, cb>>

\* Mutant of Drop: the buffer is freed with the future.
DropFrees(s) ==
    /\ fut[s].st = "created" \/ (fut[s].st \in {"pending", "resolved"} /\ ~fut[s].body)
    /\ slot' = [slot EXCEPT ![s] =
                  IF fut[s].gen # 0 /\ @.gen = fut[s].gen
                  THEN IF @.st = "Pending" THEN [@ EXCEPT !.st = "Abandoned"] ELSE IdleSlot
                  ELSE @]
    /\ fut' = [fut EXCEPT ![s] = NoFuture]
    /\ UNCHANGED <<next_generation, waker, retired, send_retention, strong,
                   awaiting, notified, platVars, req, cb>>

\* Mutant of Drop: the slot of a pending operation is idle again at once.
DropIdles(s) ==
    /\ fut[s].st = "created" \/ (fut[s].st \in {"pending", "resolved"} /\ ~fut[s].body)
    /\ slot' = [slot EXCEPT ![s] =
                  IF fut[s].gen # 0 /\ @.gen = fut[s].gen THEN IdleSlot ELSE @]
    /\ retired' = IF Buffered(fut[s].kind) /\ fut[s].st = "pending"
                  THEN retired \cup {fut[s].gen} ELSE retired
    /\ fut' = [fut EXCEPT ![s] = NoFuture]
    /\ UNCHANGED <<next_generation, waker, send_retention, strong,
                   awaiting, notified, platVars, req, cb>>

\* Drop of a future.  Without a generation nothing was submitted; otherwise
\* Inner::abandon parks a pending slot and retires the buffer, or discards a
\* result that was not collected.
Drop(s) ==
    /\ fut[s].st = "created" \/ (fut[s].st \in {"pending", "resolved"} /\ ~fut[s].body)
    /\ LET mine == fut[s].gen # 0 /\ slot[s].gen = fut[s].gen
           parks == mine /\ slot[s].st = "Pending"
       IN /\ slot' = [slot EXCEPT ![s] =
                        IF parks THEN [@ EXCEPT !.st = "Abandoned"]
                        ELSE IF mine /\ @.st = "Complete" THEN IdleSlot ELSE @]
          /\ retired' = IF parks /\ Buffered(fut[s].kind) /\ fut[s].st = "pending"
                        THEN retired \cup {fut[s].gen} ELSE retired
    /\ fut' = [fut EXCEPT ![s] = NoFuture]
    /\ UNCHANGED <<next_generation, waker, send_retention, strong,
                   awaiting, notified, platVars, req, cb>>

----------------------------------------------------------------------------
(* External: WinHTTP finishes an operation, or fails the whole request.    *)

PlatDone(s) ==
    /\ plat[s] # None
    /\ notes' = Append(notes, [status |-> "done", kind |-> plat[s].kind, gen |-> plat[s].gen])
    /\ plat' = [plat EXCEPT ![s] = None]
    /\ phase' = CASE plat[s].kind = "Send" -> "sent"
                  [] plat[s].kind = "ReceiveResponse" -> "received"
                  [] OTHER -> phase
    /\ bodies' = IF plat[s].kind = "ReceiveResponse" THEN {} ELSE bodies
    /\ UNCHANGED <<contextVars, futureVars, req, cb>>

PlatFails ==
    /\ \E s \in Side : plat[s] # None
    /\ notes' = Append(notes, [status |-> "error", kind |-> "Send", gen |-> 0])
    /\ plat' = [s \in Side |-> None]
    /\ phase' = "failed"
    /\ bodies' = {}
    /\ UNCHANGED <<contextVars, futureVars, req, cb>>

----------------------------------------------------------------------------
(* status_callback and dispatch_callback.                                  *)

\* Mutant of Enter: the callback borrows WinHTTP's reference.
EnterNoClone ==
    /\ cb.st = "idle"
    /\ notes # <<>>
    /\ notes' = Tail(notes)
    /\ cb' = [st |-> "entered", note |-> Head(notes), wakers |-> {}]
    /\ UNCHANGED <<contextVars, futureVars, plat, bodies, phase, req>>

\* The callback takes a reference of its own for the duration of the call.
Enter ==
    /\ cb.st = "idle"
    /\ notes # <<>>
    /\ notes' = Tail(notes)
    /\ cb' = [st |-> "entered", note |-> Head(notes), wakers |-> {}]
    /\ strong' = strong + 1
    /\ UNCHANGED <<next_generation, slot, waker, retired, send_retention,
                   futureVars, plat, bodies, phase, req>>

\* A slot after the completion of an operation: what a waiting future will
\* collect, or Idle if it was abandoned.
Completed(s, src) ==
    CASE slot[s].st = "Pending" -> [slot[s] EXCEPT !.st = "Complete", !.src = src]
      [] slot[s].st = "Abandoned" -> IdleSlot
      [] OTHER -> slot[s]

\* The wakers of the slots in S are taken, to be woken after the unlock.
TakeWakers(S) ==
    /\ waker' = [s \in Side |-> IF s \in S THEN None ELSE waker[s]]
    /\ cb' = [cb EXCEPT !.st = "recorded", !.wakers = {waker[s] : s \in S} \ {None}]

\* record: the completion of the operation of this kind.
Record ==
    /\ cb.st = "entered"
    /\ cb.note.status = "done"
    /\ LET s == SideOf(cb.note.kind)
           matches == slot[s].st \in {"Pending", "Abandoned"} /\ slot[s].kind = cb.note.kind
       IN IF matches
          THEN /\ slot' = [slot EXCEPT ![s] = Completed(s, cb.note.gen)]
               /\ retired' = IF slot[s].st = "Abandoned" THEN retired \ {slot[s].gen}
                             ELSE retired
               /\ TakeWakers({s})
          ELSE UNCHANGED <<slot, retired>> /\ TakeWakers({})
    /\ send_retention' = IF cb.note.kind = "ReceiveResponse" THEN {} ELSE send_retention
    /\ UNCHANGED <<next_generation, strong, futureVars, platVars, req>>

\* Mutant of RecordError: only the write slot fails.
RecordErrorOneSide ==
    /\ cb.st = "entered"
    /\ cb.note.status = "error"
    /\ slot' = [slot EXCEPT !["Write"] = Completed("Write", None)]
    /\ TakeWakers({"Write"})
    /\ send_retention' = {}
    /\ UNCHANGED <<next_generation, retired, strong, futureVars, platVars, req>>

\* record_error: both slots fail, since a request error says not which.
RecordError ==
    /\ cb.st = "entered"
    /\ cb.note.status = "error"
    /\ slot' = [s \in Side |-> Completed(s, None)]
    /\ retired' = retired \ {slot[s].gen : s \in {x \in Side : slot[x].st = "Abandoned"}}
    /\ TakeWakers({s \in Side : slot[s].st \in {"Pending", "Abandoned"}})
    /\ send_retention' = {}
    /\ UNCHANGED <<next_generation, strong, futureVars, platVars, req>>

\* HANDLE_CLOSING: WinHTTP's reference is dropped,
ClosingRelease ==
    /\ cb.st = "entered"
    /\ cb.note.status = "closing"
    /\ strong' = strong - 1
    /\ cb' = [cb EXCEPT !.st = "released"]
    /\ UNCHANGED <<next_generation, slot, waker, retired, send_retention,
                   futureVars, platVars, req>>

\* then everything retained is freed and both wakers are taken.
Closing ==
    /\ cb.st = "released"
    /\ retired' = {}
    /\ send_retention' = {}
    /\ TakeWakers(Side)
    /\ UNCHANGED <<next_generation, slot, strong, futureVars, platVars, req>>

\* The wakers are woken and the callback's reference is dropped.
Wake ==
    /\ cb.st = "recorded"
    /\ notified' = [s \in Side |-> notified[s] \cup cb.wakers]
    /\ cb' = NoCallback
    /\ strong' = strong - 1
    /\ UNCHANGED <<next_generation, slot, waker, retired, send_retention,
                   fut, awaiting, platVars, req>>

----------------------------------------------------------------------------

RequestStep == Arm \/ ArmFails \/ Close \/ DropContext

FutureStep(s) ==
    \/ Create(s) \/ SubmitAccepted(s) \/ SubmitFailed(s) \/ Rollback(s) \/ Retain(s)
    \/ Drop(s)
    \/ \E t \in Tasks : FirstPoll(s, t) \/ Check(s, t)

CallbackStep ==
    Enter \/ Record \/ RecordError \/ ClosingRelease \/ Closing \/ Wake

PlatformStep == PlatFails \/ \E s \in Side : PlatDone(s)

Next == RequestStep \/ (\E s \in Side : FutureStep(s)) \/ CallbackStep \/ PlatformStep

Spec == Init /\ [][Next]_vars

\* Callbacks run, a poll that has begun ends, a woken task polls, and WinHTTP
\* finishes or fails what it accepted (its timeouts see to that).  Nobody has
\* to start an operation, to drop one or to close the request.
Fairness ==
    /\ WF_vars(CallbackStep)
    /\ \A s \in Side :
        /\ WF_vars(SubmitAccepted(s) \/ SubmitFailed(s) \/ Rollback(s) \/ Retain(s))
        /\ WF_vars(fut[s].st = "accepted" /\ Check(s, awaiting[s]))
        /\ WF_vars(awaiting[s] \in notified[s] /\ Check(s, awaiting[s]))
        /\ WF_vars(plat[s] # None /\ (PlatDone(s) \/ PlatFails))

FairSpec == Spec /\ Fairness

----------------------------------------------------------------------------
(* Properties.                                                             *)

One(p) == IF p THEN 1 ELSE 0

\* The future of side s has not resolved, so it still owns its buffer.
OwnsBuffer(s) == fut[s].st \in {"claimed", "accepted", "failed", "pending"}

\* Memory WinHTTP uses is alive.  A buffer it reads or writes is owned by the
\* future of that very generation, or was retired into the context when that
\* future was dropped, and is not freed by the notification of another.  A
\* send body is kept until the response is received, the request failed or the
\* handle closed, although the send completed long before.
BufferAlive ==
    /\ \A s \in Side :
        plat[s] # None /\ Buffered(plat[s].kind) =>
            \/ OwnsBuffer(s) /\ fut[s].gen = plat[s].gen
            \/ plat[s].gen \in retired
    /\ \A g \in bodies :
        g \in send_retention \/ (fut["Write"].gen = g /\ fut["Write"].body)

\* A future collects the completion of its own operation: notifications carry
\* no generation, but none of them reaches a later operation of its kind.
\* (None: a request error, which is everybody's.)
RightCompletion ==
    \A s \in Side : slot[s].st = "Complete" => slot[s].src \in {None, slot[s].gen}

\* A task whose last poll saw Pending although the result is there has been
\* woken or is about to be, inline completions included.
NoLostWakeup ==
    \A s \in Side :
        fut[s].st = "pending" /\ slot[s].st = "Complete" /\ slot[s].gen = fut[s].gen =>
            awaiting[s] \in notified[s] \cup (IF cb.st = "recorded" THEN cb.wakers ELSE {})

\* The context is freed when, and only when, the request, WinHTTP and the
\* running callback have all let go of it; HANDLE_CLOSING releases WinHTTP's
\* reference exactly once.
ContextCount ==
    LET closing(n) == n.status = "closing"
        owedClosing == \/ req = "open"
                       \/ \E i \in 1..Len(notes) : closing(notes[i])
                       \/ cb.st = "entered" /\ closing(cb.note)
    IN strong = One(req \in {"open", "closed"}) + One(owedClosing) + One(cb.st # "idle")

\* A pending operation resolves, or its future is dropped; and a request parked
\* behind an abandoned operation becomes usable again.
SlotsRecover ==
    \A s \in Side :
        /\ fut[s].st = "pending" ~> fut[s].st # "pending"
        /\ slot[s].st = "Abandoned" ~> (slot[s].st = "Idle" \/ req # "open")

\* A dropped request's context is freed, and with it all that it retained.
ContextFreed ==
    (req = "dropped") ~> (strong = 0 /\ retired = {} /\ send_retention = {})

\* Nothing is waited for or kept for ever.
NothingStuck == SlotsRecover /\ ContextFreed
=============================================================================
