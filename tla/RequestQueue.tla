---------------------------- MODULE RequestQueue ----------------------------
(***************************************************************************)
(* The HTTP.sys listener, winasio/src/httpsys/queue.rs, with the counted   *)
(* queue handle of httpsys/ops/mod.rs: callers that await receive, which   *)
(* retries a request that did not fit at a larger capacity and discards it *)
(* when the retries are used up, callers that send a reply, and close,     *)
(* which runs while they wait.                                             *)
(*                                                                         *)
(* Every operation goes the same way: with_open clones the handle under    *)
(* the read lock, submit takes the lock again and starts the call, and the *)
(* future is awaited.  Whether a call completes inline or by a packet is   *)
(* RawOp's business: here it is in flight until HTTP.sys completes it, and *)
(* the operation, with its clone of the handle, lives until then.          *)
(***************************************************************************)
EXTENDS Integers, FiniteSets

CONSTANTS
    Callers,            \* tasks that receive requests and reply to them
    Requests,           \* requests that clients make
    Need,               \* the capacity each of them needs
    initial_capacity,   \* ReceiveConfig::initial_capacity
    max_retries,        \* ReceiveConfig::max_retries
    MIN_CAPACITY,
    GROWTH_FACTOR,
    MAX_CAPACITY,
    Next_,              \* RequestId::NEXT
    Pool,               \* the backend is the thread pool, not a proactor
    CallersDrop         \* callers may drop a receive or a send that waits

ASSUME QueueAssumption ==
    /\ IsFiniteSet(Callers)
    /\ Callers \cap {"unseen", "queued", "handed", "discarded", "lost"} = {}
    /\ Next_ \notin Requests
    /\ Need \in [Requests -> Nat]
    /\ {initial_capacity, max_retries, MIN_CAPACITY, MAX_CAPACITY} \subseteq Nat
    /\ GROWTH_FACTOR \in Nat \ {0}
    /\ Pool \in BOOLEAN /\ CallersDrop \in BOOLEAN

VARIABLES
    open,       \* RequestQueue::open is Some
    readers,    \* callers that hold its read lock across submit
    strong,     \* strong count of the QueueHandle
    closes,     \* calls of HttpCloseRequestQueue
    closer,     \* where close is
    pc,         \* where a caller is
    kind,       \* the operation it performs
    target,     \* the request it asks for, or Next_
    capacity,   \* receive_id: the capacity of this attempt
    retries,    \* receive_id: the retries made
    outcome,    \* what its last receive returned
    io,         \* HTTP.sys's side of the caller's call
    orphan,     \* callers whose operation was dropped in flight
    cancelled,  \* calls HTTP.sys was asked to cancel
    queued,     \* requests HTTP.sys has queued
    arrived,    \* requests that clients have made
    handed,     \* requests that a receive has returned
    rejected,   \* requests discarded
    lost        \* requests in the buffer of a future that was dropped

lockVars == <<open, readers>>
handleVars == <<strong, closes>>
callVars == <<pc, kind, target, capacity, retries, outcome>>
ioVars == <<io, orphan, cancelled>>
httpVars == <<queued, arrived, handed, rejected, lost>>
vars == <<lockVars, handleVars, closer, callVars, ioVars, httpVars>>

\* The result of a call: the request it is about, or Next_.
Idle == [st |-> "none", req |-> Next_]
InFlight == [st |-> "inflight", req |-> Next_]
Result == [st : {"none", "inflight", "ok", "more_data", "failed"}, req : Requests \cup {Next_}]

NoOutcome == [tag |-> "none", req |-> Next_, discarded |-> FALSE]
Outcome == [tag : {"none", "ok", "too_large", "failed"}, req : Requests \cup {Next_},
            discarded : BOOLEAN]

Larger(m, n) == IF m > n THEN m ELSE n
Smaller(m, n) == IF m < n THEN m ELSE n

TypeOK ==
    /\ open \in BOOLEAN
    /\ readers \in SUBSET Callers
    /\ strong \in Nat
    /\ closes \in Nat
    /\ closer \in {"none", "taken", "cancelled", "dropped", "done"}
    /\ pc \in [Callers -> {"idle", "open", "cloned", "submitting", "awaiting", "got"}]
    /\ kind \in [Callers -> {"receive", "cancel", "send"}]
    /\ target \in [Callers -> Requests \cup {Next_}]
    /\ capacity \in [Callers -> Nat]
    /\ retries \in [Callers -> 0..max_retries]
    /\ outcome \in [Callers -> Outcome]
    /\ io \in [Callers -> Result]
    /\ orphan \in SUBSET Callers
    /\ cancelled \in SUBSET Callers
    /\ {queued, arrived, handed, rejected, lost} \subseteq SUBSET Requests

Init ==
    /\ open = TRUE
    /\ readers = {}
    /\ strong = 1
    /\ closes = 0
    /\ closer = "none"
    /\ pc = [c \in Callers |-> "idle"]
    /\ kind = [c \in Callers |-> "receive"]
    /\ target = [c \in Callers |-> Next_]
    /\ capacity = [c \in Callers |-> 0]
    /\ retries = [c \in Callers |-> 0]
    /\ outcome = [c \in Callers |-> NoOutcome]
    /\ io = [c \in Callers |-> Idle]
    /\ orphan = {}
    /\ cancelled = {}
    /\ queued = {}
    /\ arrived = {}
    /\ handed = {}
    /\ rejected = {}
    /\ lost = {}

----------------------------------------------------------------------------
(* The queue handle: QueueHandle and Owned.                                *)

\* Dropping n clones: the last one closes the queue.
DropClones(n) ==
    /\ strong' = strong - n
    /\ closes' = IF n > 0 /\ strong = n THEN closes + 1 ELSE closes

----------------------------------------------------------------------------
(* Starting an operation.                                                  *)

\* receive or receive_id(NEXT) is called.
Receive(c) ==
    /\ pc[c] = "idle"
    /\ io[c] = Idle
    /\ pc' = [pc EXCEPT ![c] = "open"]
    /\ kind' = [kind EXCEPT ![c] = "receive"]
    /\ target' = [target EXCEPT ![c] = Next_]
    /\ capacity' = [capacity EXCEPT ![c] = Larger(initial_capacity, MIN_CAPACITY)]
    /\ retries' = [retries EXCEPT ![c] = 0]
    /\ outcome' = [outcome EXCEPT ![c] = NoOutcome]
    /\ UNCHANGED <<lockVars, handleVars, closer, ioVars, httpVars>>

\* The caller that got a request replies to it (send, send_body,
\* send_trailers; read_body goes the same way).
Send(c) ==
    /\ pc[c] = "got"
    /\ pc' = [pc EXCEPT ![c] = "open"]
    /\ kind' = [kind EXCEPT ![c] = "send"]
    /\ target' = [target EXCEPT ![c] = outcome[c].req]
    /\ UNCHANGED <<lockVars, handleVars, closer, capacity, retries, outcome, ioVars, httpVars>>

\* The operation could not be started, or failed: receive returns Failed,
\* reject returns an error and so receive TooLarge without having discarded,
\* and send hands the reply back.
Fails(c) ==
    /\ pc' = [pc EXCEPT ![c] = "idle"]
    /\ outcome' = CASE kind[c] = "receive" ->
                         [outcome EXCEPT ![c] = [NoOutcome EXCEPT !.tag = "failed"]]
                    [] kind[c] = "cancel" ->
                         [outcome EXCEPT ![c] = [tag |-> "too_large", req |-> target[c],
                                                 discarded |-> FALSE]]
                    [] kind[c] = "send" -> outcome
    /\ UNCHANGED <<kind, target, capacity, retries>>

\* The clones of the handle that end with the operation: the operation's own,
\* and while reject runs the one of the receive before it.
Clones(c) == IF kind[c] = "cancel" THEN 2 ELSE 1

\* with_open.
WithOpen(c) ==
    /\ pc[c] = "open"
    /\ IF open
       THEN /\ strong' = strong + 1
            /\ pc' = [pc EXCEPT ![c] = "cloned"]
            /\ UNCHANGED <<closes, kind, target, capacity, retries, outcome>>
       ELSE /\ Fails(c)
            /\ DropClones(Clones(c) - 1)
    /\ UNCHANGED <<lockVars, closer, ioVars, httpVars>>

\* Mutant of Submit: the lock is not held while the call is started.
SubmitUnlocked(c) ==
    /\ pc[c] = "cloned"
    /\ IF open
       THEN /\ pc' = [pc EXCEPT ![c] = "submitting"]
            /\ UNCHANGED <<handleVars, kind, target, capacity, retries, outcome>>
       ELSE /\ Fails(c)
            /\ DropClones(Clones(c))
    /\ UNCHANGED <<lockVars, closer, ioVars, httpVars>>

\* submit takes the read lock and finds the queue open or not.
Submit(c) ==
    /\ pc[c] = "cloned"
    /\ IF open
       THEN /\ readers' = readers \cup {c}
            /\ pc' = [pc EXCEPT ![c] = "submitting"]
            /\ UNCHANGED <<handleVars, kind, target, capacity, retries, outcome>>
       ELSE /\ Fails(c)
            /\ DropClones(Clones(c))
            /\ UNCHANGED readers
    /\ UNCHANGED <<open, closer, ioVars, httpVars>>

\* The backend's submit starts the call, and the lock is released.
Operate(c) ==
    /\ pc[c] = "submitting"
    /\ readers' = readers \ {c}
    /\ io' = [io EXCEPT ![c] = InFlight]
    /\ cancelled' = cancelled \ {c}
    /\ pc' = [pc EXCEPT ![c] = "awaiting"]
    /\ UNCHANGED <<open, handleVars, closer, kind, target, capacity, retries, outcome,
                   orphan, httpVars>>

----------------------------------------------------------------------------
(* HTTP.sys (external).                                                    *)

\* A client makes a request.
Arrive(r) ==
    /\ r \notin arrived
    /\ arrived' = arrived \cup {r}
    /\ queued' = queued \cup {r}
    /\ UNCHANGED <<lockVars, handleVars, closer, callVars, ioVars, handed, rejected, lost>>

\* The call of c ends with a result.  A request that does not fit stays
\* queued.  The operation of a dropped future dies with its completion, with
\* whatever is in its buffer.
Ends(c, st, r) ==
    IF c \in orphan
    THEN /\ io' = [io EXCEPT ![c] = Idle]
         /\ orphan' = orphan \ {c}
         /\ DropClones(1)
         /\ lost' = IF kind[c] = "receive" /\ st = "ok" THEN lost \cup {r} ELSE lost
    ELSE /\ io' = [io EXCEPT ![c] = [st |-> st, req |-> r]]
         /\ UNCHANGED <<orphan, handleVars, lost>>

\* HttpReceiveHttpRequest gives a request to c: the one with the identifier
\* asked for, or any.
Delivers(c, r) ==
    /\ io[c] = InFlight
    /\ kind[c] = "receive"
    /\ r \in queued
    /\ target[c] \in {Next_, r}
    /\ IF Need[r] <= capacity[c]
       THEN Ends(c, "ok", r) /\ queued' = queued \ {r}
       ELSE Ends(c, "more_data", r) /\ UNCHANGED queued
    /\ UNCHANGED <<lockVars, closer, callVars, cancelled, arrived, handed, rejected>>

\* HttpCancelHttpRequest discards a queued request.
Discards(c) ==
    /\ io[c] = InFlight
    /\ kind[c] = "cancel"
    /\ target[c] \in queued
    /\ queued' = queued \ {target[c]}
    /\ rejected' = rejected \cup {target[c]}
    /\ Ends(c, "ok", target[c])
    /\ UNCHANGED <<lockVars, closer, callVars, cancelled, arrived, handed>>

\* A send completes.
Sends(c) ==
    /\ io[c] = InFlight
    /\ kind[c] = "send"
    /\ Ends(c, "ok", target[c])
    /\ UNCHANGED <<lockVars, closer, callVars, cancelled, queued, arrived, handed, rejected>>

\* A call fails: it was cancelled, the request asked for is not there (any
\* more), or its connection was lost.
CallFails(c) ==
    /\ io[c] = InFlight
    /\ c \in cancelled \/ target[c] \in Requests \ queued
    /\ Ends(c, "failed", Next_)
    /\ UNCHANGED <<lockVars, closer, callVars, cancelled, queued, arrived, handed, rejected>>

HttpSys(c) == (\E r \in Requests : Delivers(c, r)) \/ Discards(c) \/ Sends(c) \/ CallFails(c)

----------------------------------------------------------------------------
(* The caller goes on when its future resolves.                            *)

Resolved(c) == pc[c] = "awaiting" /\ io[c].st \in {"ok", "more_data", "failed"}

Returns(c, n) ==
    /\ io' = [io EXCEPT ![c] = Idle]
    /\ DropClones(n)
    /\ UNCHANGED <<lockVars, closer, orphan, cancelled, queued, arrived, rejected, lost>>

\* Mutant of ReceiveOk: a request that did not fit is returned as it is.
ReceiveOkPartial(c) ==
    /\ Resolved(c) /\ kind[c] = "receive" /\ io[c].st \in {"ok", "more_data"}
    /\ pc' = [pc EXCEPT ![c] = "got"]
    /\ outcome' = [outcome EXCEPT ![c] = [NoOutcome EXCEPT !.tag = "ok", !.req = io[c].req]]
    /\ handed' = handed \cup {io[c].req}
    /\ Returns(c, 1)
    /\ UNCHANGED <<kind, target, capacity, retries>>

\* receive returns the request.
ReceiveOk(c) ==
    /\ Resolved(c) /\ kind[c] = "receive" /\ io[c].st = "ok"
    /\ pc' = [pc EXCEPT ![c] = "got"]
    /\ outcome' = [outcome EXCEPT ![c] = [NoOutcome EXCEPT !.tag = "ok", !.req = io[c].req]]
    /\ handed' = handed \cup {io[c].req}
    /\ Returns(c, 1)
    /\ UNCHANGED <<kind, target, capacity, retries>>

\* The request did not fit: the loop goes round with a larger buffer and the
\* identifier HTTP.sys filled in.
Retry(c) ==
    /\ Resolved(c) /\ io[c].st = "more_data"
    /\ retries[c] < max_retries
    /\ retries' = [retries EXCEPT ![c] = @ + 1]
    /\ target' = [target EXCEPT ![c] = io[c].req]
    /\ capacity' = [capacity EXCEPT ![c] = Smaller(@ * GROWTH_FACTOR, MAX_CAPACITY)]
    /\ pc' = [pc EXCEPT ![c] = "open"]
    /\ Returns(c, 1)
    /\ UNCHANGED <<kind, outcome, handed>>

\* Mutant of Reject: one retry too few.
RejectEarly(c) ==
    /\ Resolved(c) /\ io[c].st = "more_data"
    /\ retries[c] + 1 >= max_retries
    /\ kind' = [kind EXCEPT ![c] = "cancel"]
    /\ target' = [target EXCEPT ![c] = io[c].req]
    /\ pc' = [pc EXCEPT ![c] = "open"]
    /\ Returns(c, 0)
    /\ UNCHANGED <<capacity, retries, outcome, handed>>

\* Mutant of Reject: discarding is left to the caller.
RejectLeaves(c) ==
    /\ Resolved(c) /\ io[c].st = "more_data"
    /\ retries[c] >= max_retries
    /\ pc' = [pc EXCEPT ![c] = "idle"]
    /\ outcome' = [outcome EXCEPT ![c] = [tag |-> "too_large", req |-> io[c].req,
                                          discarded |-> FALSE]]
    /\ Returns(c, 1)
    /\ UNCHANGED <<kind, target, capacity, retries, handed>>

\* The retries are used up: reject is called, while the operation that failed
\* is still alive.
Reject(c) ==
    /\ Resolved(c) /\ io[c].st = "more_data"
    /\ retries[c] >= max_retries
    /\ kind' = [kind EXCEPT ![c] = "cancel"]
    /\ target' = [target EXCEPT ![c] = io[c].req]
    /\ pc' = [pc EXCEPT ![c] = "open"]
    /\ Returns(c, 0)
    /\ UNCHANGED <<capacity, retries, outcome, handed>>

\* reject succeeded: receive returns TooLarge.
Rejected(c) ==
    /\ Resolved(c) /\ kind[c] = "cancel" /\ io[c].st = "ok"
    /\ pc' = [pc EXCEPT ![c] = "idle"]
    /\ outcome' = [outcome EXCEPT ![c] = [tag |-> "too_large", req |-> target[c],
                                          discarded |-> TRUE]]
    /\ Returns(c, 2)
    /\ UNCHANGED <<kind, target, capacity, retries, handed>>

\* A send has been made.
SendOk(c) ==
    /\ Resolved(c) /\ kind[c] = "send" /\ io[c].st = "ok"
    /\ pc' = [pc EXCEPT ![c] = "idle"]
    /\ Returns(c, 1)
    /\ UNCHANGED <<kind, target, capacity, retries, outcome, handed>>

\* The operation failed.
Failed(c) ==
    /\ Resolved(c) /\ io[c].st = "failed"
    /\ Fails(c)
    /\ Returns(c, Clones(c))
    /\ UNCHANGED handed

\* Mutant of Drop: the operation goes with its future.
DropFrees(c) ==
    /\ CallersDrop
    /\ pc[c] = "awaiting"
    /\ io[c] = InFlight
    /\ pc' = [pc EXCEPT ![c] = "idle"]
    /\ cancelled' = cancelled \cup {c}
    /\ DropClones(Clones(c))
    /\ UNCHANGED <<lockVars, closer, kind, target, capacity, retries, outcome,
                   io, orphan, httpVars>>

\* The caller drops the future it awaits: an operation in flight is cancelled
\* and lives on, and only the clones outside it go.
Drop(c) ==
    /\ CallersDrop
    /\ pc[c] = "awaiting"
    /\ pc' = [pc EXCEPT ![c] = "idle"]
    /\ IF io[c] = InFlight
       THEN /\ orphan' = orphan \cup {c}
            /\ cancelled' = cancelled \cup {c}
            /\ DropClones(Clones(c) - 1)
            /\ UNCHANGED <<io, lost>>
       ELSE /\ io' = [io EXCEPT ![c] = Idle]
            /\ lost' = IF kind[c] = "receive" /\ io[c].st = "ok"
                       THEN lost \cup {io[c].req} ELSE lost
            /\ DropClones(Clones(c))
            /\ UNCHANGED <<orphan, cancelled>>
    /\ UNCHANGED <<lockVars, closer, kind, target, capacity, retries, outcome,
                   queued, arrived, handed, rejected>>

----------------------------------------------------------------------------
(* close, also from Drop for RequestQueue.  A second close finds None and  *)
(* does nothing.                                                           *)

\* Under the write lock the Open is taken.
CloseTakes ==
    /\ open
    /\ readers = {}
    /\ open' = FALSE
    /\ closer' = "taken"
    /\ UNCHANGED <<readers, handleVars, callVars, ioVars, httpVars>>

\* Mutant of CloseCancels: close leaves the cancellation to the submitter.
CloseCancelsNothing ==
    /\ closer = "taken"
    /\ closer' = "cancelled"
    /\ UNCHANGED <<lockVars, handleVars, callVars, ioVars, httpVars>>

\* CancelIoEx on the handle: every call in flight is marked.
CloseCancels ==
    /\ closer = "taken"
    /\ cancelled' = cancelled \cup {c \in Callers : io[c] = InFlight}
    /\ closer' = "cancelled"
    /\ UNCHANGED <<lockVars, handleVars, callVars, io, orphan, httpVars>>

\* drop(io): the pool's registration cancels once more and waits for its
\* callbacks; a proactor's submitter is just let go.
CloseDropsIo ==
    /\ closer = "cancelled"
    /\ Pool => \A c \in Callers : io[c] # InFlight
    /\ closer' = "dropped"
    /\ UNCHANGED <<lockVars, handleVars, callVars, ioVars, httpVars>>

\* QueueHandle::release: the last clone closes, otherwise it is deferred.
CloseReleases ==
    /\ closer = "dropped"
    /\ DropClones(1)
    /\ closer' = "done"
    /\ UNCHANGED <<lockVars, callVars, ioVars, httpVars>>

----------------------------------------------------------------------------

CallerRuns(c) ==
    \/ WithOpen(c) \/ Submit(c) \/ Operate(c)
    \/ ReceiveOk(c) \/ Retry(c) \/ Reject(c) \/ Rejected(c) \/ SendOk(c) \/ Failed(c)

CloseRuns == CloseCancels \/ CloseDropsIo \/ CloseReleases

Next ==
    \/ \E c \in Callers : Receive(c) \/ Send(c) \/ CallerRuns(c) \/ Drop(c) \/ HttpSys(c)
    \/ \E r \in Requests : Arrive(r)
    \/ CloseTakes
    \/ CloseRuns

Spec == Init /\ [][Next]_vars

(***************************************************************************)
(* Fairness.  The code between two awaits runs, and a future that resolved *)
(* is polled; HTTP.sys answers a call that was cancelled or that it can    *)
(* answer; close, once called, goes on; the accept loop receives again,    *)
(* and replies to what it got.  Nobody has to call close.                  *)
(***************************************************************************)
Fairness ==
    /\ \A c \in Callers : /\ WF_vars(CallerRuns(c))
                          /\ WF_vars(HttpSys(c))
                          /\ WF_vars(Receive(c) \/ Send(c))
    /\ WF_vars(CloseRuns)

FairSpec == Spec /\ Fairness

----------------------------------------------------------------------------
(* Properties.                                                             *)

One(p) == IF p THEN 1 ELSE 0

\* The handle's count is exact, over every early return, retry, dropped future
\* and failure: the queue or its close has one reference, every operation from
\* with_open on has one, also when its future was dropped in flight, and a
\* receive that gave up keeps one while it rejects.  HttpCloseRequestQueue is
\* called once, when the last of them goes.
ClosedOnce ==
    LET inCall == {"cloned", "submitting", "awaiting"}
        gaveUp == {c \in Callers : kind[c] = "cancel" /\ pc[c] \in inCall \cup {"open"}}
    IN /\ strong = One(open \/ closer \in {"taken", "cancelled", "dropped"})
                   + Cardinality({c \in Callers : pc[c] \in inCall})
                   + Cardinality(gaveUp) + Cardinality(orphan)
       /\ closes = One(strong = 0)

\* Nobody uses the handle after it was closed, when its value may name another
\* queue: not a call being started, not the cancellation of one in flight, not
\* close's own CancelIoEx nor the one inside the pool's teardown.
HandleAlive ==
    closes > 0 =>
        /\ closer = "done"
        /\ \A c \in Callers : io[c] = Idle /\ pc[c] \notin {"cloned", "submitting"}

\* The count is exact, and no use outlives the handle.
HandleSafe == ClosedOnce /\ HandleAlive

\* Once close has cancelled, no call is in flight that was not cancelled: a
\* receive that raced close is cancelled or never started.
NoneStranded ==
    closer \in {"cancelled", "dropped", "done"} =>
        \A c \in Callers : /\ pc[c] # "submitting"
                          /\ io[c] = InFlight => c \in cancelled

\* Where a request is: with HTTP.sys, in the buffer of a receive, or gone.
Places(r) ==
    {c \in Callers : kind[c] = "receive" /\ io[c].st = "ok" /\ io[c].req = r}
    \cup (IF r \notin arrived THEN {"unseen"} ELSE {})
    \cup (IF r \in queued THEN {"queued"} ELSE {})
    \cup (IF r \in handed THEN {"handed"} ELSE {})
    \cup (IF r \in rejected THEN {"discarded"} ELSE {})
    \cup (IF r \in lost THEN {"lost"} ELSE {})

Del == INSTANCE Delivery WITH place <- [r \in Requests |-> Places(r)]

\* "Several receives may be outstanding on one queue at a time; each resolves
\* to a distinct request": whatever retries, rejections, dropped futures and
\* close do, a request moves as Delivery says, from one place to the next.
DeliversOnce == Del!Spec

\* The capacities of the first n + 1 attempts.
Attempts(n) ==
    LET first == Larger(initial_capacity, MIN_CAPACITY)
    IN {f \in [0..n -> 0..Larger(first, MAX_CAPACITY)] :
            /\ f[0] = first
            /\ \A i \in 1..n : f[i] = Smaller(f[i - 1] * GROWTH_FACTOR, MAX_CAPACITY)}

\* A request that does not fit in the largest buffer the retries allow.
Oversized(r) == \E f \in Attempts(max_retries) : Need[r] > f[max_retries]

\* TooLarge is only ever said of such a request, and with discarded set the
\* request is gone.
TooLargeJustified ==
    \A c \in Callers : outcome[c].tag = "too_large" =>
        /\ Oversized(outcome[c].req)
        /\ outcome[c].discarded => outcome[c].req \in rejected \ queued

\* While the queue is open no request stays queued for ever, and none makes the
\* accept loop spin: it is handed over or discarded, unless receives are
\* dropped again and again.
Cleared ==
    \/ []<><<\E c \in Callers : Drop(c)>>_vars
    \/ \A r \in Requests : r \in queued ~> (r \notin queued \/ ~open)

\* close ends, every receive that waits then returns, and at last the handle
\* is closed.
CloseEnds == closer = "taken" ~> (closes = 1)
=============================================================================
