--------------------------- MODULE WaitForHandle ---------------------------
(***************************************************************************)
(* Waiting on a signalable handle as an operation of the proactor,         *)
(* winasio/src/iocp/ops/event.rs.  A wait produces no packet of its own:   *)
(* the callback of RegisterWaitForSingleObject posts it when the handle    *)
(* signals, and a cancellation that unregisters the callback has to post   *)
(* it instead.  The two race, and whoever posts accounts for the reference *)
(* to the WaitContext that was leaked to the callback.                     *)
(*                                                                         *)
(* operate, cancel and on_complete run under the mutex of the operation    *)
(* (RawOp); the callback does not.  Waits share one target and one port.   *)
(***************************************************************************)
EXTENDS Integers

CONSTANT Waits      \* the wait operations

VARIABLES
    signalled,  \* the target has been signalled
    op,         \* the WaitForHandle value
    fut,        \* the Submit future of the operation
    wait,       \* WaitForHandle::wait holds a registration
    ctx,        \* strong count of the WaitContext
    posted,     \* WaitContext::posted
    packets,    \* packets of the operation in the port
    canceller,  \* who is inside cancel, past unregister
    tocancel,   \* who still is to call cancel: future's drop, shutdown
    reg,        \* external: the registered wait and its callback
    down        \* the proactor shuts down

vars == <<signalled, op, fut, wait, ctx, posted, packets, canceller, tocancel, reg, down>>

Cancellers == {"drop", "shutdown"}

TypeOK ==
    /\ signalled \in BOOLEAN
    /\ op \in [Waits -> {"new", "operating", "started", "completed", "gone"}]
    /\ fut \in [Waits -> {"none", "alive", "dropped", "resolved"}]
    /\ wait \in [Waits -> BOOLEAN]
    /\ ctx \in [Waits -> Nat]
    /\ posted \in [Waits -> BOOLEAN]
    /\ packets \in [Waits -> Nat]
    /\ canceller \in [Waits -> Cancellers \cup {"nobody"}]
    /\ tocancel \in [Waits -> SUBSET Cancellers]
    /\ reg \in [Waits -> {"none", "waiting", "running", "swapped", "lost", "posted",
                          "returned", "unregistered"}]
    /\ down \in BOOLEAN

Init ==
    /\ signalled = FALSE
    /\ op = [w \in Waits |-> "new"]
    /\ fut = [w \in Waits |-> "none"]
    /\ wait = [w \in Waits |-> FALSE]
    /\ ctx = [w \in Waits |-> 0]
    /\ posted = [w \in Waits |-> FALSE]
    /\ packets = [w \in Waits |-> 0]
    /\ canceller = [w \in Waits |-> "nobody"]
    /\ tocancel = [w \in Waits |-> {}]
    /\ reg = [w \in Waits |-> "none"]
    /\ down = FALSE

----------------------------------------------------------------------------
(* operate.                                                                *)

\* The context gets two references, one leaked to the callback, and the wait
\* is registered.  The callback may run from here on.
Register(w) ==
    /\ ~down
    /\ op[w] = "new"
    /\ op' = [op EXCEPT ![w] = "operating"]
    /\ ctx' = [ctx EXCEPT ![w] = 2]
    /\ posted' = [posted EXCEPT ![w] = FALSE]
    /\ reg' = [reg EXCEPT ![w] = "waiting"]
    /\ UNCHANGED <<signalled, fut, wait, packets, canceller, tocancel, down>>

\* Registering fails: both references are dropped and operate is Ready(Err).
RegisterFails(w) ==
    /\ ~down
    /\ op[w] = "new"
    /\ op' = [op EXCEPT ![w] = "gone"]
    /\ fut' = [fut EXCEPT ![w] = "resolved"]
    /\ UNCHANGED <<signalled, wait, ctx, posted, packets, canceller, tocancel, reg, down>>

\* The registration is stored, and operate returns Pending.
StoreWait(w) ==
    /\ op[w] = "operating"
    /\ wait' = [wait EXCEPT ![w] = TRUE]
    /\ op' = [op EXCEPT ![w] = "started"]
    /\ fut' = [fut EXCEPT ![w] = "alive"]
    /\ UNCHANGED <<signalled, ctx, posted, packets, canceller, tocancel, reg, down>>

----------------------------------------------------------------------------
(* wait_callback, on a pool thread, and the target.                        *)

Signal ==
    /\ ~signalled
    /\ signalled' = TRUE
    /\ UNCHANGED <<op, fut, wait, ctx, posted, packets, canceller, tocancel, reg, down>>

CallbackStarts(w) ==
    /\ signalled
    /\ reg[w] = "waiting"
    /\ reg' = [reg EXCEPT ![w] = "running"]
    /\ UNCHANGED <<signalled, op, fut, wait, ctx, posted, packets, canceller, tocancel, down>>

\* post_once: the exchange,
CallbackSwaps(w) ==
    /\ reg[w] = "running"
    /\ posted' = [posted EXCEPT ![w] = TRUE]
    /\ reg' = [reg EXCEPT ![w] = IF posted[w] THEN "lost" ELSE "swapped"]
    /\ UNCHANGED <<signalled, op, fut, wait, ctx, packets, canceller, tocancel, down>>

\* and PostQueuedCompletionStatus.
CallbackPosts(w) ==
    /\ reg[w] = "swapped"
    /\ packets' = [packets EXCEPT ![w] = @ + 1]
    /\ reg' = [reg EXCEPT ![w] = "posted"]
    /\ UNCHANGED <<signalled, op, fut, wait, ctx, posted, canceller, tocancel, down>>

\* The leaked reference is dropped and the callback returns.
CallbackReturns(w) ==
    /\ reg[w] \in {"posted", "lost"}
    /\ ctx' = [ctx EXCEPT ![w] = @ - 1]
    /\ reg' = [reg EXCEPT ![w] = "returned"]
    /\ UNCHANGED <<signalled, op, fut, wait, posted, packets, canceller, tocancel, down>>

----------------------------------------------------------------------------
(* unregister, cancel and on_complete.                                     *)

\* UnregisterWaitEx (external) succeeds unless the callback is running: before
\* it has started it never will, and after it returned there is nothing left.
Quiet(w) == reg[w] \in {"waiting", "returned", "unregistered"}

\* WaitForHandle::unregister: only the first call reaches Windows.
Unregister(w) ==
    /\ wait' = [wait EXCEPT ![w] = FALSE]
    /\ reg' = [reg EXCEPT ![w] = IF wait[w] /\ @ = "waiting" THEN "unregistered" ELSE @]

\* Its result: the caller may assume that the callback will not run.
WillNotRun(w) == wait[w] /\ Quiet(w)

\* cancel up to unregister.
CancelBegins(w, c) ==
    /\ op[w] \in {"started", "completed"}
    /\ canceller[w] = "nobody"
    /\ c \in tocancel[w]
    /\ tocancel' = [tocancel EXCEPT ![w] = @ \ {c}]
    /\ Unregister(w)
    /\ canceller' = [canceller EXCEPT ![w] = IF WillNotRun(w) THEN c ELSE "nobody"]
    /\ UNCHANGED <<signalled, op, fut, ctx, posted, packets, down>>

\* Mutant of CancelPosts: posts whether or not the callback has.
CancelPostsAlways(w) ==
    /\ canceller[w] # "nobody"
    /\ posted' = [posted EXCEPT ![w] = TRUE]
    /\ packets' = [packets EXCEPT ![w] = @ + 1]
    /\ ctx' = [ctx EXCEPT ![w] = @ - 1]
    /\ canceller' = [canceller EXCEPT ![w] = "nobody"]
    /\ UNCHANGED <<signalled, op, fut, wait, tocancel, reg, down>>

\* The rest of cancel: if it wins post_once it posts the completion and drops
\* the reference the callback would have dropped.
CancelPosts(w) ==
    /\ canceller[w] # "nobody"
    /\ posted' = [posted EXCEPT ![w] = TRUE]
    /\ IF posted[w]
       THEN UNCHANGED <<packets, ctx>>
       ELSE /\ packets' = [packets EXCEPT ![w] = @ + 1]
            /\ ctx' = [ctx EXCEPT ![w] = @ - 1]
    /\ canceller' = [canceller EXCEPT ![w] = "nobody"]
    /\ UNCHANGED <<signalled, op, fut, wait, tocancel, reg, down>>

\* The proactor dispatches a packet of the operation: on_complete.
Complete(w) ==
    /\ packets[w] > 0
    /\ op[w] = "started"
    /\ canceller[w] = "nobody"
    /\ packets' = [packets EXCEPT ![w] = @ - 1]
    /\ op' = [op EXCEPT ![w] = "completed"]
    /\ Unregister(w)
    /\ UNCHANGED <<signalled, fut, ctx, posted, canceller, tocancel, down>>

----------------------------------------------------------------------------
(* The future and the proactor around it.                                  *)

\* Mutant of DropFuture: the wait is not cancelled.
DropFutureForgets(w) ==
    /\ fut[w] = "alive"
    /\ fut' = [fut EXCEPT ![w] = "dropped"]
    /\ UNCHANGED <<signalled, op, wait, ctx, posted, packets, canceller, tocancel, reg, down>>

\* The future is dropped: a cancel follows if the operation is in flight.
DropFuture(w) ==
    /\ fut[w] = "alive"
    /\ fut' = [fut EXCEPT ![w] = "dropped"]
    /\ tocancel' = [tocancel EXCEPT ![w] = IF op[w] = "started" THEN @ \cup {"drop"} ELSE @]
    /\ UNCHANGED <<signalled, op, wait, ctx, posted, packets, canceller, reg, down>>

\* The future takes the result, which is the Ok(0) of the posted packet.
Resolve(w) ==
    /\ fut[w] = "alive"
    /\ op[w] = "completed"
    /\ fut' = [fut EXCEPT ![w] = "resolved"]
    /\ UNCHANGED <<signalled, op, wait, ctx, posted, packets, canceller, tocancel, reg, down>>

\* The operation is dropped, once it completed, its future is done with it and
\* nobody is to cancel it; and with it its reference to the context.
DropOp(w) ==
    /\ op[w] = "completed"
    /\ fut[w] \in {"dropped", "resolved"}
    /\ tocancel[w] = {}
    /\ canceller[w] = "nobody"
    /\ op' = [op EXCEPT ![w] = "gone"]
    /\ ctx' = [ctx EXCEPT ![w] = @ - 1]
    /\ UNCHANGED <<signalled, fut, wait, posted, packets, canceller, tocancel, reg, down>>

\* The proactor is dropped: shutdown cancels every pending operation, alive
\* future or not, and drains the packets.
Shutdown ==
    /\ ~down
    /\ \A w \in Waits : op[w] # "operating"
    /\ down' = TRUE
    /\ tocancel' = [w \in Waits |-> IF op[w] = "started"
                                    THEN tocancel[w] \cup {"shutdown"} ELSE tocancel[w]]
    /\ UNCHANGED <<signalled, op, fut, wait, ctx, posted, packets, canceller, reg>>

----------------------------------------------------------------------------

Runs(w) ==
    \/ StoreWait(w) \/ CallbackStarts(w) \/ CallbackSwaps(w) \/ CallbackPosts(w)
    \/ CallbackReturns(w) \/ CancelPosts(w) \/ Complete(w) \/ DropOp(w)
    \/ \E c \in Cancellers : CancelBegins(w, c)

Next ==
    \/ Signal \/ Shutdown
    \/ \E w \in Waits : Register(w) \/ RegisterFails(w) \/ Runs(w)
                        \/ DropFuture(w) \/ Resolve(w)

Spec == Init /\ [][Next]_vars

\* The pool runs its callbacks, the proactor dispatches, a drop that has begun
\* ends.  The target need not ever be signalled.
Fairness == \A w \in Waits : WF_vars(Runs(w))

FairSpec == Spec /\ Fairness

----------------------------------------------------------------------------
(* Properties.                                                             *)

One(p) == IF p THEN 1 ELSE 0

\* The completion is posted exactly once, however the callback and up to two
\* cancellations interleave: at most one packet is in the port, none once the
\* operation has completed, and none before somebody has won the exchange.
PostedOnce ==
    \A w \in Waits : /\ packets[w] <= One(op[w] \in {"operating", "started"} /\ posted[w])
                     /\ op[w] \in {"completed", "gone"} => reg[w] \notin {"waiting", "swapped"}

\* The context has the operation's reference and the callback's, and the
\* latter is dropped by the callback or by the cancellation that replaces it,
\* never by both and never by neither.
ContextCount ==
    \A w \in Waits :
        ctx[w] = One(op[w] \in {"operating", "started", "completed"})
                 + One(\/ reg[w] \in {"waiting", "running", "swapped", "lost", "posted"}
                       \/ reg[w] = "unregistered" /\ canceller[w] # "nobody")

\* Whoever wins, the packet is posted and the reference dropped exactly once.
OncePerWait == PostedOnce /\ ContextCount

\* A wait whose target is signalled, or which somebody cancels, completes; and
\* a dropped wait is released: the operation and its context are freed.
WaitEnds ==
    \A w \in Waits :
        /\ (op[w] = "started" /\ (signalled \/ tocancel[w] # {}))
                ~> (op[w] \in {"completed", "gone"})
        /\ fut[w] = "dropped" ~> (op[w] = "gone" /\ ctx[w] = 0)
=============================================================================
