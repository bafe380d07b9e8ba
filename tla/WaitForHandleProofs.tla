------------------------- MODULE WaitForHandleProofs -------------------------
(***************************************************************************)
(* A wait on a handle posts one packet and releases its context once, for  *)
(* any number of waits.                                                    *)
(***************************************************************************)
EXTENDS WaitForHandle, TLAPS

----------------------------------------------------------------------------
(* The invariant of one wait.                                              *)

\* Nothing was registered, or registering failed.
Unregistered(w) ==
    /\ op[w] = "new" => reg[w] = "none"
    /\ reg[w] = "none" => op[w] \in {"new", "gone"} /\ canceller[w] = "nobody"

\* Who has won post_once: the callback, or a cancellation that has finished.
Winner(w) ==
    /\ posted[w] <=> \/ reg[w] \in {"swapped", "posted", "returned"}
                     \/ reg[w] = "unregistered" /\ canceller[w] = "nobody"
    /\ reg[w] # "lost"

\* A cancellation past unregister is alone, and the callback will not run.
Cancelling(w) ==
    /\ canceller[w] # "nobody" =>
        ~wait[w] /\ op[w] = "started" /\ reg[w] \in {"unregistered", "returned"}
    /\ wait[w] => op[w] = "started" /\ reg[w] # "unregistered"
    /\ op[w] = "operating" => reg[w] # "unregistered"

\* The packet is in the port from the time it is posted until on_complete.
Packet(w) ==
    /\ packets[w] = One(op[w] \in {"operating", "started"} /\ posted[w] /\ reg[w] # "swapped")
    /\ op[w] \in {"completed", "gone"} => reg[w] \in {"none", "posted", "returned", "unregistered"}

Context(w) ==
    ctx[w] = One(op[w] \in {"operating", "started", "completed"})
             + One(\/ reg[w] \in {"waiting", "running", "swapped", "lost", "posted"}
                   \/ reg[w] = "unregistered" /\ canceller[w] # "nobody")

WaitOk(w) == Unregistered(w) /\ Winner(w) /\ Cancelling(w) /\ Packet(w) /\ Context(w)

WaitInv == TypeOK /\ \A w \in Waits : WaitOk(w)

LEMMA WaitInvInit == Init => WaitInv
<1> SUFFICES ASSUME Init PROVE WaitInv
  OBVIOUS
<1>1. TypeOK
  BY DEF Init, TypeOK, Cancellers
<1>2. ASSUME NEW w \in Waits PROVE WaitOk(w)
  BY DEF Init, WaitOk, Unregistered, Winner, Cancelling, Packet, Context, One
<1> QED
  BY <1>1, <1>2 DEF WaitInv

LEMMA OnceInside == WaitInv => OncePerWait
BY DEF WaitInv, TypeOK, WaitOk, Unregistered, Winner, Cancelling, Packet, Context, One,
       OncePerWait, PostedOnce, ContextCount

\* A wait that a step does not touch.
LEMMA Untouched ==
    ASSUME NEW v, WaitOk(v),
           op'[v] = op[v], wait'[v] = wait[v], ctx'[v] = ctx[v], posted'[v] = posted[v],
           packets'[v] = packets[v], canceller'[v] = canceller[v], reg'[v] = reg[v]
    PROVE  WaitOk(v)'
BY DEF WaitOk, Unregistered, Winner, Cancelling, Packet, Context, One

LEMMA RegisterKeeps ==
    ASSUME WaitInv, NEW w \in Waits, Register(w) \/ RegisterFails(w) \/ StoreWait(w)
    PROVE  WaitInv'
<1> USE DEF WaitInv, TypeOK
<1>1. TypeOK'
  <2>1. CASE Register(w)
    BY <2>1 DEF Register
  <2>2. CASE RegisterFails(w)
    BY <2>2 DEF RegisterFails
  <2>3. CASE StoreWait(w)
    BY <2>3 DEF StoreWait
  <2> QED
    BY <2>1, <2>2, <2>3
<1>2. WaitOk(w)'
  BY DEF Register, RegisterFails, StoreWait, WaitOk, Unregistered, Winner, Cancelling, Packet,
         Context, One
<1>3. ASSUME NEW v \in Waits, v # w PROVE WaitOk(v)'
  BY <1>3, Untouched DEF Register, RegisterFails, StoreWait
<1> QED
  BY <1>1, <1>2, <1>3

LEMMA CallbackKeeps ==
    ASSUME WaitInv, NEW w \in Waits,
           CallbackStarts(w) \/ CallbackSwaps(w) \/ CallbackPosts(w) \/ CallbackReturns(w)
    PROVE  WaitInv'
<1> USE DEF WaitInv, TypeOK
<1>1. WaitOk(w)
  OBVIOUS
<1>2. ctx[w] \in Nat /\ (CallbackReturns(w) => ctx[w] >= 1)
  BY DEF CallbackReturns, WaitOk, Context, One
<1>3. TypeOK'
  <2>1. CASE CallbackStarts(w)
    BY <1>2, <2>1 DEF CallbackStarts
  <2>2. CASE CallbackSwaps(w)
    BY <1>2, <2>2 DEF CallbackSwaps
  <2>3. CASE CallbackPosts(w)
    BY <1>2, <2>3 DEF CallbackPosts
  <2>4. CASE CallbackReturns(w)
    BY <1>2, <2>4 DEF CallbackReturns
  <2> QED
    BY <2>1, <2>2, <2>3, <2>4
<1>4. WaitOk(w)'
  <2>1. CASE CallbackStarts(w)
    BY <2>1 DEF CallbackStarts, WaitOk, Unregistered, Winner, Cancelling, Packet, Context, One
  <2>2. CASE CallbackSwaps(w)
    BY <2>2 DEF CallbackSwaps, WaitOk, Unregistered, Winner, Cancelling, Packet, Context, One
  <2>3. CASE CallbackPosts(w)
    BY <2>3 DEF CallbackPosts, WaitOk, Unregistered, Winner, Cancelling, Packet, Context, One
  <2>4. CASE CallbackReturns(w)
    BY <2>4 DEF CallbackReturns, WaitOk, Unregistered, Winner, Cancelling, Packet, Context, One
  <2> QED
    BY <2>1, <2>2, <2>3, <2>4
<1>5. ASSUME NEW v \in Waits, v # w PROVE WaitOk(v)'
  BY <1>5, Untouched DEF CallbackStarts, CallbackSwaps, CallbackPosts, CallbackReturns
<1> QED
  BY <1>3, <1>4, <1>5

LEMMA CancelKeeps ==
    ASSUME WaitInv, NEW w \in Waits,
           CancelPosts(w) \/ \E c \in Cancellers : CancelBegins(w, c)
    PROVE  WaitInv'
<1> USE DEF WaitInv, TypeOK
<1>1. WaitOk(w)
  OBVIOUS
<1>2. ctx[w] \in Nat /\ (CancelPosts(w) /\ ~posted[w] => ctx[w] >= 1)
  BY DEF CancelPosts, WaitOk, Winner, Cancelling, Context, One
<1>3. CASE CancelPosts(w)
  <2>1. TypeOK'
    BY <1>2, <1>3 DEF CancelPosts
  <2>2. WaitOk(w)'
    BY <1>3 DEF CancelPosts, WaitOk, Unregistered, Winner, Cancelling, Packet, Context, One
  <2>3. ASSUME NEW v \in Waits, v # w PROVE WaitOk(v)'
    BY <1>3, <2>3, Untouched DEF CancelPosts
  <2> QED
    BY <2>1, <2>2, <2>3
<1>4. ASSUME NEW c \in Cancellers, CancelBegins(w, c) PROVE WaitInv'
  <2>1. TypeOK'
    BY <1>4 DEF CancelBegins, Unregister, WillNotRun, Quiet
  <2>2. WaitOk(w)'
    BY <1>4 DEF CancelBegins, Unregister, WillNotRun, Quiet, WaitOk, Unregistered, Winner,
                Cancelling, Packet, Context, One, Cancellers
  <2>3. ASSUME NEW v \in Waits, v # w PROVE WaitOk(v)'
    BY <1>4, <2>3, Untouched DEF CancelBegins, Unregister
  <2> QED
    BY <2>1, <2>2, <2>3
<1> QED
  BY <1>3, <1>4

LEMMA EndKeeps ==
    ASSUME WaitInv, NEW w \in Waits, Complete(w) \/ DropOp(w)
    PROVE  WaitInv'
<1> USE DEF WaitInv, TypeOK
<1>1. WaitOk(w)
  OBVIOUS
<1>2. ctx[w] \in Nat /\ (DropOp(w) => ctx[w] >= 1)
  BY DEF DropOp, WaitOk, Context, One
<1>3. TypeOK'
  <2>1. CASE Complete(w)
    BY <1>2, <2>1 DEF Complete, Unregister
  <2>2. CASE DropOp(w)
    BY <1>2, <2>2 DEF DropOp, Unregister
  <2> QED
    BY <2>1, <2>2
<1>4. WaitOk(w)'
  BY DEF Complete, DropOp, Unregister, WaitOk, Unregistered, Winner, Cancelling, Packet, Context,
         One
<1>5. ASSUME NEW v \in Waits, v # w PROVE WaitOk(v)'
  BY <1>5, Untouched DEF Complete, DropOp, Unregister
<1> QED
  BY <1>3, <1>4, <1>5

\* Steps of the future, of the target and of shutdown touch no context.
LEMMA OutsideKeeps ==
    ASSUME WaitInv,
           Signal \/ Shutdown \/ UNCHANGED vars
             \/ \E w \in Waits : DropFuture(w) \/ Resolve(w)
    PROVE  WaitInv'
<1> USE DEF WaitInv
<1>1. TypeOK'
  <2>1. CASE Signal \/ UNCHANGED vars
    BY <2>1 DEF TypeOK, Signal, vars
  <2>2. CASE Shutdown
    BY <2>2 DEF TypeOK, Shutdown, Cancellers
  <2>3. ASSUME NEW w \in Waits, DropFuture(w) \/ Resolve(w) PROVE TypeOK'
    BY <2>3 DEF TypeOK, DropFuture, Resolve, Cancellers
  <2> QED
    BY <2>1, <2>2, <2>3
<1>2. UNCHANGED <<op, wait, ctx, posted, packets, canceller, reg>>
  BY DEF Signal, Shutdown, DropFuture, Resolve, vars
<1> QED
  BY <1>1, <1>2, Untouched

LEMMA WaitInvStep == WaitInv /\ [Next]_vars => WaitInv'
BY RegisterKeeps, CallbackKeeps, CancelKeeps, EndKeeps, OutsideKeeps DEF Next, Runs

\* However the callback, the future's drop and shutdown interleave, the packet
\* of a wait is posted once and the reference leaked to the callback is dropped
\* once (event.rs, post_once and unregister).
THEOREM PostsOnce == Spec => []OncePerWait
BY WaitInvInit, WaitInvStep, OnceInside, PTL DEF Spec
=============================================================================
