------------------------------ MODULE Delivery ------------------------------
(***************************************************************************)
(* What an HTTP.sys request queue promises to those who receive from it: a *)
(* request that arrives is in one place at a time, and goes from the       *)
(* kernel's queue to one receive, which hands it to its caller or loses it *)
(* because its future is dropped; or it is discarded.  RequestQueue is     *)
(* shown to implement this; HttpServer is built on it.                     *)
(***************************************************************************)
CONSTANTS
    Requests,
    Callers     \* those who call receive

VARIABLE place  \* the places each request is in

Init == place = [r \in Requests |-> {"unseen"}]

Moves(r, from, to) ==
    /\ place[r] = {from}
    /\ place' = [place EXCEPT ![r] = {to}]

\* A client makes the request.
Arrive(r) == Moves(r, "unseen", "queued")

\* A receive of c completes with it.
Hold(r, c) == Moves(r, "queued", c)

\* That receive returns it.
Hand(r, c) == Moves(r, c, "handed")

\* That receive is dropped instead; or it was when the request came.
Lose(r, c) == Moves(r, c, "lost") \/ Moves(r, "queued", "lost")

\* It is too large, and cancelled.
Discard(r) == Moves(r, "queued", "discarded")

\* A step concerns the request it moves.
Next ==
    \E r \in Requests :
        /\ place'[r] # place[r]
        /\ \/ Arrive(r) \/ Discard(r)
           \/ \E c \in Callers : Hold(r, c) \/ Hand(r, c) \/ Lose(r, c)

Spec == Init /\ [][Next]_place
=============================================================================
