-------------------------- MODULE MCRequestQueue --------------------------
(* RequestQueue for TLC: r1 fits at the last retry only, r2 never does.     *)
EXTENDS RequestQueue, TLC

CONSTANTS c1, c2, r1, r2

MCNeed == (r1 :> 5) @@ (r2 :> 9)
=============================================================================
