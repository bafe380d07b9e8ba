-------------------------------- MODULE Copy --------------------------------
(***************************************************************************)
(* What a whole-payload helper (winasio/src/io.rs) promises: it moves the  *)
(* bytes of a source into a sink, in order, none left out and none twice,  *)
(* and says "ok" only when it moved all it was asked for.  The bytes of    *)
(* the source are numbered from 1.                                         *)
(***************************************************************************)
EXTENDS Integers, Sequences

CONSTANT ToTheEnd   \* the goal of a helper that is to copy all there is

VARIABLES
    source,     \* how many bytes the source has offered so far
    over,       \* it offers no more
    goal,       \* how many are wanted
    sink,       \* the bytes that were copied
    verdict     \* "none", "ok" or "failed"

vars == <<source, over, goal, sink, verdict>>

Init ==
    /\ source \in Nat
    /\ over \in BOOLEAN
    /\ goal \in Nat \cup {ToTheEnd}
    /\ sink = <<>>
    /\ verdict = "none"

\* The source offers more and perhaps ends, or ends and takes back what was not
\* copied.
Offer ==
    /\ ~over /\ over' \in BOOLEAN
    /\ source' \in Nat /\ source' >= source
    /\ UNCHANGED <<goal, sink, verdict>>

Withdraw ==
    /\ ~over /\ over' = TRUE
    /\ source' \in Len(sink)..source
    /\ UNCHANGED <<goal, sink, verdict>>

\* The next n bytes are copied.
Move(n) ==
    /\ verdict = "none"
    /\ Len(sink) + n <= source
    /\ sink' = sink \o [i \in 1..n |-> Len(sink) + i]
    /\ UNCHANGED <<source, over, goal, verdict>>

Whole == IF goal = ToTheEnd THEN over /\ Len(sink) = source ELSE Len(sink) = goal

Verdict(v) ==
    /\ verdict = "none"
    /\ v = "ok" => Whole
    /\ verdict' = v
    /\ UNCHANGED <<source, over, goal, sink>>

Next ==
    \/ Offer \/ Withdraw
    \/ \E n \in 1..source : Move(n)
    \/ \E v \in {"ok", "failed"} : Verdict(v)

Spec == Init /\ [][Next]_vars
=============================================================================
