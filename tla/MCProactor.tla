----------------------------- MODULE MCProactor -----------------------------
(* Proactor for TLC: batches of two packets.                               *)
EXTENDS Proactor, TLC

Symmetry == Permutations(Ops)
=============================================================================
