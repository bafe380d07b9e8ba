-------------------------- MODULE MCWinHttpContext --------------------------
(* WinHttpContext for TLC.                                                 *)
EXTENDS WinHttpContext, TLC

Symmetry == Permutations(Tasks)
=============================================================================
