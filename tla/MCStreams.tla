----------------------------- MODULE MCStreams ------------------------------
(* Transfer, and Stream below it, for TLC.                                 *)
EXTENDS Transfer
=============================================================================
