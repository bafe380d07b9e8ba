-------------------------- MODULE MCWaitForHandle --------------------------
(* WaitForHandle for TLC.                                                  *)
EXTENDS WaitForHandle
=============================================================================
