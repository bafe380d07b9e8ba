------------------------------ MODULE MCRawOp ------------------------------
(* RawOp for TLC.                                                          *)
EXTENDS RawOp
=============================================================================
