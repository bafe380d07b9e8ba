--------------------------- MODULE MCThreadPoolIo ---------------------------
(* ThreadPoolIo for TLC.                                                   *)
EXTENDS ThreadPoolIo
=============================================================================
