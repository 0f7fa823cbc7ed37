----------------------------- MODULE MCFramedPipe -----------------------------
(***************************************************************************)
(* An instance of FramedPipe for TLC: bytes 0 and 1, so that lengths 1     *)
(* and 2 are valid, 0 and 3 are not, and both bytes of the length matter.  *)
(***************************************************************************)
EXTENDS FramedPipe

Anyone == {"crossover", "foreign"}
=============================================================================
