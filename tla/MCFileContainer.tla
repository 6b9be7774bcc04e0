---------------------------- MODULE MCFileContainer ----------------------------
(* Instances of FileContainer for TLC. *)
EXTENDS FileContainer
=============================================================================
