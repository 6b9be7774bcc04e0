------------------------------- MODULE MCISM -------------------------------
(* ISM on small instances.                                                 *)
EXTENDS ISM
=============================================================================
