------------------------------ MODULE MCIceJob ------------------------------
(***************************************************************************)
(* Instances of IceJob for TLC.                                            *)
(***************************************************************************)
EXTENDS IceJob, TLC

\* The event queries are alike.
SymmetricQueries == Permutations(Queries)
=============================================================================
