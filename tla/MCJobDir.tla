------------------------------ MODULE MCJobDir ------------------------------
(* Instances of JobDir for TLC. *)
EXTENDS JobDir, TLC

CONSTANTS w1, w2

\* Two threads with their own ids.
DistinctIds == w1 :> 1 @@ w2 :> 2

=============================================================================
