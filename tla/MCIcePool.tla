----------------------------- MODULE MCIcePool -----------------------------
(* Instances of IcePool for TLC. *)
EXTENDS IcePool

\* Requests 1, 2 and 4 are of one job, requests 3 and 5 of another.
Jobs5 == <<1, 1, 2, 1, 2>>
Jobs2 == <<1, 1>>
Jobs0 == <<>>
=============================================================================
