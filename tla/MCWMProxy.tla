----------------------------- MODULE MCWMProxy -----------------------------
(* WMProxy on small instances. *)
EXTENDS WMProxy
=============================================================================
