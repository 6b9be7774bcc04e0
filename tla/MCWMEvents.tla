----------------------------- MODULE MCWMEvents -----------------------------
(* WMEvents on small instances.                                            *)
EXTENDS WMEvents
=============================================================================
