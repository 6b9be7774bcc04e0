------------------------------ MODULE MCWMJob ------------------------------
(* WMJob on small instances.                                               *)
EXTENDS WMJob

NoTrouble == [deep |-> 1, shallow |-> 1, faults |-> 0, failures |-> 0,
              crashes |-> 0, cancels |-> 0, replans |-> 0]

\* A job that fails, is resubmitted and may be cancelled; one whose workload
\* manager crashes, and that may be cancelled; two without retries: one that is
\* replanned and may fail, one that is replanned up to the limit and beyond.
Lives == {[NoTrouble EXCEPT !.faults = 1, !.failures = 2, !.cancels = 1],
          [NoTrouble EXCEPT !.crashes = 1, !.cancels = 1],
          [NoTrouble EXCEPT !.deep = 0, !.shallow = 0, !.faults = 1,
                            !.failures = 1, !.replans = 1],
          [NoTrouble EXCEPT !.deep = 0, !.shallow = 0, !.replans = 2]}
=============================================================================
