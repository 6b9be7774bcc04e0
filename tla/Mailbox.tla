------------------------------ MODULE Mailbox ------------------------------
(***************************************************************************)
(* What a job directory promises to the components that talk through it    *)
(* (WMProxy, the replanner and ICE write to the workload manager, the      *)
(* workload manager writes to ICE and to the job controller).  A request   *)
(* becomes visible in one step, is taken by the reader, goes back when the *)
(* reader is restarted, and leaves only when it has been served.  Only     *)
(* where the machine can crash may a request be lost, or come back.        *)
(***************************************************************************)
CONSTANTS Requests,
          Lossy      \* whether the machine can crash

VARIABLE status   \* where each request is

TypeOK == status \in [Requests -> {"unsent", "pending", "taken", "served",
                                  "lost"}]

Init == status = [r \in Requests |-> "unsent"]

Send(r) ==
  /\ status[r] = "unsent"
  /\ status' = [status EXCEPT ![r] = "pending"]

Take(r) ==
  /\ status[r] = "pending"
  /\ status' = [status EXCEPT ![r] = "taken"]

\* The reader restarts: some of what it had taken is offered again.
Requeue ==
  \E S \in SUBSET {r \in Requests : status[r] = "taken"} :
    status' = [r \in Requests |-> IF r \in S THEN "pending" ELSE status[r]]

Serve(r) ==
  /\ status[r] = "taken"
  /\ status' = [status EXCEPT ![r] = "served"]

\* The reader finds an empty file and drops it.
Lose(r) ==
  /\ Lossy
  /\ status[r] = "taken"
  /\ status' = [status EXCEPT ![r] = "lost"]

\* The machine crashes: what was sent is lost or back where it had been.
Rollback ==
  /\ Lossy
  /\ status' \in [Requests -> {"unsent", "pending", "taken", "served", "lost"}]
  /\ \A r \in Requests : status'[r] \in
       IF status[r] = "unsent" THEN {"unsent"}
       ELSE {status[r], "pending", "taken", "lost"}

Next ==
  \/ \E r \in Requests : Send(r) \/ Take(r) \/ Serve(r) \/ Lose(r)
  \/ Requeue
  \/ Rollback

Spec == Init /\ [][Next]_status
=============================================================================
