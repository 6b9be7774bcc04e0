------------------------------- MODULE WMJob -------------------------------
(***************************************************************************)
(* The life of one job with shallow resubmission enabled, sent to a CREAM  *)
(* computing element: the SubmitProcessor and the CancelProcessor of the   *)
(* workload manager, its Replanner, its recovery after a crash, and ICE.   *)
(*                                                                         *)
(* The "really running" token is the protocol that ties them together.  It *)
(* is a file of the job's sandbox directory, named after the number of     *)
(* replans; a copy of the job starts only if it can remove the token it    *)
(* was sent with.  The workload manager and the replanner move the token   *)
(* by renaming it, and tell from its absence that the job has started.     *)
(*                                                                         *)
(* A step ends where the code looks at, or has changed, something that     *)
(* another actor uses: the sandbox, the logging and bookkeeping service    *)
(* (LB), a job directory.                                                  *)
(***************************************************************************)
EXTENDS Integers, FiniteSets, Sequences, SequencesExt

CONSTANTS Limits,      \* what a job may ask for and meet: see JobAssumption
          MaxReplans,  \* max_replans_count()
          Slots        \* request files that exist at a time (bound)

\* The retry counts of a job are min(job_retry_count, max_retry_count) and
\* min(job_shallow_count, max_shallow_count).  The others are bounds: failures
\* of the environment, copies of the job that fail, crashes of the workload
\* manager, jobcancel requests and replans that are begun.
ASSUME JobAssumption ==
  /\ Limits \subseteq [deep : Nat, shallow : Nat, faults : Nat, failures : Nat,
                       crashes : Nat, cancels : Nat, replans : Nat]
  /\ MaxReplans \in Nat /\ Slots \subseteq Nat /\ 1 \in Slots

VARIABLES req,        \* the request files, and the state of their processors
          tokens,     \* numbers n for which the file token_n exists
          tmps,       \* ... and token_n., the temporary name
          sandbox,    \* the job's sandbox directory exists
          ctok,       \* wm_cancel_token exists
          lb,         \* what the LB knows of the job
          rpl,        \* the Replanner, as far as this job is concerned
          out,        \* ICE's input job directory
          copies,     \* the copies of the job on CREAM
          runs,       \* how many of them have started
          up,         \* the workload manager is running
          overwrites, \* jdl::set_replans_count replaces an existing value
          limits,     \* of this job
          faults, crashes, cancels, failures, replans \* how often each has happened

vars == <<req, tokens, tmps, sandbox, ctok, lb, rpl, out, copies, runs, up,
          overwrites, limits, faults, crashes, cancels, failures, replans>>
files  == <<tokens, tmps, sandbox, ctok>>
cream  == <<copies, runs, failures>>
counts == <<up, overwrites, limits, crashes, cancels, replans>>

\* A request: its command, the place of its file, the replans count of the
\* file (n0) and of the JDL in memory (n), the token number found (k), the
\* retry counts read, the checkpoint, how many entries of the event queue
\* refer to it, is_replan, and how often it was delivered to ICE.
NoRequest == [cmd |-> "none", loc |-> "none", pc |-> "idle", n0 |-> 0, n |-> 0,
              k |-> 0, deep |-> 0, shallow |-> 0, limbo |-> FALSE, queued |-> 0,
              rp |-> FALSE, sent |-> 0]

Request(cmd, n) == [NoRequest EXCEPT !.cmd = cmd, !.loc = "new", !.n0 = n, !.n = n]

Init == /\ req = [r \in Slots |-> IF r = 1 THEN Request("jobsubmit", 0)
                                  ELSE NoRequest]
        /\ tokens = {} /\ tmps = {} /\ sandbox = TRUE /\ ctok = FALSE
        /\ lb = [status |-> "submitted", enq |-> "none", done |-> "none",
                 deep |-> 0, shallow |-> 0, aborted |-> FALSE,
                 cancelled |-> FALSE]
        /\ rpl = [pc |-> "idle", tmp |-> FALSE, t |-> 0]
        /\ out = <<>> /\ copies = <<>> /\ runs = 0
        /\ up = TRUE /\ overwrites \in BOOLEAN /\ limits \in Limits
        /\ faults = 0 /\ crashes = 0 /\ cancels = 0 /\ failures = 0 /\ replans = 0

-----------------------------------------------------------------------------
(* What several handlers do.                                               *)

Free == {r \in Slots : req[r].loc = "none"}

\* JobDir::deliver into the workload manager's input, on top of the requests q.
deliver(q, cmd, n) == LET r == CHOOSE s \in Free : \A x \in Free : s <= x
                      IN  [q EXCEPT ![r] = Request(cmd, n)]

Status(s)  == [lb EXCEPT !.status = s]
log_abort  == [lb EXCEPT !.status = "aborted", !.aborted = TRUE]
log_cancelled == [lb EXCEPT !.status = "cancelled", !.cancelled = TRUE]

\* purger::Purger: the sandbox directory goes, with everything in it.
Purge == /\ sandbox' = FALSE /\ ctok' = FALSE
         /\ tokens' = {} /\ tmps' = {}

\* The end of a processor.  The destructor of its state removes the file,
\* unless the event queue still refers to it.
Left(x) == IF x.queued = 0 THEN NoRequest
           ELSE [x EXCEPT !.pc = "queued", !.queued = @ - 1, !.k = 0,
                          !.rp = FALSE, !.deep = 0, !.shallow = 0]
End(r) == req' = [req EXCEPT ![r] = Left(@)]

\* postpone(): log_pending and schedule_at.
Postponed(x) == Left([x EXCEPT !.queued = @ + 1])
Postpone(r) == /\ req' = [req EXCEPT ![r] = Postponed(@)]
               /\ lb' = Status("waiting")

\* unrecoverable(): log_abort, and the cancel token is removed.
Unrecoverable(r) == /\ lb' = log_abort /\ ctok' = FALSE /\ End(r)

Fault == faults < limits.faults /\ faults' = faults + 1

At(r, p) == up /\ req[r].pc = p

\* in_limbo() on the status and the last events of the LB.
in_limbo == /\ lb.enq = "start"
            /\ \/ lb.status = "ready"
               \/ lb.status = "done" /\ lb.done = "failed"

\* The names in the sandbox that the token's regular expression matches.
Names == {<<FALSE, n>> : n \in tokens} \cup {<<TRUE, n>> : n \in tmps}

-----------------------------------------------------------------------------
(* Dispatch: a file of new/ becomes an event.                              *)

Dequeue(r) ==
  /\ up /\ req[r].loc = "new"
  /\ req' = [req EXCEPT ![r].loc = "old", ![r].pc = "queued"]
  /\ IF req[r].cmd = "jobcancel"
     THEN ctok' = sandbox /\ UNCHANGED lb      \* the constructor of CancelState
     ELSE lb' = Status("waiting") /\ UNCHANGED ctok
  /\ UNCHANGED <<tokens, tmps, sandbox, rpl, out, cream, counts, faults>>

-----------------------------------------------------------------------------
(* SubmitProcessor::operator() for a single job.                           *)

IsSubmission(r) == req[r].cmd \in {"jobsubmit", "jobresubmit"}

\* The proxy is missing, invalid or expired, or the request has expired.
ProxyExpired(r) == /\ At(r, "queued") /\ IsSubmission(r) /\ Fault
                   /\ Unrecoverable(r)
                   /\ UNCHANGED <<tokens, tmps, sandbox, rpl, out, cream, counts>>

\* The test for the limbo, what a resubmission reads from the LB, the test for
\* the cancel token.  A request that has to wait in limbo is postponed, and
\* then handled all the same.
Begin(r) ==
  LET waits == req[r].limbo /\ in_limbo
      x == [req[r] EXCEPT !.limbo = waits, !.queued = @ + (IF waits THEN 1 ELSE 0)]
  IN
  /\ At(r, "queued") /\ IsSubmission(r)
  /\ req' = [req EXCEPT ![r] =
       IF ctok THEN Left(x)
       ELSE IF x.cmd = "jobsubmit" THEN [x EXCEPT !.pc = "scan"]
       ELSE [x EXCEPT !.pc = "scan", !.n = 0, !.deep = lb.deep,
                      !.shallow = lb.shallow]]
  /\ IF ctok
     THEN lb' = log_cancelled /\ Purge
     ELSE lb' = (IF waits THEN Status("waiting") ELSE lb) /\ UNCHANGED files
  /\ UNCHANGED <<rpl, out, cream, counts, faults>>

\* The LB does not answer a request in limbo or a resubmission: it is postponed
\* if the failure may be temporary, else aborted or, in limbo, given up.  If only
\* the status is missing the limbo is over.
LBFails(r) ==
  /\ At(r, "queued") /\ IsSubmission(r) /\ Fault
  /\ req[r].limbo \/ req[r].cmd = "jobresubmit"
  /\ \/ Postpone(r) /\ UNCHANGED ctok
     \/ Unrecoverable(r)
     \/ req[r].limbo /\ End(r) /\ UNCHANGED <<lb, ctok>>
     \/ /\ req[r].limbo /\ req' = [req EXCEPT ![r].limbo = FALSE]
        /\ UNCHANGED <<lb, ctok>>
  /\ UNCHANGED <<tokens, tmps, sandbox, rpl, out, cream, counts>>

\* The look for a token.  Two of them abort the job, but the request goes on
\* with the first.  Without a sandbox the request is given up.
Scan(r) ==
  /\ At(r, "scan")
  /\ IF ~sandbox
     THEN End(r) /\ UNCHANGED <<lb, ctok>>
     ELSE /\ \E f \in IF Names = {} THEN {<<FALSE, 0>>} ELSE Names :
               req' = [req EXCEPT ![r].pc = "token", ![r].k = f[2],
                         ![r].n = IF Names # {} /\ (@ = 0 \/ overwrites)
                                  THEN f[2] ELSE @]
          /\ IF Cardinality(Names) > 1
             THEN lb' = log_abort /\ ctok' = FALSE
             ELSE UNCHANGED <<lb, ctok>>
  /\ UNCHANGED <<tokens, tmps, sandbox, rpl, out, cream, counts, faults>>

\* A resubmission takes the token away from a copy that has not started ...
TakeToken(r) ==
  /\ At(r, "token") /\ req[r].cmd = "jobresubmit"
  /\ tokens' = tokens \ {req[r].k}
  /\ tmps' = IF req[r].k \in tokens THEN tmps \cup {req[r].k} ELSE tmps
  /\ req' = [req EXCEPT ![r].pc = "count"]
  /\ UNCHANGED <<sandbox, ctok, lb, rpl, out, cream, counts, faults>>

\* Mutant: the limits are one too high.
CountMutant(r) ==
  LET found == req[r].k \in tmps
      hit   == IF found THEN req[r].shallow > limits.shallow
                        ELSE req[r].deep > limits.deep
  IN
  /\ At(r, "count")
  /\ IF hit \/ ~sandbox
     THEN Unrecoverable(r) /\ UNCHANGED tmps
     ELSE /\ lb' = IF found THEN [lb EXCEPT !.status = "waiting", !.shallow = @ + 1]
                   ELSE [lb EXCEPT !.status = "waiting", !.deep = @ + 1, !.shallow = 0]
          /\ tmps' = tmps \cup {req[r].k}
          /\ req' = [req EXCEPT ![r].pc = "restore"]
          /\ UNCHANGED ctok
  /\ UNCHANGED <<tokens, sandbox, rpl, out, cream, counts, faults>>

\* ... and is shallow if there was one, else deep, up to the limits.
Count(r) ==
  LET found == req[r].k \in tmps
      hit   == IF found THEN req[r].shallow >= limits.shallow
                        ELSE req[r].deep >= limits.deep
  IN
  /\ At(r, "count")
  /\ IF hit
     THEN Unrecoverable(r) /\ UNCHANGED tmps
     ELSE IF ~found /\ ~sandbox
     THEN /\ req' = [req EXCEPT ![r] = Postponed(@)]
          /\ lb' = [lb EXCEPT !.status = "waiting", !.deep = @ + 1, !.shallow = 0]
          /\ UNCHANGED <<tmps, ctok>>
     ELSE /\ lb' = IF found THEN [lb EXCEPT !.status = "waiting", !.shallow = @ + 1]
                   ELSE [lb EXCEPT !.status = "waiting", !.deep = @ + 1, !.shallow = 0]
          /\ tmps' = tmps \cup {req[r].k}
          /\ req' = [req EXCEPT ![r].pc = "restore"]
          /\ UNCHANGED ctok
  /\ UNCHANGED <<tokens, sandbox, rpl, out, cream, counts, faults>>

\* A jobsubmit written by the Replanner has a token already; one that the
\* Replanner has overtaken is dropped; any other one creates the token.
NewToken(r) ==
  LET n == req[r].n  k == req[r].k IN
  /\ At(r, "token") /\ req[r].cmd = "jobsubmit"
  /\ \/ /\ n > 0 /\ k = n
        /\ req' = [req EXCEPT ![r].pc = "plan", ![r].rp = TRUE]
        /\ UNCHANGED <<tmps, lb>>
     \/ n > 0 /\ k > n /\ End(r) /\ UNCHANGED <<tmps, lb>>
     \/ ~(n > 0 /\ k >= n) /\ sandbox
        /\ tmps' = tmps \cup {k}
        /\ req' = [req EXCEPT ![r].pc = "restore"]
        /\ UNCHANGED lb
     \/ ~(n > 0 /\ k >= n) /\ ~sandbox /\ Postpone(r) /\ UNCHANGED tmps
  /\ UNCHANGED <<tokens, sandbox, ctok, rpl, out, cream, counts, faults>>

\* Mutant: the token gets its name by a link, the temporary name stays.
RestoreTokenMutant(r) ==
  /\ At(r, "restore")
  /\ IF req[r].k \in tmps
     THEN /\ tokens' = tokens \cup {req[r].k} /\ UNCHANGED <<tmps, lb>>
          /\ req' = [req EXCEPT ![r].pc = "plan"]
     ELSE Postpone(r) /\ UNCHANGED <<tokens, tmps>>
  /\ UNCHANGED <<sandbox, ctok, rpl, out, cream, counts, faults>>

\* The temporary token gets its name; without one the request is postponed.
RestoreToken(r) ==
  /\ At(r, "restore")
  /\ IF req[r].k \in tmps
     THEN /\ tmps' = tmps \ {req[r].k} /\ tokens' = tokens \cup {req[r].k}
          /\ req' = [req EXCEPT ![r].pc = "plan"]
          /\ UNCHANGED lb
     ELSE Postpone(r) /\ UNCHANGED <<tokens, tmps>>
  /\ UNCHANGED <<sandbox, ctok, rpl, out, cream, counts, faults>>

\* Plan, log_match, log_enqueued_start.
Plan(r) == /\ At(r, "plan")
           /\ lb' = [lb EXCEPT !.status = "ready", !.enq = "start"]
           /\ req' = [req EXCEPT ![r].pc = "check"]
           /\ UNCHANGED <<files, rpl, out, cream, counts, faults>>

\* HelperError: there is no suitable computing element now.
PlanFails(r) == /\ At(r, "plan") /\ Fault
                /\ Postpone(r)
                /\ UNCHANGED <<files, rpl, out, cream, counts>>

\* The last look at the cancel token before the delivery.
CheckCancel(r) ==
  /\ At(r, "check")
  /\ IF ctok
     THEN lb' = log_cancelled /\ Purge /\ End(r)
     ELSE req' = [req EXCEPT ![r].pc = "deliver"] /\ UNCHANGED <<lb, files>>
  /\ UNCHANGED <<rpl, out, cream, counts, faults>>

Deliver(r) ==
  /\ At(r, "deliver")
  /\ out' = Append(out, [kind |-> IF req[r].rp THEN "Reschedule" ELSE "Submit",
                         tok |-> req[r].n])
  /\ req' = [req EXCEPT ![r].pc = "delivered", ![r].sent = @ + 1]
  /\ UNCHANGED <<files, lb, rpl, cream, counts, faults>>

\* JobDirError: log_enqueued_fail and CannotDeliverFatal.
DeliverFails(r) ==
  /\ At(r, "deliver") /\ Fault
  /\ lb' = [log_abort EXCEPT !.enq = "fail"] /\ ctok' = FALSE /\ End(r)
  /\ UNCHANGED <<tokens, tmps, sandbox, rpl, out, cream, counts>>

Delivered(r) == /\ At(r, "delivered")
                /\ lb' = [lb EXCEPT !.enq = "ok"]
                /\ End(r)
                /\ UNCHANGED <<files, rpl, out, cream, counts, faults>>

-----------------------------------------------------------------------------
(* CancelProcessor::operator() for a single job.                           *)

\* The token, the status and the events.  The query asks for no DONE event, so
\* that the tests for a job that is done always fail.
CancelLook(r) ==
  /\ At(r, "queued") /\ req[r].cmd = "jobcancel"
  /\ IF ~ctok \/ (lb.enq = "ok" /\ lb.status = "aborted")
     THEN End(r)
     ELSE req' = [req EXCEPT ![r].pc = IF lb.enq = "ok" THEN "forward" ELSE "fail"]
  /\ UNCHANGED <<files, lb, rpl, out, cream, counts, faults>>

\* The LB does not answer: without the events the request is given up, without
\* the status alone the job is taken not to be aborted.
CancelLBFails(r) ==
  /\ At(r, "queued") /\ req[r].cmd = "jobcancel" /\ Fault
  /\ \/ End(r)
     \/ ctok /\ lb.enq = "ok" /\ req' = [req EXCEPT ![r].pc = "forward"]
  /\ UNCHANGED <<files, lb, rpl, out, cream, counts>>

\* log_cancelled and WMReal::cancel, which ignores a JobDirError; any other
\* exception ends like a job that is still with the workload manager.
CancelForward(r) ==
  /\ At(r, "forward")
  /\ lb' = log_cancelled
  /\ \/ /\ out' = Append(out, [kind |-> "Cancel", tok |-> 0])
        /\ End(r) /\ UNCHANGED faults
     \/ Fault /\ End(r) /\ UNCHANGED out
     \/ Fault /\ req' = [req EXCEPT ![r].pc = "fail"] /\ UNCHANGED out
  /\ UNCHANGED <<files, rpl, cream, counts>>

\* Mutant: the abort is logged without a purge.
CancelFailMutant(r) == /\ At(r, "fail")
                       /\ lb' = log_abort
                       /\ End(r)
                       /\ UNCHANGED <<files, rpl, out, cream, counts, faults>>

\* The job is still with the workload manager, or cannot be cancelled at the
\* computing element: the proxy is unregistered, the purger removes the sandbox
\* and logs the abort, or does neither if it has no LB context.
CancelFail(r) ==
  /\ At(r, "fail")
  /\ \/ lb' = log_abort /\ Purge /\ UNCHANGED faults
     \/ Fault /\ UNCHANGED <<lb, files>>
  /\ End(r)
  /\ UNCHANGED <<rpl, out, cream, counts>>

-----------------------------------------------------------------------------
(* Replan::operator(), for a job that the LB says is scheduled.            *)

ReplanLook == /\ up /\ rpl.pc = "idle" /\ lb.status = "scheduled"
              /\ sandbox /\ replans < limits.replans /\ replans' = replans + 1
              /\ \E f \in Names : rpl' = [pc |-> "rename", tmp |-> f[1], t |-> f[2]]
              /\ lb' = IF Cardinality(Names) > 1 THEN log_abort ELSE lb
              /\ UNCHANGED <<req, files, out, cream, up, overwrites, limits,
                             crashes, cancels, faults>>

\* Mutant: the new token is a second one.
ReplanRenameMutant ==
  /\ up /\ rpl.pc = "rename" /\ <<rpl.tmp, rpl.t>> \in Names
  /\ tokens' = tokens \cup {rpl.t + 1}
  /\ rpl' = [rpl EXCEPT !.pc = "log"]
  /\ UNCHANGED <<req, tmps, sandbox, ctok, lb, out, cream, counts, faults>>

\* The token is renamed.  errno is looked at even after a success, when it may
\* still have the value of an earlier call.
ReplanRename ==
  LET found == <<rpl.tmp, rpl.t>> \in Names IN
  /\ up /\ rpl.pc = "rename"
  /\ IF found
     THEN /\ tokens' = (IF rpl.tmp THEN tokens ELSE tokens \ {rpl.t})
                         \cup {rpl.t + 1}
          /\ tmps' = IF rpl.tmp THEN tmps \ {rpl.t} ELSE tmps
     ELSE UNCHANGED <<tokens, tmps>>
  /\ \/ /\ found /\ rpl' = [rpl EXCEPT !.pc = "log"]
        /\ lb' = IF rpl.t >= MaxReplans THEN log_abort ELSE lb
     \/ rpl' = [rpl EXCEPT !.pc = "idle"] /\ UNCHANGED lb
  /\ UNCHANGED <<req, sandbox, ctok, out, cream, counts, faults>>

ReplanLog == /\ up /\ rpl.pc = "log"
             /\ lb' = [lb EXCEPT !.status = "waiting", !.shallow = @ + 1,
                                 !.enq = "start"]
             /\ rpl' = [rpl EXCEPT !.pc = "deliver"]
             /\ UNCHANGED <<req, files, out, cream, counts, faults>>

ReplanDeliver == /\ up /\ rpl.pc = "deliver" /\ Free # {}
                 /\ req' = deliver(req, "jobsubmit", rpl.t + 1)
                 /\ rpl' = [rpl EXCEPT !.pc = "delivered"]
                 /\ UNCHANGED <<files, lb, out, cream, counts, faults>>

ReplanDeliverFails == /\ up /\ rpl.pc = "deliver" /\ Fault
                      /\ lb' = [lb EXCEPT !.enq = "fail"]
                      /\ rpl' = [rpl EXCEPT !.pc = "idle"]
                      /\ UNCHANGED <<req, files, out, cream, counts>>

ReplanDelivered == /\ up /\ rpl.pc = "delivered"
                   /\ lb' = [lb EXCEPT !.enq = "ok"]
                   /\ rpl' = [rpl EXCEPT !.pc = "idle"]
                   /\ UNCHANGED <<req, files, out, cream, counts, faults>>

-----------------------------------------------------------------------------
(* ICE.  It takes the files of its input in directory order, that is in    *)
(* any order, and knows at most one copy of a job: the one in its database.*)

Known(q) == {i \in DOMAIN q : q[i].known}
Forget(q) == [i \in DOMAIN q |-> [q[i] EXCEPT !.known = FALSE]]

\* iceCommandSubmit, when the job is not in the database: CREAM accepts it ...
SubmitOk(q, tok) ==
  /\ copies' = Append(q, [tok |-> tok, st |-> "queued", known |-> TRUE])
  /\ lb' = Status("scheduled")
  /\ UNCHANGED <<req, faults>>

\* ... or a transient failure sends the job back for a resubmission, or a fatal
\* one aborts it.
SubmitFails(q) ==
  /\ Fault
  /\ copies' = q
  /\ \/ /\ Free # {} /\ req' = deliver(req, "jobresubmit", 0)
        /\ lb' = [lb EXCEPT !.status = "waiting", !.done = "failed"]
     \/ lb' = log_abort /\ UNCHANGED req

IceSubmit(i) ==
  /\ out[i].kind = "Submit"
  /\ out' = RemoveAt(out, i)
  /\ IF Known(copies) # {}
     THEN UNCHANGED <<copies, lb, req, faults>>
     ELSE SubmitOk(copies, out[i].tok) \/ SubmitFails(copies)
  /\ UNCHANGED <<files, rpl, runs, failures, counts>>

\* Only the copy that is sent with the current token replaces the one known.
IceReschedule(i) ==
  /\ out[i].kind = "Reschedule"
  /\ out' = RemoveAt(out, i)
  /\ IF out[i].tok \notin tokens
     THEN UNCHANGED <<copies, lb, req, faults>>
     ELSE SubmitOk(Forget(copies), out[i].tok) \/ SubmitFails(Forget(copies))
  /\ UNCHANGED <<files, rpl, runs, failures, counts>>

IceCancel(i) ==
  /\ out[i].kind = "Cancel"
  /\ out' = RemoveAt(out, i)
  /\ copies' = [c \in DOMAIN copies |->
                  IF copies[c].known /\ copies[c].st \in {"queued", "running"}
                  THEN [copies[c] EXCEPT !.st = "cancelled"] ELSE copies[c]]
  /\ UNCHANGED <<req, files, lb, rpl, runs, failures, counts, faults>>

\* ICE learns that the copy it knows has ended.  A failed one is resubmitted, or
\* aborted if its proxy has expired or the request cannot be written.
IceOutcome(c) ==
  /\ copies[c].known /\ copies[c].st \in {"ok", "failed", "cancelled"}
  /\ copies' = RemoveAt(copies, c)
  /\ \/ /\ copies[c].st = "ok"
        /\ lb' = [lb EXCEPT !.status = "done", !.done = "ok"]
        /\ UNCHANGED <<req, files, faults>>
     \/ /\ copies[c].st = "failed" /\ Free # {}
        /\ lb' = [lb EXCEPT !.status = "waiting", !.done = "failed"]
        /\ req' = deliver(req, "jobresubmit", 0)
        /\ UNCHANGED <<files, faults>>
     \/ /\ copies[c].st = "failed" /\ Fault
        /\ lb' = [log_abort EXCEPT !.done = "failed"]
        /\ UNCHANGED <<req, files>>
     \/ /\ copies[c].st = "cancelled"
        /\ lb' = log_cancelled /\ Purge
        /\ UNCHANGED <<req, faults>>
  /\ UNCHANGED <<rpl, out, runs, failures, counts>>

-----------------------------------------------------------------------------
(* CREAM and the worker nodes.                                             *)

\* A copy starts if it can remove its token, and fails if it cannot.
Start(c) ==
  /\ copies[c].st = "queued"
  /\ IF copies[c].tok \in tokens
     THEN /\ tokens' = tokens \ {copies[c].tok}
          /\ copies' = [copies EXCEPT ![c].st = "running"]
          /\ runs' = runs + 1
          /\ lb' = Status("running")
     ELSE /\ copies' = [copies EXCEPT ![c].st = "failed"]
          /\ UNCHANGED <<tokens, runs, lb>>
  /\ UNCHANGED <<req, tmps, sandbox, ctok, rpl, out, failures, counts, faults>>

\* A copy may fail before it starts, and while it runs.
CopyFails(c) == /\ copies[c].st \in {"queued", "running"}
                /\ failures < limits.failures /\ failures' = failures + 1
                /\ copies' = [copies EXCEPT ![c].st = "failed"]
                /\ UNCHANGED <<req, files, lb, rpl, out, runs, counts, faults>>

CopyEnds(c) == /\ copies[c].st = "running"
               /\ copies' = [copies EXCEPT ![c].st = "ok"]
               /\ UNCHANGED <<req, files, lb, rpl, out, runs, failures, counts,
                              faults>>

\* Nobody is told of the end of a copy that ICE does not know.
Vanish(c) == /\ ~copies[c].known /\ copies[c].st \in {"ok", "failed"}
             /\ copies' = RemoveAt(copies, c)
             /\ UNCHANGED <<req, files, lb, rpl, out, runs, failures, counts,
                            faults>>

-----------------------------------------------------------------------------
(* The user, the crash of the workload manager, and its restart.           *)

UserCancels == /\ cancels < limits.cancels /\ cancels' = cancels + 1 /\ Free # {}
               /\ req' = deliver(req, "jobcancel", 0)
               /\ UNCHANGED <<files, lb, rpl, out, cream, up, overwrites, limits,
                              crashes, replans, faults>>

\* What is left of a request when the process is gone.
OnDisk(x) == [NoRequest EXCEPT !.cmd = x.cmd, !.loc = x.loc, !.n0 = x.n0,
                               !.n = x.n0, !.sent = x.sent]

Crash == /\ up /\ crashes < limits.crashes /\ crashes' = crashes + 1
         /\ up' = FALSE
         /\ req' = [r \in Slots |-> OnDisk(req[r])]
         /\ rpl' = [pc |-> "idle", tmp |-> FALSE, t |-> 0]
         /\ UNCHANGED <<files, lb, out, cream, overwrites, limits, cancels, replans,
                        faults>>

\* Mutant: only the requests that were not yet read are recovered.
RecoveredMutant(x, answers) ==
  IF x.loc = "new" THEN [x EXCEPT !.loc = "old", !.pc = "queued"] ELSE x

\* The init script has moved old/ back to new/; recovery() reads everything.
\* A submission whose job has failed meanwhile is left to the resubmission; one
\* for which the LB does not answer is taken to be in limbo.
Recovered(x, answers) ==
  IF x.loc = "none" THEN x
  ELSE IF x.cmd = "jobsubmit" /\ answers /\ lb.done = "failed"
       THEN [x EXCEPT !.loc = "old"]
       ELSE [x EXCEPT !.loc = "old", !.pc = "queued",
                      !.limbo = /\ x.cmd # "jobcancel"
                                /\ answers => lb.status # "waiting" /\ in_limbo]

Restart == /\ ~up /\ up' = TRUE
           /\ \E answers \in BOOLEAN :
                req' = [r \in Slots |-> Recovered(req[r], answers)]
           /\ ctok' = (ctok \/ (sandbox /\ \E r \in Slots : req[r].cmd = "jobcancel"))
           /\ UNCHANGED <<tokens, tmps, sandbox, lb, rpl, out, cream, overwrites,
                          limits, crashes, cancels, replans, faults>>

-----------------------------------------------------------------------------
Submission(r) == \/ Begin(r) \/ LBFails(r) \/ Scan(r) \/ TakeToken(r)
                 \/ Count(r) \/ NewToken(r) \/ RestoreToken(r) \/ Plan(r) \/ PlanFails(r)
                 \/ CheckCancel(r) \/ Deliver(r) \/ DeliverFails(r)
                 \/ Delivered(r) \/ ProxyExpired(r)

Cancellation(r) == \/ CancelLook(r) \/ CancelLBFails(r)
                   \/ CancelForward(r) \/ CancelFail(r)

Replanner == \/ ReplanLook \/ ReplanRename \/ ReplanLog \/ ReplanDeliver
             \/ ReplanDeliverFails \/ ReplanDelivered

ICE == \/ \E i \in DOMAIN out : IceSubmit(i) \/ IceReschedule(i) \/ IceCancel(i)
       \/ \E c \in DOMAIN copies : IceOutcome(c)

CREAM == \E c \in DOMAIN copies : Start(c) \/ CopyFails(c) \/ CopyEnds(c) \/ Vanish(c)

\* A request that is left in old/ waits for the next start.
Resting(r) == req[r].loc = "none" \/ (req[r].loc = "old" /\ req[r].pc = "idle")

\* Nobody has anything left to do for the job.
Quiet == /\ up /\ rpl.pc = "idle"
         /\ \A r \in Slots : Resting(r)
         /\ out = <<>> /\ copies = <<>>

Next == \/ \E r \in Slots : Dequeue(r) \/ Submission(r) \/ Cancellation(r)
        \/ Replanner \/ ICE \/ CREAM
        \/ UserCancels \/ Crash \/ Restart
        \/ Quiet /\ UNCHANGED vars

Spec == Init /\ [][Next]_vars

-----------------------------------------------------------------------------
(* Properties.                                                             *)

PCs == {"idle", "queued", "scan", "token", "count", "restore", "plan", "check",
        "deliver", "delivered", "forward", "fail"}

\* The values the variables can have.
TypeOK ==
  /\ \A r \in Slots :
       /\ req[r].cmd \in {"none", "jobsubmit", "jobresubmit", "jobcancel"}
       /\ req[r].loc \in {"none", "new", "old"} /\ req[r].pc \in PCs
       /\ req[r].loc = "old" \/ req[r].pc = "idle"
  /\ tokens \subseteq Nat /\ tmps \subseteq Nat
  /\ ~sandbox => tokens = {} /\ tmps = {} /\ ~ctok
  /\ rpl.pc \in {"idle", "rename", "log", "deliver", "delivered"}
  /\ runs \in Nat /\ Cardinality(Known(copies)) <= 1

\* Two copies of the job never run at the same time.
AtMostOneRunning ==
  Cardinality({c \in DOMAIN copies : copies[c].st = "running"}) <= 1

\* A job starts once for its submission and once for each deep resubmission
\* it is allowed, as long as the workload manager does not crash: a copy that
\* has not started costs no deep resubmission, one that has started always does.
RunsBounded == crashes = 0 => runs <= 1 + limits.deep

\* Whoever looks for the token finds one at most: the two names of a token
\* exist together only while the request that renames it is at work.
OneToken == (\E r \in Slots : At(r, "scan")) => Cardinality(Names) <= 1

\* A job that nobody handles any more has come to an end the user can see: the
\* last outcome logged is a success, or it was aborted or cancelled.
NotForgotten == Quiet => lb.aborted \/ lb.cancelled \/ lb.done = "ok"

\* Once the abort of the job has been logged no copy of it starts, as long as
\* it was not replanned and the workload manager did not crash.
AbortIsFinal == [][lb.aborted /\ crashes + replans = 0 => runs' = runs]_vars
=============================================================================
