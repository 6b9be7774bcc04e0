------------------------------ MODULE WMProxy ------------------------------
(***************************************************************************)
(* WMProxy, the web service in front of the WMS, and one job: the server   *)
(* processes that register, start, cancel and purge it.  They share the    *)
(* job's directory, what the LB knows of the job, and a lock file in the   *)
(* directory, locked with fcntl: the lock belongs to the process, which    *)
(* does not see its own lock as taken and loses it by closing any          *)
(* descriptor of the file.                                                 *)
(*                                                                         *)
(* A step ends where a process has looked at, or changed, something the    *)
(* others use.  A call that is refused before it changes anything is no    *)
(* step.  LBProxy is on: what has been logged is seen by the next query.   *)
(***************************************************************************)
EXTENDS Naturals, FiniteSets

CONSTANTS
  Servers,         \* the FastCGI processes
  AsyncJobStart,   \* configuration: the client is answered before submit()
  MaxStarts,       \* bound: calls of jobStart that get past isStartAllowed
  MaxCancels,      \* bound: calls of jobCancel
  MaxFaults,       \* bound: kinds of failures that happen, each one once
  UserPurges,      \* whether a client calls jobPurge
  None             \* no server

ASSUME WMProxyAssumption ==
  /\ None \notin Servers
  /\ AsyncJobStart \in BOOLEAN /\ UserPurges \in BOOLEAN
  /\ MaxStarts \in Nat /\ MaxCancels \in Nat /\ MaxFaults \in Nat

VARIABLES
  registered, known,   \* the job exists; its client has been given its id
  dir,                 \* the job directory exists
  files,               \* the JDL files in it: JDLToStart, JDLStarted
  lb,                  \* the job's events: any accepted, the last enqueued,
                       \* aborted, cancel requested
  lock,                \* who holds the jobStart lock
  pc,                  \* where each server is
  locks,               \* servers whose submit() has the lock file open
  delivered,           \* submit requests written into the WM's job directory
  cancels,             \* cancel requests written there
  purgedBy,            \* who removed the job directory
  starts, calls,       \* calls of jobStart and of jobCancel so far
  overlap,             \* history: two starts have been in progress together
  faults               \* failures so far

vars == <<registered, known, dir, files, lb, lock, pc, locks, delivered, cancels,
          purgedBy, starts, calls, overlap, faults>>

job == <<registered, known>>
sandbox == <<dir, files, purgedBy>>
wm == <<delivered, cancels>>
counts == <<starts, calls, overlap>>

StartPCs == {"file", "lock", "accept", "enqueue", "prepare", "limit_abort",
             "limit_test", "limit_purge", "fail", "bad_fail", "bad_abort",
             "check", "deliver", "ok", "undelivered", "write", "rename", "unlock",
             "release"}

CancelPCs == {"abort", "test", "purge", "forward", "log"}

TypeOK ==
  /\ registered \in BOOLEAN /\ known \in BOOLEAN /\ dir \in BOOLEAN
  /\ files \subseteq {"ToStart", "Started"}
  /\ lb \in [accepted : BOOLEAN, last : {"none", "START", "OK", "FAIL"},
             aborted : BOOLEAN, cancelling : BOOLEAN]
  /\ lock \in Servers \cup {None}
  /\ pc \in [Servers -> {"idle"} \cup StartPCs \cup CancelPCs]
  /\ locks \subseteq Servers
  /\ delivered \in Nat /\ cancels \in Nat
  /\ purgedBy \subseteq {"cancel", "submit", "user"}
  /\ starts \in 0 .. MaxStarts /\ calls \in 0 .. MaxCancels
  /\ overlap \in BOOLEAN
  /\ faults \subseteq {"throw", "lost", "query", "deliver", "init", "crash"}

Init ==
  /\ registered = FALSE /\ known = FALSE
  /\ dir = FALSE /\ files = {}
  /\ lb = [accepted |-> FALSE, last |-> "none", aborted |-> FALSE,
           cancelling |-> FALSE]
  /\ lock = None
  /\ pc = [s \in Servers |-> "idle"]
  /\ locks = {}
  /\ delivered = 0 /\ cancels = 0
  /\ purgedBy = {}
  /\ starts = 0 /\ calls = 0
  /\ overlap = FALSE
  /\ faults = {}

-----------------------------------------------------------------------------
Goto(s, l) == pc' = [pc EXCEPT ![s] = l]

Fault(f) ==
  /\ f \notin faults
  /\ Cardinality(faults) < MaxFaults
  /\ faults' = faults \cup {f}

\* What an event of submit() changes in the answers of the LB
Logged(e) ==
  [accepted   |-> lb.accepted \/ e = "ACCEPTED",
   last       |-> IF e \in {"START", "OK", "FAIL"} THEN e
                  ELSE IF e = "ACCEPTED" THEN "none" ELSE lb.last,
   aborted    |-> lb.aborted \/ e = "ABORT",
   cancelling |-> lb.cancelling \/ e = "CANCEL"]

\* logEvent(): the event is logged; or it is not, and testAndLog() gives up
\* without a word (EINVAL, GSS); or it throws, and the server goes to failed.
LogEvent(s, e, next, failed) ==
  \/ lb' = Logged(e) /\ Goto(s, next) /\ UNCHANGED faults
  \/ Fault("lost") /\ Goto(s, next) /\ UNCHANGED lb
  \/ Fault("throw") /\ Goto(s, failed) /\ UNCHANGED lb

\* isOperationLocked(): F_GETLK does not report the caller's own lock, and the
\* close that follows drops it.
LockedByOther(s) == lock \notin {None, s}
ClosedBy(s) == IF lock = s THEN None ELSE lock

\* doPurge(): the Purger removes the directory whatever the job's status.
DoPurge(who) == dir' = FALSE /\ files' = {} /\ purgedBy' = purgedBy \cup {who}

-----------------------------------------------------------------------------
(* jobRegister and jobSubmit                                               *)

Register ==
  /\ ~registered
  /\ registered' = TRUE
  /\ dir' = TRUE
  /\ files' = {"ToStart"}
  /\ UNCHANGED <<lb, lock, locks, wm, purgedBy, counts, faults>>

JobRegister(s) == pc[s] = "idle" /\ Register /\ known' = TRUE /\ UNCHANGED pc

\* jobSubmit goes on with submit(), which takes no lock then.
JobSubmit(s) ==
  /\ pc[s] = "idle"
  /\ Register
  /\ known' = AsyncJobStart
  /\ Goto(s, "accept")

-----------------------------------------------------------------------------
(* jobStart                                                                *)

\* isStartAllowed(): nothing but the registration and user tags has been
\* logged, or the last event is an enqueue that failed.
StartAllowed ==
  /\ ~lb.aborted /\ ~lb.cancelling
  /\ (~lb.accepted /\ lb.last = "none") \/ lb.last = "FAIL"

Starting(s) == pc[s] \in StartPCs

JobStart(s) ==
  /\ pc[s] = "idle"
  /\ known /\ dir /\ starts < MaxStarts
  /\ StartAllowed
  /\ Goto(s, "file")
  /\ starts' = starts + 1
  /\ overlap' = (overlap \/ \E t \in Servers : Starting(t))
  /\ UNCHANGED <<job, sandbox, lb, lock, locks, wm, calls, faults>>

\* JDLToStart must exist, and is read before the lock is taken.
StartFile(s) ==
  /\ pc[s] = "file"
  /\ Goto(s, IF "ToStart" \in files THEN "lock" ELSE "idle")
  /\ UNCHANGED <<job, sandbox, lb, lock, locks, wm, counts, faults>>

\* operationLock(): the lock file cannot be created when the directory is gone;
\* otherwise wait for the lock.
OperationLock(s) ==
  /\ pc[s] = "lock"
  /\ \/ /\ ~dir
        /\ Goto(s, "idle")
        /\ UNCHANGED <<lock, locks>>
     \/ /\ dir
        /\ ~LockedByOther(s)
        /\ lock' = s
        /\ locks' = locks \cup {s}
        /\ Goto(s, "accept")
  /\ UNCHANGED <<job, sandbox, lb, wm, counts, faults>>

-----------------------------------------------------------------------------
(* submit()                                                                *)

LogAccept(s) ==
  /\ pc[s] = "accept"
  /\ LogEvent(s, "ACCEPTED", "enqueue", "idle")
  /\ UNCHANGED <<job, sandbox, lock, locks, wm, counts>>

LogEnqueueStart(s) ==
  /\ pc[s] = "enqueue"
  /\ LogEvent(s, "START", "prepare", "idle")
  /\ UNCHANGED <<job, sandbox, lock, locks, wm, counts>>

\* The JDL is completed; it has too many sandbox files (JobOperationException),
\* an attribute is wrong (RequestAdException), or something else fails.
Prepare(s) ==
  /\ pc[s] = "prepare"
  /\ \E next \in {"check", "limit_abort", "bad_fail", "fail"} : Goto(s, next)
  /\ UNCHANGED <<job, sandbox, lb, lock, locks, wm, counts, faults>>

\* logAbortEventSync(): on failure there is no purge
LimitAbort(s) ==
  /\ pc[s] = "limit_abort"
  /\ \/ lb' = Logged("ABORT") /\ Goto(s, "limit_test") /\ UNCHANGED faults
     \/ Fault("throw") /\ Goto(s, "fail") /\ UNCHANGED lb
  /\ UNCHANGED <<job, sandbox, lock, locks, wm, counts>>

\* "purge is done if jobStart is not in progress": it is, by the caller.
LimitTest(s) ==
  /\ pc[s] = "limit_test"
  /\ IF dir /\ ~LockedByOther(s)
     THEN Goto(s, "limit_purge") /\ lock' = ClosedBy(s)
     ELSE Goto(s, "fail") /\ UNCHANGED lock
  /\ UNCHANGED <<job, sandbox, lb, locks, wm, counts, faults>>

LimitPurge(s) ==
  /\ pc[s] = "limit_purge"
  /\ DoPurge("submit")
  /\ Goto(s, "fail")
  /\ UNCHANGED <<job, lb, lock, locks, wm, counts, faults>>

LogFail(s) ==
  /\ pc[s] = "fail"
  /\ LogEvent(s, "FAIL", "release", "idle")
  /\ UNCHANGED <<job, sandbox, lock, locks, wm, counts>>

\* The handler of RequestAdException
BadAdFail(s) ==
  /\ pc[s] = "bad_fail"
  /\ LogEvent(s, "FAIL", "bad_abort", "idle")
  /\ UNCHANGED <<job, sandbox, lock, locks, wm, counts>>

\* With AsyncJobStart it does not throw: submit() goes on without the lock.
BadAdAbort(s) ==
  /\ pc[s] = "bad_abort"
  /\ LogEvent(s, "ABORT", IF AsyncJobStart THEN "check" ELSE "release",
              "idle")
  /\ lock' = IF AsyncJobStart THEN ClosedBy(s) ELSE lock
  /\ locks' = IF AsyncJobStart THEN locks \ {s} ELSE locks
  /\ UNCHANGED <<job, sandbox, wm, counts>>

IsAbortedMutant(s) ==
  /\ pc[s] = "check"
  /\ \/ Goto(s, "deliver") /\ UNCHANGED faults
     \/ Fault("query") /\ Goto(s, "idle")
  /\ UNCHANGED <<job, sandbox, lb, lock, locks, wm, counts>>

\* isAborted(): submit() throws, and does not unlock.
IsAborted(s) ==
  /\ pc[s] = "check"
  /\ \/ Goto(s, IF lb.aborted THEN "idle" ELSE "deliver") /\ UNCHANGED faults
     \/ Fault("query") /\ Goto(s, "idle")
  /\ UNCHANGED <<job, sandbox, lb, lock, locks, wm, counts>>

\* WMP2WM::init() opens the WM's job directory, WMP2WM::submit() delivers.  A
\* failure of the delivery is caught; one of init() is not: submit() throws, and
\* neither logs nor unlocks.
Deliver(s) ==
  /\ pc[s] = "deliver"
  /\ \/ delivered' = delivered + 1 /\ Goto(s, "ok") /\ UNCHANGED faults
     \/ Fault("deliver") /\ Goto(s, "undelivered") /\ UNCHANGED delivered
     \/ Fault("init") /\ Goto(s, "idle") /\ UNCHANGED delivered
  /\ UNCHANGED <<job, sandbox, lb, lock, locks, cancels, counts>>

\* If ENQUEUE_OK cannot be logged the enqueue is logged as failed.
LogOk(s) ==
  /\ pc[s] = "ok"
  /\ LogEvent(s, "OK", "write", "undelivered")
  /\ UNCHANGED <<job, sandbox, lock, locks, wm, counts>>

LogUndeliveredMutant(s) ==
  /\ pc[s] = "undelivered"
  /\ Goto(s, "write")
  /\ UNCHANGED <<job, sandbox, lb, lock, locks, wm, counts, faults>>

LogUndelivered(s) ==
  /\ pc[s] = "undelivered"
  /\ LogEvent(s, "FAIL", "write", "idle")
  /\ UNCHANGED <<job, sandbox, lock, locks, wm, counts>>

\* JDLToStart is written, also after a failed delivery, and renamed.
WriteJdl(s) ==
  /\ pc[s] = "write"
  /\ IF dir THEN files' = files \cup {"ToStart"} /\ Goto(s, "rename")
            ELSE UNCHANGED files /\ Goto(s, "idle")
  /\ UNCHANGED <<job, dir, purgedBy, lb, lock, locks, wm, counts, faults>>

RenameJdlMutant(s) ==
  /\ pc[s] = "rename"
  /\ files' = IF dir THEN files \cup {"Started"} ELSE files
  /\ Goto(s, "unlock")
  /\ UNCHANGED <<job, dir, purgedBy, lb, lock, locks, wm, counts, faults>>

RenameJdl(s) ==
  /\ pc[s] = "rename"
  /\ files' = IF dir THEN (files \ {"ToStart"}) \cup {"Started"} ELSE files
  /\ Goto(s, "unlock")
  /\ UNCHANGED <<job, dir, purgedBy, lb, lock, locks, wm, counts, faults>>

\* operationUnlock(): waits for the lock once more, then closes the file.
\* jobSubmit has none to close; its client gets the job's id, unless the unlock
\* is that of a handler, which throws.
OperationUnlock(s) ==
  /\ pc[s] \in {"unlock", "release"}
  /\ s \in locks => ~LockedByOther(s)
  /\ lock' = IF s \in locks THEN None ELSE lock
  /\ locks' = locks \ {s}
  /\ known' = (known \/ pc[s] = "unlock")
  /\ Goto(s, "idle")
  /\ UNCHANGED <<registered, sandbox, lb, wm, counts, faults>>

-----------------------------------------------------------------------------
(* jobCancel and jobPurge                                                  *)

\* The status the LB may report.  Whether an accepted job is still SUBMITTED is
\* up to the LB; WAITING stands for all states a cancel is forwarded in, ENDED
\* for those it is refused in.
Status == IF lb.aborted THEN {"ENDED"}
          ELSE IF lb.last = "OK" THEN {"WAITING", "ENDED"}
          ELSE IF lb.accepted \/ lb.last # "none" THEN {"SUBMITTED", "WAITING"}
          ELSE {"SUBMITTED"}

JobCancel(s) ==
  /\ pc[s] = "idle"
  /\ known /\ dir /\ calls < MaxCancels
  /\ ~lb.cancelling
  /\ \/ "SUBMITTED" \in Status /\ Goto(s, "abort")
     \/ "WAITING" \in Status /\ Goto(s, "forward")
  /\ calls' = calls + 1
  /\ UNCHANGED <<job, sandbox, lb, lock, locks, wm, starts, overlap, faults>>

CancelAbort(s) ==
  /\ pc[s] = "abort"
  /\ \/ lb' = Logged("ABORT") /\ Goto(s, "test") /\ UNCHANGED faults
     \/ Fault("throw") /\ Goto(s, "idle") /\ UNCHANGED lb
  /\ UNCHANGED <<job, sandbox, lock, locks, wm, counts>>

CancelTest(s) ==
  /\ pc[s] = "test"
  /\ IF dir /\ ~LockedByOther(s)
     THEN Goto(s, "purge") /\ lock' = ClosedBy(s)
     ELSE Goto(s, "idle") /\ UNCHANGED lock
  /\ UNCHANGED <<job, sandbox, lb, locks, wm, counts, faults>>

CancelPurge(s) ==
  /\ pc[s] = "purge"
  /\ DoPurge("cancel")
  /\ Goto(s, "idle")
  /\ UNCHANGED <<job, lb, lock, locks, wm, counts, faults>>

CancelForward(s) ==
  /\ pc[s] = "forward"
  /\ \/ cancels' = cancels + 1 /\ Goto(s, "log") /\ UNCHANGED faults
     \/ Fault("deliver") /\ Goto(s, "idle") /\ UNCHANGED cancels
  /\ UNCHANGED <<job, sandbox, lb, lock, locks, delivered, counts>>

CancelLog(s) ==
  /\ pc[s] = "log"
  /\ LogEvent(s, "CANCEL", "idle", "idle")
  /\ UNCHANGED <<job, sandbox, lock, locks, wm, counts>>

\* jobPurge asks for no status (checkstate is false) and not for this lock.
JobPurge(s) ==
  /\ pc[s] = "idle"
  /\ UserPurges /\ known /\ dir
  /\ DoPurge("user")
  /\ UNCHANGED <<job, lb, lock, pc, locks, wm, counts, faults>>

-----------------------------------------------------------------------------
\* A server process is killed and replaced.
Crash(s) ==
  /\ pc[s] # "idle"
  /\ Fault("crash")
  /\ Goto(s, "idle")
  /\ lock' = ClosedBy(s)
  /\ locks' = locks \ {s}
  /\ UNCHANGED <<job, sandbox, lb, wm, counts>>

\* It has served its number of requests, exits and is replaced: this is what
\* releases a lock that submit() did not.
Recycle(s) ==
  /\ pc[s] = "idle"
  /\ s \in locks
  /\ lock' = ClosedBy(s)
  /\ locks' = locks \ {s}
  /\ UNCHANGED <<job, sandbox, lb, pc, wm, counts, faults>>

Submit(s) ==
  \/ LogAccept(s) \/ LogEnqueueStart(s) \/ Prepare(s) \/ LimitAbort(s)
  \/ LimitTest(s) \/ LimitPurge(s) \/ LogFail(s) \/ BadAdFail(s)
  \/ BadAdAbort(s) \/ IsAborted(s) \/ Deliver(s) \/ LogOk(s)
  \/ LogUndelivered(s) \/ WriteJdl(s) \/ RenameJdl(s) \/ OperationUnlock(s)

Server(s) ==
  \/ JobRegister(s) \/ JobSubmit(s)
  \/ JobStart(s) \/ StartFile(s) \/ OperationLock(s) \/ Submit(s)
  \/ JobCancel(s) \/ CancelAbort(s) \/ CancelTest(s) \/ CancelPurge(s)
  \/ CancelForward(s) \/ CancelLog(s)
  \/ JobPurge(s) \/ Crash(s) \/ Recycle(s)

Next == \E s \in Servers : Server(s)

Spec == Init /\ [][Next]_vars

-----------------------------------------------------------------------------
(* Properties                                                              *)

(***************************************************************************)
(* A job whose directory jobCancel has removed is never handed to the WM:  *)
(* the abort is logged before the lock is tested, and submit() looks for   *)
(* it after it has taken the lock, so that a start that comes between the  *)
(* test and the removal finds the abort.                                   *)
(***************************************************************************)
CancelledNotDelivered ==
  [][delivered' > delivered => "cancel" \notin purgedBy]_vars

(***************************************************************************)
(* As long as no two calls of jobStart overlap, the request is delivered   *)
(* once, although a start may be repeated, and although the LB may lose    *)
(* events, the delivery may fail and the server may die.                   *)
(***************************************************************************)
DeliveredOnce == ~overlap => delivered <= 1

(***************************************************************************)
(* When all servers are done with a job that was accepted, it is with the  *)
(* WM, or the LB says that it failed, however many starts and cancels met  *)
(* and although a delivery failed.  Excepted are a failure of the LB, the  *)
(* death of a server, and a job directory of the WM that WMP2WM::init()    *)
(* cannot open: submit() then leaves the job accepted and enqueued by      *)
(* nobody.                                                                 *)
(***************************************************************************)
AcceptedIsSettled ==
  (\A s \in Servers : pc[s] = "idle") /\ faults \subseteq {"deliver"} /\ lb.accepted
    => delivered > 0 \/ lb.last = "FAIL" \/ lb.aborted
=============================================================================
