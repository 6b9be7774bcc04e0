------------------------------- MODULE IceJob -------------------------------
(***************************************************************************)
(* The life of a user's jobs in ICE, the gateway from the workload manager *)
(* to the CREAM computing elements.                                        *)
(*                                                                         *)
(* A submit request is read from the job directory, its job is inserted in *)
(* ICE's database, the user's proxy gets one more reference, the job is    *)
(* registered and then started on CREAM.  Event queries tell ICE how it    *)
(* ends: the proxy loses a reference, the job leaves the database and, if  *)
(* it failed, a resubmission request goes to the workload manager.         *)
(*                                                                         *)
(* All this happens in many threads, one database transaction or call to   *)
(* CREAM at a time, and ICE may crash between any two of them.  The jobs   *)
(* here have one user, one MyProxy server and one computing element; the   *)
(* pool that runs one command per job at a time is in IcePool.             *)
(***************************************************************************)
EXTENDS Integers, Sequences, FiniteSets

CONSTANTS
  Jobs,
  Queries,          \* the event queries that may run at the same time
  Loggers,          \* the threads of the LB logging pool (2)
  MaxCrashes,       \* bound: crashes of ICE
  MaxRecycles,      \* bound: how often old/ is moved back to new/
  Replanned,        \* the jobs the replanner may reschedule
  Cancelled,        \* the jobs that may be cancelled
  LostReplies,      \* whether CREAM's answers may be lost
  Expiring,         \* the jobs whose own proxy may expire
  BetterExpires,    \* whether the user's better proxy may expire
  Purgeable,        \* the jobs CREAM may purge by itself once they have ended
  FailBlacklisted,  \* fail_job_blacklisted_ce
  PurgeJobs,        \* purge_jobs
  LBLimit,          \* length of the logging queue above which a query waits
  NoProxy, Nobody

ASSUME CountsAssumption ==
  MaxCrashes \in Nat /\ MaxRecycles \in Nat /\ LBLimit \in Nat

ASSUME FlagsAssumption ==
  /\ LostReplies \in BOOLEAN
  /\ BetterExpires \in BOOLEAN
  /\ FailBlacklisted \in BOOLEAN
  /\ PurgeJobs \in BOOLEAN

ASSUME NamesAssumption ==
  /\ NoProxy \notin Int
  /\ "init" \notin Queries
  /\ Jobs \cap (Queries \cup {"init"}) = {}
  /\ Nobody \notin Queries \cup {"init"} \cup Jobs

Requests == Jobs \X {"submit", "reschedule"}

Actors == Queries \cup {"init"}   \* who runs resubmit_or_purge_job()

VARIABLES
  up,                 \* "down", "init" or "up"
  file,               \* each request in ICE's job directory: new, old, none
  pool,               \* commands of each request in the queue of the pool
  sub, kind, reg,     \* the command of each job: step, kind, CREAM id it uses
  db, cid, tk,        \* each job in the database: status, CREAM id, token
  proxy,              \* job counter of the user's better proxy, or NoProxy
  lastid,             \* first event id not yet asked for; 1: no id is stored
  floor,              \* events too old for a query without a stored id
  apc, todo, upto, cur,   \* event queries and init()
  resched,            \* holder of s_reschedule_mutex
  lbq, lpc, ljobs, lcur,  \* the LB logging pool
  cream, events,      \* CREAM: the jobs of each grid job, and their events
  token,              \* the token file of each job
  resub, aborted, ended,  \* resubmissions, aborts logged, jobs ended well
  purged,             \* CREAM jobs ICE has asked CREAM to purge
  crashes, recycles

dirVars == <<file, pool, recycles>>
subVars == <<sub, kind, reg>>
rowVars == <<db, cid, tk>>
queryVars == <<lastid, floor, apc, todo, upto, cur, resched>>
logVars == <<lbq, lpc, ljobs, lcur>>
creamVars == <<cream, events, token>>
outVars == <<resub, aborted, ended, purged>>

vars == <<up, dirVars, subVars, rowVars, proxy, queryVars, logVars, creamVars,
          outVars, crashes>>

Terminal == {"DONE_OK", "FAILED", "CANCELLED"}

Final == Terminal \cup {"PURGED"}

Statuses == {"none", "UNKNOWN", "REGISTERED", "IDLE"} \cup Terminal

ASSUME NobodyAssumption == Nobody \notin Jobs \X Nat \X (Statuses \cup Final)

TypeOK ==
  /\ up \in {"down", "init", "up"}
  /\ file \in [Requests -> {"new", "old", "none"}]
  /\ pool \in [Requests -> 0 .. MaxRecycles + 1]
  /\ sub \in [Jobs -> {"idle", "reschedule", "release", "lookup", "create", "count",
                       "delegate", "set", "register", "record", "start", "started",
                       "fail", "uncount", "remove", "purge"}]
  /\ kind \in [Jobs -> {"submit", "reschedule"}]
  /\ reg \in [Jobs -> Nat]
  /\ db \in [Jobs -> Statuses]
  /\ cid \in [Jobs -> Nat]
  /\ tk \in [Jobs -> Nat]
  /\ proxy \in Int \cup {NoProxy}
  /\ lastid \in 1 .. Len(events) + 1
  /\ floor \in 0 .. Len(events)
  /\ apc \in [Actors -> {"idle", "query", "next", "update", "count", "remove",
                         "resubmit", "purge"}]
  /\ todo \in [Actors -> SUBSET (Jobs \X Nat)]
  /\ resched \in Actors \cup Jobs \cup {Nobody}
  /\ lpc \in [Loggers -> {"idle", "check", "remove", "count"}]
  /\ cream \in [Jobs -> Seq([st : {"REGISTERED", "IDLE", "RUNNING"} \cup Final,
                             token : Nat])]
  /\ events \in Seq(Jobs \X Nat \X Final)
  /\ resub \in [Jobs -> Nat]
  /\ aborted \in [Jobs -> Nat]

Init ==
  /\ up = "up"
  /\ file = [r \in Requests |-> IF r[2] = "submit" THEN "new" ELSE "none"]
  /\ pool = [r \in Requests |-> 0]
  /\ sub = [j \in Jobs |-> "idle"]
  /\ kind = [j \in Jobs |-> "submit"]
  /\ reg = [j \in Jobs |-> 0]
  /\ db = [j \in Jobs |-> "none"]
  /\ cid = [j \in Jobs |-> 0]
  /\ tk = [j \in Jobs |-> 0]
  /\ proxy = NoProxy
  /\ lastid = 1
  /\ floor = 0
  /\ apc = [a \in Actors |-> "idle"]
  /\ todo = [a \in Actors |-> {}]
  /\ upto = [a \in Actors |-> 0]
  /\ cur = [a \in Actors |-> Nobody]
  /\ resched = Nobody
  /\ lbq = <<>>
  /\ lpc = [l \in Loggers |-> "idle"]
  /\ ljobs = [l \in Loggers |-> {}]
  /\ lcur = [l \in Loggers |-> Nobody]
  /\ cream = [j \in Jobs |-> <<>>]
  /\ events = <<>>
  /\ token = [j \in Jobs |-> [n |-> 0, there |-> TRUE]]
  /\ resub = [j \in Jobs |-> 0]
  /\ aborted = [j \in Jobs |-> 0]
  /\ ended = {}
  /\ purged = {}
  /\ crashes = 0
  /\ recycles = 0

-----------------------------------------------------------------------------
(* The database and the better proxy                                       *)

\* incrementUserProxyCounter()
Incremented(n) == IF n = NoProxy THEN 1 ELSE n + 1

\* decrementUserProxyCounter(): the last reference removes the proxy
Decremented(n) == IF n = NoProxy \/ n = 1 THEN NoProxy ELSE n - 1

InDb(j) == db[j] # "none"

\* UpdateJob: an SQL UPDATE, without effect when the row is gone
Update(j, st) == db' = [db EXCEPT ![j] = IF @ = "none" THEN @ ELSE st]

RemoveJob(j) ==
  /\ db' = [db EXCEPT ![j] = "none"]
  /\ cid' = [cid EXCEPT ![j] = 0]
  /\ tk' = [tk EXCEPT ![j] = 0]

\* resubmit_job(): a request to the workload manager, or an abort: the
\* job's proxy has expired, or the request could not be delivered.
\* (GLITE_WMS_ICE_NORESUBMIT, which drops the job, is not set.)
ResubmitJob(j) ==
  \/ resub' = [resub EXCEPT ![j] = @ + 1] /\ UNCHANGED aborted
  \/ aborted' = [aborted EXCEPT ![j] = @ + 1] /\ UNCHANGED resub

-----------------------------------------------------------------------------
(* The main loop                                                           *)

\* A request is read and its command queued.
ReadRequestMutant(r) ==
  /\ up = "up"
  /\ file[r] = "new"
  /\ pool' = [pool EXCEPT ![r] = @ + 1]
  /\ UNCHANGED <<up, file, recycles, subVars, rowVars, proxy, queryVars, logVars,
                 creamVars, outVars, crashes>>

ReadRequest(r) ==
  /\ up = "up"
  /\ file[r] = "new"
  /\ file' = [file EXCEPT ![r] = "old"]
  /\ pool' = [pool EXCEPT ![r] = @ + 1]
  /\ UNCHANGED <<up, recycles, subVars, rowVars, proxy, queryVars, logVars,
                 creamVars, outVars, crashes>>

\* The computing element is blacklisted: "This job will be considered later",
\* when the file is moved back.
PostponeRequest(r) ==
  /\ up = "up"
  /\ file[r] = "new"
  /\ recycles < MaxRecycles
  /\ file' = [file EXCEPT ![r] = "old"]
  /\ UNCHANGED <<up, pool, recycles, subVars, rowVars, proxy, queryVars, logVars,
                 creamVars, outVars, crashes>>

\* The job's proxy is not valid: an abort is logged and the request removed.
RejectRequest(r) ==
  /\ up = "up"
  /\ r[1] \in Expiring
  /\ file[r] = "new"
  /\ file' = [file EXCEPT ![r] = "none"]
  /\ aborted' = [aborted EXCEPT ![r[1]] = @ + 1]
  /\ UNCHANGED <<up, pool, recycles, subVars, rowVars, proxy, queryVars, logVars,
                 creamVars, resub, ended, purged, crashes>>

\* Every 120 iterations old/ is moved back to new/, files of commands that
\* are queued or executing included.
Recycle ==
  /\ up = "up"
  /\ recycles < MaxRecycles
  /\ \E r \in Requests : file[r] = "old"
  /\ file' = [r \in Requests |-> IF file[r] = "old" THEN "new" ELSE file[r]]
  /\ recycles' = recycles + 1
  /\ UNCHANGED <<up, pool, subVars, rowVars, proxy, queryVars, logVars, creamVars,
                 outVars, crashes>>

-----------------------------------------------------------------------------
(* iceCommandSubmit and iceCommandReschedule                               *)

Goto(j, step) == sub' = [sub EXCEPT ![j] = step]

TakeCommand(r) ==
  LET j == r[1] IN
  /\ up = "up"
  /\ pool[r] > 0
  /\ sub[j] = "idle"
  /\ pool' = [pool EXCEPT ![r] = @ - 1]
  /\ Goto(j, IF r[2] = "submit" THEN "lookup" ELSE "reschedule")
  /\ kind' = [kind EXCEPT ![j] = r[2]]
  /\ UNCHANGED <<up, file, recycles, reg, rowVars, proxy, queryVars, logVars,
                 creamVars, outVars, crashes>>

\* A reschedule replaces the job, unless its token has been taken.
RescheduleMutant(j) ==
  /\ sub[j] = "reschedule"
  /\ IF token[j].there
     THEN RemoveJob(j) /\ Goto(j, "release") /\ resched' = j
     ELSE Goto(j, "idle") /\ UNCHANGED <<rowVars, resched>>
  /\ UNCHANGED <<up, dirVars, kind, reg, proxy, lastid, floor, apc, todo, upto, cur,
                 logVars, creamVars, outVars, crashes>>

Reschedule(j) ==
  /\ sub[j] = "reschedule"
  /\ resched = Nobody
  /\ IF token[j].there
     THEN RemoveJob(j) /\ Goto(j, "release") /\ resched' = j
     ELSE Goto(j, "idle") /\ UNCHANGED <<rowVars, resched>>
  /\ UNCHANGED <<up, dirVars, kind, reg, proxy, lastid, floor, apc, todo, upto, cur,
                 logVars, creamVars, outVars, crashes>>

Release(j) ==
  /\ sub[j] = "release"
  /\ proxy' = Decremented(proxy)
  /\ resched' = Nobody
  /\ Goto(j, "lookup")
  /\ UNCHANGED <<up, dirVars, kind, reg, rowVars, lastid, floor, apc, todo, upto, cur,
                 logVars, creamVars, outVars, crashes>>

\* What the database says of the job decides what is left to do.
Lookup(j) ==
  /\ sub[j] = "lookup"
  /\ CASE db[j] \in {"none", "UNKNOWN"} ->
            /\ RemoveJob(j) /\ Goto(j, "create") /\ UNCHANGED reg
       [] db[j] = "REGISTERED" ->
            /\ Goto(j, "start") /\ reg' = [reg EXCEPT ![j] = cid[j]]
            /\ UNCHANGED rowVars
       [] OTHER ->
            /\ Goto(j, "purge") /\ UNCHANGED <<reg, rowVars>>
  /\ UNCHANGED <<up, dirVars, kind, proxy, queryVars, logVars, creamVars, outVars,
                 crashes>>

CreateJob(j) ==
  /\ sub[j] = "create"
  /\ db' = [db EXCEPT ![j] = "UNKNOWN"]
  /\ cid' = [cid EXCEPT ![j] = 0]
  /\ tk' = [tk EXCEPT ![j] = IF kind[j] = "submit" THEN 0 ELSE 1]
  /\ Goto(j, "count")
  /\ UNCHANGED <<up, dirVars, kind, reg, proxy, queryVars, logVars, creamVars,
                 outVars, crashes>>

Count(j) ==
  /\ sub[j] = "count"
  /\ proxy' = Incremented(proxy)
  /\ Goto(j, "delegate")
  /\ UNCHANGED <<up, dirVars, kind, reg, rowVars, queryVars, logVars, creamVars,
                 outVars, crashes>>

\* handle_delegation(): does the user have a better proxy?
Delegate(j) ==
  /\ sub[j] = "delegate"
  /\ Goto(j, IF proxy = NoProxy THEN "set" ELSE "register")
  /\ UNCHANGED <<up, dirVars, kind, reg, rowVars, proxy, queryVars, logVars, creamVars,
                 outVars, crashes>>

\* If not, it is put back with no job counted, whatever has been stored and
\* counted since (INSERT OR REPLACE).
SetBetterProxy(j) ==
  /\ sub[j] = "set"
  /\ proxy' = 0
  /\ Goto(j, "register")
  /\ UNCHANGED <<up, dirVars, kind, reg, rowVars, queryVars, logVars, creamVars,
                 outVars, crashes>>

\* JobRegister, without autostart
NewCreamJobMutant(j) ==
  cream' = [cream EXCEPT ![j] =
    Append(@, [st |-> "IDLE", token |-> IF kind[j] = "submit" THEN 0 ELSE 1])]

NewCreamJob(j) ==
  cream' = [cream EXCEPT ![j] =
    Append(@, [st |-> "REGISTERED", token |-> IF kind[j] = "submit" THEN 0 ELSE 1])]

Register(j) ==
  /\ sub[j] = "register"
  /\ NewCreamJob(j)
  /\ reg' = [reg EXCEPT ![j] = Len(cream[j]) + 1]
  /\ Goto(j, "record")
  /\ UNCHANGED <<up, dirVars, kind, rowVars, proxy, queryVars, logVars, events,
                 token, outVars, crashes>>

\* The answer is lost: whether CREAM has registered the job or not, the call
\* is repeated, or in the end fails.
RegisterTimesOut(j) ==
  /\ LostReplies
  /\ sub[j] = "register"
  /\ Len(cream[j]) < 2
  /\ NewCreamJob(j)
  /\ Goto(j, "register") \/ Goto(j, "fail")
  /\ UNCHANGED <<up, dirVars, kind, reg, rowVars, proxy, queryVars, logVars, events,
                 token, outVars, crashes>>

\* CREAM does not accept the delegation: it is repeated.
Redelegate(j) ==
  /\ sub[j] = "register"
  /\ Goto(j, "delegate")
  /\ UNCHANGED <<up, dirVars, kind, reg, rowVars, proxy, queryVars, logVars,
                 creamVars, outVars, crashes>>

\* The delegation or the registration fails for good (iceCommandTransient_ex).
SubmitFails(j) ==
  /\ sub[j] \in {"delegate", "register"}
  /\ Goto(j, "fail")
  /\ UNCHANGED <<up, dirVars, kind, reg, rowVars, proxy, queryVars, logVars,
                 creamVars, outVars, crashes>>

\* BlackListFailJob_ex: the abort is logged, the job stays in the database.
BlackListed(j) ==
  /\ FailBlacklisted
  /\ sub[j] = "register"
  /\ aborted' = [aborted EXCEPT ![j] = @ + 1]
  /\ Goto(j, "purge")
  /\ UNCHANGED <<up, dirVars, kind, reg, rowVars, proxy, queryVars, logVars,
                 creamVars, resub, ended, purged, crashes>>

\* The database learns the CREAM id before the job is started.
RecordMutant(j) ==
  /\ sub[j] = "record"
  /\ Update(j, "REGISTERED")
  /\ Goto(j, "start")
  /\ UNCHANGED <<up, dirVars, kind, reg, cid, tk, proxy, queryVars, logVars,
                 creamVars, outVars, crashes>>

Record(j) ==
  /\ sub[j] = "record"
  /\ Update(j, "REGISTERED")
  /\ cid' = [cid EXCEPT ![j] = IF InDb(j) THEN reg[j] ELSE @]
  /\ Goto(j, "start")
  /\ UNCHANGED <<up, dirVars, kind, reg, tk, proxy, queryVars, logVars, creamVars,
                 outVars, crashes>>

Startable(j) == reg[j] > 0 /\ cream[j][reg[j]].st = "REGISTERED"

Start(j) ==
  /\ sub[j] = "start"
  /\ Startable(j)
  /\ cream' = [cream EXCEPT ![j][reg[j]].st = "IDLE"]
  /\ Goto(j, "started") \/ (LostReplies /\ Goto(j, "fail"))
  /\ UNCHANGED <<up, dirVars, kind, reg, rowVars, proxy, queryVars, logVars, events,
                 token, outVars, crashes>>

\* CREAM refuses, or cannot be reached.
StartFails(j) ==
  /\ sub[j] = "start"
  /\ Goto(j, "fail")
  /\ UNCHANGED <<up, dirVars, kind, reg, rowVars, proxy, queryVars, logVars,
                 creamVars, outVars, crashes>>

Started(j) ==
  /\ sub[j] = "started"
  /\ Update(j, "IDLE")
  /\ Goto(j, "purge")
  /\ UNCHANGED <<up, dirVars, kind, reg, cid, tk, proxy, queryVars, logVars,
                 creamVars, outVars, crashes>>

\* The job goes back to the workload manager; then its reference and its row go.
GiveBackMutant(j) ==
  /\ sub[j] = "fail"
  /\ Goto(j, "uncount")
  /\ UNCHANGED <<up, dirVars, kind, reg, rowVars, proxy, queryVars, logVars,
                 creamVars, outVars, crashes>>

GiveBack(j) ==
  /\ sub[j] = "fail"
  /\ ResubmitJob(j)
  /\ Goto(j, "uncount")
  /\ UNCHANGED <<up, dirVars, kind, reg, rowVars, proxy, queryVars, logVars,
                 creamVars, ended, purged, crashes>>

Uncount(j) ==
  /\ sub[j] = "uncount"
  /\ proxy' = Decremented(proxy)
  /\ Goto(j, "remove")
  /\ UNCHANGED <<up, dirVars, kind, reg, rowVars, queryVars, logVars, creamVars,
                 outVars, crashes>>

Remove(j) ==
  /\ sub[j] = "remove"
  /\ RemoveJob(j)
  /\ Goto(j, "purge")
  /\ UNCHANGED <<up, dirVars, kind, reg, proxy, queryVars, logVars, creamVars,
                 outVars, crashes>>

\* Request_source_purger removes the file, if it is (still) in old/.
PurgeRequest(j) ==
  LET r == <<j, kind[j]>> IN
  /\ sub[j] = "purge"
  /\ file' = [file EXCEPT ![r] = IF @ = "old" THEN "none" ELSE @]
  /\ Goto(j, "idle")
  /\ reg' = [reg EXCEPT ![j] = 0]
  /\ UNCHANGED <<up, pool, recycles, kind, rowVars, proxy, queryVars, logVars,
                 creamVars, outVars, crashes>>

-----------------------------------------------------------------------------
(* iceCommandCancel                                                        *)

\* A cancellation, of a job that is in the database and alive on CREAM; in
\* every other case the command only logs that it is refused.
Cancel(j) ==
  /\ up = "up"
  /\ j \in Cancelled
  /\ sub[j] = "idle"
  /\ cid[j] > 0
  /\ cream[j][cid[j]].st \in {"REGISTERED", "IDLE", "RUNNING"}
  /\ cream' = [cream EXCEPT ![j][cid[j]].st = "CANCELLED"]
  /\ events' = Append(events, <<j, cid[j], "CANCELLED">>)
  /\ UNCHANGED <<up, dirVars, subVars, rowVars, proxy, queryVars, logVars, token,
                 outVars, crashes>>

-----------------------------------------------------------------------------
(* iceCommandEventQuery                                                    *)

\* The poller asks for every user with a proxy and jobs.
Poll(q) ==
  /\ up = "up"
  /\ apc[q] = "idle"
  /\ proxy # NoProxy
  /\ \E j \in Jobs : InDb(j)
  /\ apc' = [apc EXCEPT ![q] = "query"]
  /\ UNCHANGED <<up, dirVars, subVars, rowVars, proxy, lastid, floor, todo, upto, cur,
                 resched, logVars, creamVars, outVars, crashes>>

\* The first event a query asks for: without a stored id, those since
\* m_start_time ("EventID ZERO means ICE has been scratched").
FirstEvent == IF lastid = 1 THEN floor + 1 ELSE lastid

EventsFrom(n) == {i \in 1 .. Len(events) : i >= n}

\* One call returns a bounded number of them, from the first on.
QueryEvents(q) ==
  /\ apc[q] = "query"
  /\ proxy # NoProxy
  /\ IF EventsFrom(FirstEvent) = {}
     THEN /\ apc' = [apc EXCEPT ![q] = "idle"]
          /\ UNCHANGED <<todo, upto>>
     ELSE \E n \in EventsFrom(FirstEvent) :
          /\ apc' = [apc EXCEPT ![q] = "next"]
          /\ todo' = [todo EXCEPT ![q] =
                        {<<events[i][1], events[i][2]>> : i \in FirstEvent .. n}]
          /\ upto' = [upto EXCEPT ![q] = n]
  /\ UNCHANGED <<up, dirVars, subVars, rowVars, proxy, lastid, floor, cur, resched,
                 logVars, creamVars, outVars, crashes>>

\* CREAM does not answer.
QueryFails(q) ==
  /\ apc[q] = "query"
  /\ proxy # NoProxy
  /\ apc' = [apc EXCEPT ![q] = "idle"]
  /\ UNCHANGED <<up, dirVars, subVars, rowVars, proxy, lastid, floor, todo, upto, cur,
                 resched, logVars, creamVars, outVars, crashes>>

\* The proxy is gone or has expired: all jobs of the user are to be aborted by the logging pool.
QueryWithoutProxy(q) ==
  /\ apc[q] = "query"
  /\ proxy = NoProxy \/ BetterExpires
  /\ Len(lbq) <= LBLimit
  /\ apc' = [apc EXCEPT ![q] = "idle"]
  /\ lbq' = Append(lbq, {<<j, cid[j]>> : j \in {i \in Jobs : InDb(i)}})
  /\ UNCHANGED <<up, dirVars, subVars, rowVars, proxy, lastid, floor, todo, upto, cur,
                 resched, lpc, ljobs, lcur, creamVars, outVars, crashes>>

\* exists_subsequent_token(): some token file of the job is there.
SubsequentToken(j) == token[j].there

\* ignore_job(): the CREAM id is not in the database, or the token of the job
\* is gone and another is there: the workload manager has rescheduled it.
IgnoredMutant(j, k) == token[j].n # tk[j] /\ SubsequentToken(j)

Ignored(j, k) ==
  \/ k = 0 \/ ~ InDb(j) \/ cid[j] # k
  \/ token[j].n # tk[j] /\ SubsequentToken(j)

\* The last of the events of a CREAM job that this query has got
LastEvent(j, k, n) ==
  LET is == {i \in 1 .. n : events[i][1] = j /\ events[i][2] = k}
  IN  events[CHOOSE i \in is : \A h \in is : h <= i][3]

\* processEventsForJob() runs under s_reschedule_mutex.
NextJob(q, j, k) ==
  /\ apc[q] = "next"
  /\ <<j, k>> \in todo[q]
  /\ resched = Nobody
  /\ todo' = [todo EXCEPT ![q] = @ \ {<<j, k>>}]
  /\ \/ Ignored(j, k) /\ UNCHANGED <<apc, cur, resched>>
     \/ LET st == LastEvent(j, k, upto[q]) IN
          /\ ~ Ignored(j, k)
          /\ cur' = [cur EXCEPT ![q] = <<j, k, st>>]
          /\ apc' = [apc EXCEPT ![q] = IF st = "PURGED" THEN "count" ELSE "update"]
          /\ resched' = q
  /\ UNCHANGED <<up, dirVars, subVars, rowVars, proxy, lastid, floor, upto, logVars,
                 creamVars, outVars, crashes>>

UpdateStatus(a) ==
  /\ apc[a] = "update"
  /\ Update(cur[a][1], cur[a][3])
  /\ apc' = [apc EXCEPT ![a] = "count"]
  /\ UNCHANGED <<up, dirVars, subVars, cid, tk, proxy, lastid, floor, todo, upto, cur,
                 resched, logVars, creamVars, outVars, crashes>>

\* The new event id is written when all events have been processed.
SetEventIdMutant(q) ==
  /\ apc[q] = "next"
  /\ todo[q] = {}
  /\ lastid' = Len(events) + 1
  /\ apc' = [apc EXCEPT ![q] = "idle"]
  /\ UNCHANGED <<up, dirVars, subVars, rowVars, proxy, floor, todo, upto, cur, resched,
                 logVars, creamVars, outVars, crashes>>

SetEventId(q) ==
  /\ apc[q] = "next"
  /\ todo[q] = {}
  /\ lastid' = upto[q] + 1
  /\ apc' = [apc EXCEPT ![q] = "idle"]
  /\ UNCHANGED <<up, dirVars, subVars, rowVars, proxy, floor, todo, upto, cur, resched,
                 logVars, creamVars, outVars, crashes>>

-----------------------------------------------------------------------------
(* IceCore::resubmit_or_purge_job(), for a job with a final status         *)

UncountJob(a) ==
  /\ apc[a] = "count"
  /\ proxy' = Decremented(proxy)
  /\ apc' = [apc EXCEPT ![a] = "remove"]
  /\ UNCHANGED <<up, dirVars, subVars, rowVars, lastid, floor, todo, upto, cur, resched,
                 logVars, creamVars, outVars, crashes>>

Done(a) == /\ apc' = [apc EXCEPT ![a] = "next"]
           /\ cur' = [cur EXCEPT ![a] = Nobody]
           /\ resched' = Nobody

RemoveEnded(a) ==
  LET j == cur[a][1]  st == cur[a][3] IN
  /\ apc[a] = "remove"
  /\ RemoveJob(j)
  /\ ended' = IF st \in {"DONE_OK", "CANCELLED"} THEN ended \cup {j} ELSE ended
  /\ IF st = "PURGED"
     THEN Done(a)
     ELSE /\ apc' = [apc EXCEPT ![a] = IF st = "FAILED" THEN "resubmit" ELSE "purge"]
          /\ UNCHANGED <<cur, resched>>
  /\ UNCHANGED <<up, dirVars, subVars, proxy, lastid, floor, todo, upto, logVars, creamVars,
                 resub, aborted, purged, crashes>>

Resubmit(a) ==
  /\ apc[a] = "resubmit"
  /\ ResubmitJob(cur[a][1])
  /\ apc' = [apc EXCEPT ![a] = "purge"]
  /\ UNCHANGED <<up, dirVars, subVars, rowVars, proxy, lastid, floor, todo, upto, cur,
                 resched, logVars, creamVars, ended, purged, crashes>>

\* purge_job(): returns at once if the job is not in the database.
PurgeJob(a) ==
  LET j == cur[a][1]  k == cur[a][2] IN
  /\ apc[a] = "purge"
  /\ purged' = IF InDb(j) /\ PurgeJobs THEN purged \cup {<<j, k>>} ELSE purged
  /\ Done(a)
  /\ UNCHANGED <<up, dirVars, subVars, rowVars, proxy, lastid, floor, todo, upto, logVars,
                 creamVars, resub, aborted, ended, crashes>>

-----------------------------------------------------------------------------
(* iceCommandLBLogging                                                     *)

TakeJobs(l) ==
  /\ up = "up"
  /\ lpc[l] = "idle"
  /\ lbq # <<>>
  /\ ljobs' = [ljobs EXCEPT ![l] = Head(lbq)]
  /\ lbq' = Tail(lbq)
  /\ lpc' = [lpc EXCEPT ![l] = "check"]
  /\ UNCHANGED <<up, dirVars, subVars, rowVars, proxy, queryVars, lcur, creamVars,
                 outVars, crashes>>

\* The abort is logged, if the job is still in the database.
LogAbort(l, j, k) ==
  /\ lpc[l] = "check"
  /\ <<j, k>> \in ljobs[l]
  /\ ljobs' = [ljobs EXCEPT ![l] = @ \ {<<j, k>>}]
  /\ \/ Ignored(j, k) /\ UNCHANGED <<lpc, lcur, aborted>>
     \/   /\ ~ Ignored(j, k)
          /\ aborted' = [aborted EXCEPT ![j] = @ + 1]
          /\ lcur' = [lcur EXCEPT ![l] = j]
          /\ lpc' = [lpc EXCEPT ![l] = "remove"]
  /\ UNCHANGED <<up, dirVars, subVars, rowVars, proxy, queryVars, lbq, creamVars,
                 resub, ended, purged, crashes>>

RemoveAborted(l) ==
  /\ lpc[l] = "remove"
  /\ RemoveJob(lcur[l])
  /\ lpc' = [lpc EXCEPT ![l] = "count"]
  /\ UNCHANGED <<up, dirVars, subVars, proxy, queryVars, lbq, ljobs, lcur, creamVars,
                 outVars, crashes>>

UncountAborted(l) ==
  /\ lpc[l] = "count"
  /\ proxy' = Decremented(proxy)
  /\ lcur' = [lcur EXCEPT ![l] = Nobody]
  /\ lpc' = [lpc EXCEPT ![l] = "check"]
  /\ UNCHANGED <<up, dirVars, subVars, rowVars, queryVars, lbq, ljobs, creamVars,
                 outVars, crashes>>

JobsLogged(l) ==
  /\ lpc[l] = "check"
  /\ ljobs[l] = {}
  /\ lpc' = [lpc EXCEPT ![l] = "idle"]
  /\ UNCHANGED <<up, dirVars, subVars, rowVars, proxy, queryVars, lbq, ljobs, lcur,
                 creamVars, outVars, crashes>>

-----------------------------------------------------------------------------
(* CREAM, the worker nodes and the replanner                               *)

\* The job wrapper takes the token, or gives up if it is gone.
CreamRun(j, k) ==
  LET found == token[j].there /\ token[j].n = cream[j][k].token IN
  /\ cream[j][k].st = "IDLE"
  /\ cream' = [cream EXCEPT ![j][k].st = IF found THEN "RUNNING" ELSE "FAILED"]
  /\ token' = [token EXCEPT ![j].there = @ /\ ~ found]
  /\ events' = IF found THEN events ELSE Append(events, <<j, k, "FAILED">>)
  /\ UNCHANGED <<up, dirVars, subVars, rowVars, proxy, queryVars, logVars, outVars,
                 crashes>>

CreamEnd(j, k, st) ==
  /\ cream[j][k].st = "RUNNING" \/ (st = "FAILED" /\ cream[j][k].st = "IDLE")
  /\ cream' = [cream EXCEPT ![j][k].st = st]
  /\ events' = Append(events, <<j, k, st>>)
  /\ UNCHANGED <<up, dirVars, subVars, rowVars, proxy, queryVars, logVars, token,
                 outVars, crashes>>

\* An ended job is purged by the administrators of the computing element.
CreamPurge(j, k) ==
  /\ j \in Purgeable
  /\ cream[j][k].st \in Terminal
  /\ cream' = [cream EXCEPT ![j][k].st = "PURGED"]
  /\ events' = Append(events, <<j, k, "PURGED">>)
  /\ UNCHANGED <<up, dirVars, subVars, rowVars, proxy, queryVars, logVars, token,
                 outVars, crashes>>

\* The replanner moves the token of a job that waits on CREAM, and the
\* workload manager sends a reschedule request.
Replan(j) ==
  /\ j \in Replanned
  /\ db[j] = "IDLE"
  /\ token[j] = [n |-> 0, there |-> TRUE]
  /\ token' = [token EXCEPT ![j].n = 1]
  /\ file' = [file EXCEPT ![<<j, "reschedule">>] = "new"]
  /\ UNCHANGED <<up, pool, recycles, subVars, rowVars, proxy, queryVars, logVars,
                 cream, events, outVars, crashes>>

-----------------------------------------------------------------------------
(* Crash and restart                                                       *)

\* The process dies: its threads, queues and mutexes are gone.
Crash ==
  /\ up # "down"
  /\ crashes < MaxCrashes
  /\ up' = "down"
  /\ crashes' = crashes + 1
  /\ pool' = [r \in Requests |-> 0]
  /\ sub' = [j \in Jobs |-> "idle"]
  /\ reg' = [j \in Jobs |-> 0]
  /\ apc' = [a \in Actors |-> "idle"]
  /\ todo' = [a \in Actors |-> {}]
  /\ upto' = [a \in Actors |-> 0]
  /\ cur' = [a \in Actors |-> Nobody]
  /\ resched' = Nobody
  /\ lbq' = <<>>
  /\ lpc' = [l \in Loggers |-> "idle"]
  /\ ljobs' = [l \in Loggers |-> {}]
  /\ lcur' = [l \in Loggers |-> Nobody]
  /\ UNCHANGED <<file, recycles, kind, rowVars, proxy, lastid, floor, creamVars, outVars>>

\* glite-wms-ice-safe moves old/ back to new/; init() looks for ended jobs.
\* m_start_time is ten minutes ago: as long as no event id is stored, the
\* events that came before it, some of those there are, stay out of sight.
Restart ==
  /\ up = "down"
  /\ up' = "init"
  /\ file' = [r \in Requests |-> IF file[r] = "old" THEN "new" ELSE file[r]]
  /\ todo' = [todo EXCEPT !["init"] =
                {<<j, cid[j]>> : j \in {i \in Jobs : db[i] \in Terminal}}]
  /\ floor' \in IF lastid = 1 THEN floor .. Len(events) ELSE {floor}
  /\ apc' = [apc EXCEPT !["init"] = "next"]
  /\ UNCHANGED <<pool, recycles, subVars, rowVars, proxy, lastid, upto, cur, resched,
                 logVars, creamVars, outVars, crashes>>

InitJob(j, k) ==
  /\ apc["init"] = "next"
  /\ <<j, k>> \in todo["init"]
  /\ todo' = [todo EXCEPT !["init"] = @ \ {<<j, k>>}]
  /\ cur' = [cur EXCEPT !["init"] = <<j, k, db[j]>>]
  /\ apc' = [apc EXCEPT !["init"] = "count"]
  /\ UNCHANGED <<up, dirVars, subVars, rowVars, proxy, lastid, floor, upto, resched, logVars,
                 creamVars, outVars, crashes>>

InitDone ==
  /\ apc["init"] = "next"
  /\ todo["init"] = {}
  /\ apc' = [apc EXCEPT !["init"] = "idle"]
  /\ up' = "up"
  /\ UNCHANGED <<dirVars, subVars, rowVars, proxy, lastid, floor, todo, upto, cur, resched,
                 logVars, creamVars, outVars, crashes>>

-----------------------------------------------------------------------------
MainLoop ==
  \/ \E r \in Requests : ReadRequest(r) \/ PostponeRequest(r) \/ RejectRequest(r)
  \/ Recycle

Command(j) ==
  \/ \E w \in {"submit", "reschedule"} : TakeCommand(<<j, w>>)
  \/ Reschedule(j) \/ Release(j) \/ Lookup(j) \/ CreateJob(j) \/ Count(j)
  \/ Delegate(j) \/ SetBetterProxy(j) \/ Register(j) \/ RegisterTimesOut(j) \/ Redelegate(j)
  \/ SubmitFails(j) \/ BlackListed(j) \/ Record(j) \/ Start(j) \/ StartFails(j) \/ Started(j)
  \/ GiveBack(j) \/ Uncount(j) \/ Remove(j) \/ PurgeRequest(j)

EndJob(a) ==
  UpdateStatus(a) \/ UncountJob(a) \/ RemoveEnded(a) \/ Resubmit(a) \/ PurgeJob(a)

Query(q) ==
  \/ Poll(q) \/ QueryEvents(q) \/ QueryFails(q) \/ QueryWithoutProxy(q)
  \/ SetEventId(q)
  \/ \E j \in Jobs : \E k \in 1 .. Len(cream[j]) : NextJob(q, j, k)

Logging(l) ==
  \/ TakeJobs(l) \/ RemoveAborted(l) \/ UncountAborted(l) \/ JobsLogged(l)
  \/ \E j \in Jobs : \E k \in 0 .. Len(cream[j]) : LogAbort(l, j, k)

World ==
  \E j \in Jobs :
    \/ Cancel(j)
    \/ Replan(j)
    \/ \E k \in 1 .. Len(cream[j]) :
         CreamRun(j, k) \/ CreamPurge(j, k) \/ \E st \in {"DONE_OK", "FAILED"} : CreamEnd(j, k, st)

Recovery ==
  \/ Restart \/ InitDone
  \/ \E j \in Jobs : \E k \in 0 .. Len(cream[j]) : InitJob(j, k)

Next ==
  \/ MainLoop
  \/ \E j \in Jobs : Command(j)
  \/ \E q \in Queries : Query(q)
  \/ \E a \in Actors : EndJob(a)
  \/ \E l \in Loggers : Logging(l)
  \/ World
  \/ Crash
  \/ Recovery

Spec == Init /\ [][Next]_vars

\* Every thread goes on; the poller polls again and again; CREAM in the end
\* accepts a delegation and answers a query, and every job it has started ends.
Fairness ==
  /\ \A r \in Requests : WF_vars(ReadRequest(r))
  /\ WF_vars(Recycle)
  /\ \A j \in Jobs :
       /\ WF_vars(Command(j))
       /\ SF_vars(Register(j) \/ SubmitFails(j) \/ BlackListed(j))
       /\ SF_vars(Reschedule(j))
  /\ \A q \in Queries : WF_vars(Query(q)) /\ SF_vars(QueryEvents(q))
  /\ \A q \in Queries, j \in Jobs :
       SF_vars(\E k \in 1 .. Len(cream[j]) : NextJob(q, j, k))
  /\ \A a \in Actors : WF_vars(EndJob(a))
  /\ \A l \in Loggers : WF_vars(Logging(l))
  /\ WF_vars(Recovery)
  /\ \A j \in Jobs :
       WF_vars(\E k \in 1 .. Len(cream[j]) :
                 CreamRun(j, k) \/ \E st \in {"DONE_OK", "FAILED"} : CreamEnd(j, k, st))

FairSpec == Spec /\ Fairness

-----------------------------------------------------------------------------
(* Properties                                                              *)

\* How often ICE has told the workload manager or the user how the job ended
Outcomes(j) == resub[j] + aborted[j] + (IF j \in ended THEN 1 ELSE 0)

\* A thread that is about to remove the job works on it.
Leaving(j) ==
  \/ sub[j] \in {"remove", "purge"}
  \/ \E a \in Actors : cur[a] # Nobody /\ cur[a][1] = j
  \/ \E l \in Loggers : lcur[l] = j

\* A job is resubmitted or it ends, never both and never twice, whatever the
\* order of its command, the cancellation and the queries.
GivenBackOnce ==
  \A j \in Jobs : resub[j] + (IF j \in ended THEN 1 ELSE 0) <= 1

\* A job that was given to ICE is never forgotten: a request, a command, a
\* row of the database or a thread stands for it until its outcome is known,
\* unless CREAM purged it before ICE saw how it ended.
NotForgotten ==
  \A j \in Jobs :
    \/ Outcomes(j) > 0
    \/ InDb(j) \/ Leaving(j) \/ sub[j] # "idle"
    \/ \E w \in {"submit", "reschedule"} : file[<<j, w>>] # "none" \/ pool[<<j, w>>] > 0
    \/ \E k \in 1 .. Len(cream[j]) : cream[j][k].st = "PURGED"

\* The event id only passes an event when the job it ends has left the
\* database, or has been rescheduled.  The exception is a restart before any
\* event id was stored: events of more than ten minutes before are passed
\* unseen, whatever rows wait for them.
NoEventLost ==
  \A i \in 1 .. lastid - 1 :
    LET j == events[i][1]  k == events[i][2] IN
    i > floor /\ InDb(j) /\ cid[j] = k => token[j].n # tk[j]

\* A query that has looked at a job never updates, releases or removes the row
\* of a later copy of it: no reschedule replaces the row behind its back
\* (s_reschedule_mutex).  Moving old/ back makes a command run twice; then
\* this holds no more.
CurrentCopy ==
  recycles = 0 =>
    \A q \in Queries : apc[q] \in {"update", "count", "remove"} =>
      LET j == cur[q][1] IN InDb(j) => cid[j] = cur[q][2]

\* ICE gives a job back only when no copy of it is waiting or running on CREAM.
ResubmittedDead ==
  \A j \in Jobs : resub[j] > 0 =>
    \A k \in 1 .. Len(cream[j]) : cream[j][k].st \notin {"IDLE", "RUNNING"}

\* Every job in the database leaves it.
EveryRowLeaves == \A j \in Jobs : InDb(j) ~> ~ InDb(j)

\* Every job gets an outcome.
EveryJobEnds == \A j \in Jobs : <>(Outcomes(j) > 0)
=============================================================================
