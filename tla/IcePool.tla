------------------------------ MODULE IcePool ------------------------------
(***************************************************************************)
(* The threads of ICE: three pools of workers (iceThreadPool) that execute *)
(* commands, the poller and the proxy renewer that feed two of them, and   *)
(* the main loop, which feeds the pool of requests and, when ICE has       *)
(* grown too large, stops everything so that it can be restarted.          *)
(*                                                                         *)
(*   requests  submit, cancel and reschedule commands of the jobs          *)
(*   commands  event queries, queued by the poller                         *)
(*   lblog     logging of aborted jobs, queued by event queries and by the *)
(*             renewer, which first wait for that queue to get short       *)
(*                                                                         *)
(* A command is <<kind, n>>.  What a command does to a job is in IceJob.   *)
(***************************************************************************)
EXTENDS Integers, Sequences, FiniteSets

CONSTANTS
  RequestWorkers, CommandWorkers, LBWorkers,   \* the threads of each pool
  NumRequests,    \* bound: requests that arrive
  JobOf,          \* the job of each request
  MaxQueries,     \* bound: event queries queued by the poller
  MaxRenewals,    \* bound: expired delegations the renewer finds
  LBLimit,        \* lblog queue length above which a producer waits (2)
  CanStop,        \* whether the memory limit may be reached
  None

ASSUME BoundsAssumption ==
  /\ NumRequests \in Nat
  /\ MaxQueries \in Nat
  /\ MaxRenewals \in Nat
  /\ LBLimit \in Nat
  /\ CanStop \in BOOLEAN

ASSUME JobAssumption == DOMAIN JobOf = 1 .. NumRequests

Pools == {"requests", "commands", "lblog"}

Producers == {"poller", "renewer"}

Workers == RequestWorkers \cup CommandWorkers \cup LBWorkers

ASSUME PoolsAssumption ==
  /\ RequestWorkers \cap CommandWorkers = {}
  /\ RequestWorkers \cap LBWorkers = {}
  /\ CommandWorkers \cap LBWorkers = {}
  /\ Workers \cap Producers = {}
  /\ None \notin Workers

ASSUME FiniteAssumption == IsFiniteSet(CommandWorkers)

WorkersOf(p) == CASE p = "requests" -> RequestWorkers
                  [] p = "commands" -> CommandWorkers
                  [] p = "lblog" -> LBWorkers

PoolOf(w) == IF w \in RequestWorkers THEN "requests"
             ELSE IF w \in CommandWorkers THEN "commands" ELSE "lblog"

VARIABLES
  queue,     \* m_requests_queue of each pool
  pending,   \* m_pending_jobs of each pool
  mutex,     \* holder of m_mutex of each pool, where it is held across steps
  wpc, cmd,  \* each worker: where it is, and the command it executes
  stopped,   \* threads whose m_stopped is set
  ppc,       \* the poller and the renewer
  mpc,       \* the main loop: <<0, "run">>, or where it is in the shutdown;
             \* <<k, "exit">> when the process has ended
  added,     \* requests queued so far
  queries, renewals, logs,   \* commands of the other kinds created so far
  done       \* commands executed

vars == <<queue, pending, mutex, wpc, cmd, stopped, ppc, mpc, added, queries,
          renewals, logs, done>>

producers == <<ppc, queries, renewals>>

Commands == ({"request"} \X (1 .. NumRequests))
            \cup ({"query"} \X (1 .. MaxQueries))
            \cup ({"log"} \X (1 .. MaxQueries + MaxRenewals))

Ids == ({"job"} \X {JobOf[n] : n \in 1 .. NumRequests}) \cup Commands

StopSteps == <<"poller", "renewer", "requests", "commands", "lblog">>

TypeOK ==
  /\ queue \in [Pools -> Seq(Commands)]
  /\ pending \in [Pools -> SUBSET Ids]
  /\ mutex \in [Pools -> Workers \cup {None}]
  /\ wpc \in [Workers -> {"top", "lock", "test", "waiting", "woken", "exec",
                          "lbcheck", "lbadd", "finish", "ended"}]
  /\ cmd \in [Workers -> Commands \cup {None}]
  /\ stopped \subseteq Workers \cup Producers
  /\ ppc \in [Producers -> {"top", "loop", "queued", "lbcheck", "lbadd", "ended"}]
  /\ mpc \in (0 .. Len(StopSteps)) \X {"run", "flag", "notify", "join", "exit"}
  /\ added \in 0 .. NumRequests
  /\ queries \in 0 .. MaxQueries
  /\ renewals \in 0 .. MaxRenewals
  /\ logs \in 0 .. MaxQueries + MaxRenewals
  /\ done \subseteq Commands

Init ==
  /\ queue = [p \in Pools |-> <<>>]
  /\ pending = [p \in Pools |-> {}]
  /\ mutex = [p \in Pools |-> None]
  /\ wpc = [w \in Workers |-> "top"]
  /\ cmd = [w \in Workers |-> None]
  /\ stopped = {}
  /\ ppc = [t \in Producers |-> "top"]
  /\ mpc = <<0, "run">>
  /\ added = 0
  /\ queries = 0
  /\ renewals = 0
  /\ logs = 0
  /\ done = {}

Alive == mpc[2] # "exit"

-----------------------------------------------------------------------------
(* The pool                                                                *)

\* get_grid_job_id(): the job for submit, cancel and reschedule; the time of
\* the call, different every time, for event queries and LB logging.
IdOf(c) == IF c[1] = "request" THEN <<"job", JobOf[c[2]]>> ELSE c

\* get_first_request(): the first command whose id is not in m_pending_jobs
IsFirst(p, i) ==
  /\ i \in 1 .. Len(queue[p])
  /\ IdOf(queue[p][i]) \notin pending[p]
  /\ \A k \in 1 .. i - 1 : IdOf(queue[p][k]) \in pending[p]

Available(p) == \E i \in 1 .. Len(queue[p]) : IsFirst(p, i)

Without(q, i) == SubSeq(q, 1, i - 1) \o SubSeq(q, i + 1, Len(q))

\* notify_all() moves the waiting workers of the pool; w is the caller.
Notified(p, pc) ==
  [w \in Workers |-> IF PoolOf(w) = p /\ pc[w] = "waiting" THEN "woken" ELSE pc[w]]

\* add_request(), called by thread t which goes on at pc
AddRequest(p, c, pc) ==
  /\ mutex[p] = None
  /\ queue' = [queue EXCEPT ![p] = Append(@, c)]
  /\ wpc' = Notified(p, pc)

\* while( !isStopped() )
Top(w) ==
  /\ wpc[w] = "top"
  /\ wpc' = [wpc EXCEPT ![w] = IF w \in stopped THEN "ended" ELSE "lock"]
  /\ UNCHANGED <<queue, pending, mutex, cmd, stopped, producers, mpc, added,
                 logs, done>>

Lock(w) ==
  /\ wpc[w] = "lock"
  /\ mutex[PoolOf(w)] = None
  /\ mutex' = [mutex EXCEPT ![PoolOf(w)] = w]
  /\ wpc' = [wpc EXCEPT ![w] = "test"]
  /\ UNCHANGED <<queue, pending, cmd, stopped, producers, mpc, added, logs, done>>

\* Nothing can be executed: wait, which releases the mutex.
Wait(w) ==
  /\ wpc[w] = "test"
  /\ ~ Available(PoolOf(w))
  /\ mutex' = [mutex EXCEPT ![PoolOf(w)] = None]
  /\ wpc' = [wpc EXCEPT ![w] = "waiting"]
  /\ UNCHANGED <<queue, pending, cmd, stopped, producers, mpc, added, logs, done>>

\* Woken by notify_all, the worker gets the mutex back and looks at m_stopped
\* before it looks at the queue again.
Wake(w) ==
  /\ wpc[w] = "woken"
  /\ mutex[PoolOf(w)] = None
  /\ IF w \in stopped
     THEN /\ wpc' = [wpc EXCEPT ![w] = "ended"]
          /\ UNCHANGED mutex
     ELSE /\ wpc' = [wpc EXCEPT ![w] = "test"]
          /\ mutex' = [mutex EXCEPT ![PoolOf(w)] = w]
  /\ UNCHANGED <<queue, pending, cmd, stopped, producers, mpc, added, logs, done>>

\* The first command that can be executed leaves the queue; its id is marked.
TakeMutant(w) ==
  LET p == PoolOf(w) IN
  /\ wpc[w] = "test"
  /\ \E i \in 1 .. Len(queue[p]) :
       /\ IsFirst(p, i)
       /\ cmd' = [cmd EXCEPT ![w] = queue[p][i]]
       /\ queue' = [queue EXCEPT ![p] = Without(@, i)]
  /\ mutex' = [mutex EXCEPT ![p] = None]
  /\ wpc' = [wpc EXCEPT ![w] = "exec"]
  /\ UNCHANGED <<pending, stopped, producers, mpc, added, logs, done>>

TakeAnyMutant(w) ==
  LET p == PoolOf(w) IN
  /\ wpc[w] = "test"
  /\ \E i \in 1 .. Len(queue[p]) :
       /\ IdOf(queue[p][i]) \notin pending[p]
       /\ cmd' = [cmd EXCEPT ![w] = queue[p][i]]
       /\ queue' = [queue EXCEPT ![p] = Without(@, i)]
       /\ pending' = [pending EXCEPT ![p] = @ \cup {IdOf(queue[p][i])}]
  /\ mutex' = [mutex EXCEPT ![p] = None]
  /\ wpc' = [wpc EXCEPT ![w] = "exec"]
  /\ UNCHANGED <<stopped, producers, mpc, added, logs, done>>

Take(w) ==
  LET p == PoolOf(w) IN
  /\ wpc[w] = "test"
  /\ \E i \in 1 .. Len(queue[p]) :
       /\ IsFirst(p, i)
       /\ cmd' = [cmd EXCEPT ![w] = queue[p][i]]
       /\ queue' = [queue EXCEPT ![p] = Without(@, i)]
       /\ pending' = [pending EXCEPT ![p] = @ \cup {IdOf(queue[p][i])}]
  /\ mutex' = [mutex EXCEPT ![p] = None]
  /\ wpc' = [wpc EXCEPT ![w] = "exec"]
  /\ UNCHANGED <<stopped, producers, mpc, added, logs, done>>

\* cmd->execute(): what it throws is caught ...
Execute(w) ==
  /\ wpc[w] = "exec"
  /\ wpc' = [wpc EXCEPT ![w] = "finish"]
  /\ done' = done \cup {cmd[w]}
  /\ UNCHANGED <<queue, pending, mutex, cmd, stopped, producers, mpc, added, logs>>

\* ... but soap_runtime_ex ends the process, with exit(2) in the worker.
Exit(w) ==
  /\ wpc[w] = "exec"
  /\ mpc' = <<mpc[1], "exit">>
  /\ UNCHANGED <<queue, pending, mutex, wpc, cmd, stopped, producers, added,
                 logs, done>>

\* An event query that finds jobs to abort hands them to the lblog pool.
QueryAborts(w) ==
  /\ wpc[w] = "exec"
  /\ cmd[w][1] = "query"
  /\ wpc' = [wpc EXCEPT ![w] = "lbcheck"]
  /\ UNCHANGED <<queue, pending, mutex, cmd, stopped, producers, mpc, added,
                 logs, done>>

\* while( get_command_count() > 2 ) sleep(2), with the mutex for the count only
LBCheckMutant(w) ==
  /\ wpc[w] = "lbcheck"
  /\ mutex["lblog"] = None
  /\ wpc' = [wpc EXCEPT ![w] = "lbadd"]
  /\ UNCHANGED <<queue, pending, mutex, cmd, stopped, producers, mpc, added,
                 logs, done>>

LBCheck(w) ==
  /\ wpc[w] = "lbcheck"
  /\ mutex["lblog"] = None
  /\ Len(queue["lblog"]) <= LBLimit
  /\ wpc' = [wpc EXCEPT ![w] = "lbadd"]
  /\ UNCHANGED <<queue, pending, mutex, cmd, stopped, producers, mpc, added,
                 logs, done>>

LBAdd(w) ==
  /\ wpc[w] = "lbadd"
  /\ AddRequest("lblog", <<"log", logs + 1>>, [wpc EXCEPT ![w] = "finish"])
  /\ logs' = logs + 1
  /\ done' = done \cup {cmd[w]}
  /\ UNCHANGED <<pending, mutex, cmd, stopped, producers, mpc, added>>

\* m_pending_jobs.erase( get_grid_job_id() ): for a command whose id is the
\* time, what is erased is not what was inserted.
Erased(c) == IF c[1] = "request" THEN {IdOf(c)} ELSE {}

FinishMutant(w) ==
  LET p == PoolOf(w) IN
  /\ wpc[w] = "finish"
  /\ mutex[p] = None
  /\ wpc' = Notified(p, [wpc EXCEPT ![w] = "top"])
  /\ cmd' = [cmd EXCEPT ![w] = None]
  /\ UNCHANGED <<queue, pending, mutex, stopped, producers, mpc, added, logs, done>>

Finish(w) ==
  LET p == PoolOf(w) IN
  /\ wpc[w] = "finish"
  /\ mutex[p] = None
  /\ pending' = [pending EXCEPT ![p] = @ \ Erased(cmd[w])]
  /\ wpc' = Notified(p, [wpc EXCEPT ![w] = "top"])
  /\ cmd' = [cmd EXCEPT ![w] = None]
  /\ UNCHANGED <<queue, mutex, stopped, producers, mpc, added, logs, done>>

-----------------------------------------------------------------------------
(* The poller and the renewer                                              *)

\* while( !isStopped() ): m_stopped is looked at between two iterations and in
\* the sleep that separates them, never inside an iteration, which handles many
\* pairs of user and CE, or many delegations.
Iterate(t) ==
  /\ ppc[t] = "top"
  /\ t \notin stopped
  /\ IF t = "poller" THEN queries < MaxQueries ELSE renewals < MaxRenewals
  /\ ppc' = [ppc EXCEPT ![t] = "loop"]
  /\ UNCHANGED <<queue, pending, mutex, wpc, cmd, stopped, mpc, added, queries,
                 renewals, logs, done>>

IterationEnds(t) ==
  /\ ppc[t] = "loop"
  /\ ppc' = [ppc EXCEPT ![t] = "top"]
  /\ UNCHANGED <<queue, pending, mutex, wpc, cmd, stopped, mpc, added, queries,
                 renewals, logs, done>>

\* The poller queues an event query, and the next one when the queue is empty.
Poll ==
  /\ ppc["poller"] = "loop"
  /\ queries < MaxQueries
  /\ AddRequest("commands", <<"query", queries + 1>>, wpc)
  /\ queries' = queries + 1
  /\ ppc' = [ppc EXCEPT !["poller"] = "queued"]
  /\ UNCHANGED <<pending, mutex, cmd, stopped, mpc, added, renewals, logs, done>>

PollDone ==
  /\ ppc["poller"] = "queued"
  /\ mutex["commands"] = None
  /\ queue["commands"] = <<>>
  /\ ppc' = [ppc EXCEPT !["poller"] = "loop"]
  /\ UNCHANGED <<queue, pending, mutex, wpc, cmd, stopped, mpc, added, queries,
                 renewals, logs, done>>

\* The renewer finds a proxy that has expired: its jobs go to the lblog pool.
Renew ==
  /\ ppc["renewer"] = "loop"
  /\ renewals < MaxRenewals
  /\ renewals' = renewals + 1
  /\ ppc' = [ppc EXCEPT !["renewer"] = "lbcheck"]
  /\ UNCHANGED <<queue, pending, mutex, wpc, cmd, stopped, mpc, added, queries,
                 logs, done>>

RenewCheck ==
  /\ ppc["renewer"] = "lbcheck"
  /\ mutex["lblog"] = None
  /\ Len(queue["lblog"]) <= LBLimit
  /\ ppc' = [ppc EXCEPT !["renewer"] = "lbadd"]
  /\ UNCHANGED <<queue, pending, mutex, wpc, cmd, stopped, mpc, added, queries,
                 renewals, logs, done>>

RenewAdd ==
  /\ ppc["renewer"] = "lbadd"
  /\ AddRequest("lblog", <<"log", logs + 1>>, wpc)
  /\ logs' = logs + 1
  /\ ppc' = [ppc EXCEPT !["renewer"] = "loop"]
  /\ UNCHANGED <<pending, mutex, cmd, stopped, mpc, added, queries, renewals, done>>

ProducerEnds(t) ==
  /\ ppc[t] = "top"
  /\ t \in stopped
  /\ ppc' = [ppc EXCEPT ![t] = "ended"]
  /\ UNCHANGED <<queue, pending, mutex, wpc, cmd, stopped, mpc, added, queries,
                 renewals, logs, done>>

-----------------------------------------------------------------------------
(* The main loop                                                           *)

\* A new request, unless the queue holds more commands than there are threads.
NewRequest ==
  /\ mpc = <<0, "run">>
  /\ added < NumRequests
  /\ Len(queue["requests"]) <= Cardinality(RequestWorkers)
  /\ AddRequest("requests", <<"request", added + 1>>, wpc)
  /\ added' = added + 1
  /\ UNCHANGED <<pending, mutex, cmd, stopped, producers, mpc, logs, done>>

\* max_ice_mem exceeded: the poller, the renewer and the pools are stopped,
\* each one joined before the next.
MemoryLimit ==
  /\ CanStop
  /\ mpc = <<0, "run">>
  /\ mpc' = <<1, "flag">>
  /\ UNCHANGED <<queue, pending, mutex, wpc, cmd, stopped, producers, added,
                 logs, done>>

ThreadsOf(s) == IF s \in Producers THEN {s} ELSE WorkersOf(s)

\* stop() on every thread of the step, without the mutex
StopFlag(k) ==
  /\ mpc = <<k, "flag">>
  /\ stopped' = stopped \cup ThreadsOf(StopSteps[k])
  /\ mpc' = <<k, "notify">>
  /\ UNCHANGED <<queue, pending, mutex, wpc, cmd, producers, added, logs, done>>

\* notify_all(), without the mutex
StopNotify(k) ==
  /\ mpc = <<k, "notify">>
  /\ wpc' = Notified(StopSteps[k], wpc)
  /\ mpc' = <<k, "join">>
  /\ UNCHANGED <<queue, pending, mutex, cmd, stopped, producers, added, logs, done>>

Ended(t) == IF t \in Producers THEN ppc[t] = "ended" ELSE wpc[t] = "ended"

StopJoinMutant(k) ==
  /\ mpc = <<k, "join">>
  /\ mpc' = IF k < Len(StopSteps) THEN <<k + 1, "flag">> ELSE <<k, "exit">>
  /\ UNCHANGED <<queue, pending, mutex, wpc, cmd, stopped, producers, added,
                 logs, done>>

StopJoin(k) ==
  /\ mpc = <<k, "join">>
  /\ \A t \in ThreadsOf(StopSteps[k]) : Ended(t)
  /\ mpc' = IF k < Len(StopSteps) THEN <<k + 1, "flag">> ELSE <<k, "exit">>
  /\ UNCHANGED <<queue, pending, mutex, wpc, cmd, stopped, producers, added,
                 logs, done>>

-----------------------------------------------------------------------------
WorkerStep(w) ==
  /\ Alive
  /\ \/ Top(w) \/ Lock(w) \/ Wait(w) \/ Wake(w) \/ Take(w) \/ Execute(w)
     \/ Exit(w) \/ QueryAborts(w) \/ LBCheck(w) \/ LBAdd(w) \/ Finish(w)

\* What a producer has begun; it need not begin another iteration.
GoesOn(t) ==
  /\ Alive
  /\ \/ IterationEnds(t) \/ ProducerEnds(t)
     \/ t = "poller" /\ PollDone
     \/ t = "renewer" /\ (RenewCheck \/ RenewAdd)

ProducerStep ==
  \/ \E t \in Producers : (Alive /\ Iterate(t)) \/ GoesOn(t)
  \/ Alive /\ (Poll \/ Renew)

MainStop ==
  \E k \in 1 .. Len(StopSteps) : StopFlag(k) \/ StopNotify(k) \/ StopJoin(k)

Next ==
  \/ \E w \in Workers : WorkerStep(w)
  \/ ProducerStep
  \/ NewRequest
  \/ MemoryLimit
  \/ MainStop

Spec == Init /\ [][Next]_vars

(***************************************************************************)
(* Every thread runs: a worker that can take a step takes it, commands     *)
(* terminate (the CREAM client has time-outs), and the main thread goes on *)
(* with a shutdown it has begun.  The process may end at any command.      *)
(***************************************************************************)
FairSpec ==
  /\ Spec
  /\ \A w \in Workers : WF_vars(WorkerStep(w))
  /\ \A t \in Producers : WF_vars(GoesOn(t))
  /\ WF_vars(MainStop)

-----------------------------------------------------------------------------
(* Properties                                                              *)

Busy(w) == wpc[w] \in {"exec", "lbcheck", "lbadd", "finish"}

(***************************************************************************)
(* Two workers never execute commands of the same job at the same time: a  *)
(* cancellation does not run into the submission of its job, nor two       *)
(* submissions of one job into each other.                                 *)
(***************************************************************************)
OnePerJob ==
  \A v, w \in RequestWorkers :
    Busy(v) /\ Busy(w) /\ IdOf(cmd[v]) = IdOf(cmd[w]) => v = w

(***************************************************************************)
(* The commands of a job start in the order in which they were queued,     *)
(* although get_first_request() lets those of other jobs overtake.         *)
(***************************************************************************)
JobOrder ==
  [][\A w \in RequestWorkers : wpc[w] = "test" /\ wpc'[w] = "exec" =>
       \A i \in 1 .. Len(queue'["requests"]) :
         IdOf(queue'["requests"][i]) = IdOf(cmd'[w])
           => queue'["requests"][i][2] > cmd'[w][2]]_vars

(***************************************************************************)
(* Checking the length of the lblog queue and adding to it are two steps:  *)
(* the queue can exceed the limit, by one command per producer.            *)
(***************************************************************************)
LBQueueBounded == Len(queue["lblog"]) <= LBLimit + Cardinality(CommandWorkers) + 1

(***************************************************************************)
(* The order of the shutdown is right: as long as somebody waits for the   *)
(* lblog queue to drain, or is about to add to it, the workers of that     *)
(* pool have not been stopped; and the poller does not wait for a stopped  *)
(* pool.                                                                   *)
(***************************************************************************)
NobodyWaitsForStopped ==
  /\ (\/ \E w \in CommandWorkers : wpc[w] \in {"lbcheck", "lbadd"}
      \/ ppc["renewer"] \in {"lbcheck", "lbadd"}) => LBWorkers \cap stopped = {}
  /\ ppc["poller"] = "queued" => CommandWorkers \cap stopped = {}

(***************************************************************************)
(* Every request that was queued is executed, if ICE is not stopped and no *)
(* command ends the process.                                               *)
(***************************************************************************)
EveryRequestExecuted ==
  \A n \in 1 .. NumRequests : added >= n ~> <<"request", n>> \in done \/ ~ Alive

(***************************************************************************)
(* iceThread.h: after stop(), "at the end of the current iteration, the    *)
(* thread will terminate".  So do all threads when the process ends.       *)
(***************************************************************************)
StopTerminates == \A w \in Workers : w \in stopped ~> wpc[w] = "ended" \/ ~ Alive
=============================================================================
