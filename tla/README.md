# A TLA+ verification of the gLite Workload Management System

The WMS takes grid jobs from users, chooses a computing element for each,
sends the job there, follows it, sends it somewhere else when it fails, and
cancels it when the user asks.  Its processes share little memory: they talk
through job directories (directories used as queues), through files in the
job's sandbox directory, and through the logging and bookkeeping service (LB).
This directory holds TLA+ models of its core, the TLC configurations that check
them, and proofs checked by TLAPS.

    tlc -config MCWMEvents.cfg MCWMEvents      # model-check one run
    tlapm WMEventsProofs.tla                   # check the proofs of one module

`PROJECT.json` lists the components, the runs, the hazards each property is
for, the findings, a mutant per property, and the source lines behind every
definition.

## 1. Inventory

### WMProxy (`org.glite.wms.interface`)

| State | Operations | Hard part | Correct when |
|---|---|---|---|
| the job's directory and its JDL files, what the LB knows of the job, a lock file in the directory, delegated proxies, drain flag | `jobRegister`, `jobSubmit`, `jobStart`, `jobCancel`, `jobPurge`, delegation, list-match, output files | several server processes on one job; `fcntl` locks, which belong to a process; the LB, the delivery or the process may fail at any step | a started job is delivered to the WM once; a cancelled one is not; an accepted job is never dropped in silence |

### Workload manager daemon (`org.glite.wms.core`)

| Component | State | Operations | Hard part | Correct when |
|---|---|---|---|---|
| Event queue (`events.cpp`) | multimaps `ready` and `waiting`, flag `shutdown`, one mutex, one condition | `schedule`, `schedule_at`, `run` (one per worker thread), `stop` | notifications given after the unlock; a deadline computed from a queue others change; `stop` from several threads | no wake-up or timer is lost, nobody sleeps through a stop, an event is executed by one worker |
| Dispatcher (`dispatcher_utils.cpp`) | the items read and not yet dispatched | an event that reads the input, schedules a handler per request, re-schedules itself | a full queue; failures of the input directory, of the LB context, of anything else | no request is lost; every request is served |
| Signal handler, `main()` | `f_received_quit_signal` | `sigwait`, `Events::stop`, the joins | a lock held while the queue is stopped; threads that only look at the flag | the process ends |
| Information supermarket (`ism/`) | two sides of tables, active side, a reference count per side | match, purchase, switch, update | readers and purchaser share no lock; a purchase may fail half way | a reader sees one complete purchase; nothing is cleared under a reader |
| Submission (`submit_request.cpp`, `submission_utils.cpp`, `wm_real.cpp`) | the request file, the JDL in memory, the token in the sandbox, what the LB knows | submit, resubmit (shallow or deep), postpone, abort, deliver | look-then-rename on a token others move; crash between any two steps | a job runs once per (deep) attempt, and always reaches an end |
| Cancellation (`cancel_request.cpp`) | the cancel token | forward to ICE, or abort and purge | races the submission | no start after the abort |
| Replanner (`replanner.cpp`) | the token's number | rename token, log, deliver a new request | races start, resubmission and its own earlier replans | one copy runs; the limit of replans stops the job |
| Recovery (`recovery.cpp`) | request files left in `old/` | group by job, decide which to redo | what was done before the crash is only known from the LB | nothing done twice, nothing forgotten |
| Collections, bulk match-making, DAG nodes | a loop over nodes with checkpoints | as submission, per node | partial failure | every node handled once |
| LB adapter (`lb_utils.cpp`) | contexts, per-job logging | log an event, query status and last events | the LB may not answer | – |
| Broker, matchmakers, job adapter, list-match | – | ClassAd evaluation, generation of the job wrapper | data, not protocol | – |

### ICE (`org.glite.wms.ice`)

| Component | State | Operations | Hard part | Correct when |
|---|---|---|---|---|
| Thread pools (`iceThreads/`) | a queue and a set of pending job ids per pool, one mutex and condition each | add a request, take the first one whose job is free, stop | commands overtake each other; two pools wait for a third; shutdown | commands of a job one at a time and in order; every command executed; the shutdown ends |
| Commands and outcome of a job (`iceCommands/`, `ice/IceCore.cpp`) | the job's row, the last event id, the user's better proxy and its counter | submit, reschedule, cancel, event query, LB logging, resubmit or purge, `init()` | many threads over one database, a transaction at a time; CREAM answers late, twice or never; crash between database, CREAM and request | one outcome per job, no event skipped, no job forgotten |
| Database (`iceDb/`), proxies (`iceUtils/`) | SQLite tables | one transaction each | counters kept apart from the rows they count | a proxy lives as long as a job needs it |

### The other processes

| Component | State | Operations | Hard part | Correct when |
|---|---|---|---|---|
| Job directory (`jobdir.cpp`, `jobdir_reader.cpp`) | `tmp/`, `new/`, `old/` | deliver (write, rename), read (list, rename), dispatch (parse), clean up | a reader, writers, errors and crashes between the steps; nothing is synced | a delivered file is read whole, and kept until it is served |
| File container (`file_container.cpp`) | a doubly linked list in one file, with an undo journal | add, remove, update, truncate, compact, recover | the process dies after any write | an operation is done or undone; the container opens again |
| JobController and LogMonitor (`org.glite.wms.jobsubmission`) | containers of Condor jobs, the parsed position of Condor logs, timers | submit, remove, parse events | restart in the middle of a log | each event applied once |
| Purger (`org.glite.wms.purger`) | sandboxes | remove a sandbox, clean up a storage by age | races a job that is still alive | only ended jobs are removed |
| Clients, APIs, brokerinfo access, configuration, Nagios probes, tests | – | – | no state shared with the services | – |

### How they interact

WMProxy and ICE deliver requests (`jobsubmit`, `jobresubmit`, `jobcancel`) into
the WM's input job directory.  The Dispatcher moves each from `new/` to `old/`,
makes an event of it and puts it into the queue; a worker executes it; the
destructor of its state removes the file.  A submission matches the job
against the ISM, writes a file for ICE and logs both to the LB.  ICE registers
and starts the job on CREAM, remembers it in its database, and when it fails
logs the failure and delivers a `jobresubmit` to the WM.

The token, a file `<token_file>_<n>` in the sandbox, ties submission, replanner,
ICE and the worker node together: the job wrapper removes the token it was sent
with before it starts the user's program, and gives up when it cannot.  The WM
renames the token away before a resubmission, and takes a missing token to mean
that the job has started (deep resubmission) rather than not (shallow).  The
Replanner renames `n` to `n + 1` so that only the new copy can start.

## 2. Modules

| Module | Models | Proofs | TLC |
|---|---|---|---|
| `WMEvents` | event queue, workers, dispatcher, signal handler, `main()` | `WMEventsProofs` | `MCWMEvents` |
| `ISM` | double-buffered tables, matchers, purchaser, updater | `ISMProofs` | `MCISM` |
| `WMJob` | one job across submission, cancellation, replanner, recovery, crash, ICE, CREAM | `WMJobProofs`, `WMJobReplanProofs` | `MCWMJob` |
| `Mailbox` | what a job directory promises (abstract) | – | – |
| `JobDir` | `tmp/`, `new/`, `old/`, writers, reader, start script; implements `Mailbox` | `JobDirProofs` | `MCJobDir` |
| `IcePool` | ICE's thread pools, poller, proxy renewer, shutdown | `IcePoolProofs` | `MCIcePool` |
| `IceJob` | the jobs of a user in ICE: commands, database, event queries, LB logging, crash | `IceJobProofs` | `MCIceJob` |
| `FileContainer` | every write of the file container and its recovery | – | `MCFileContainer` |
| `WMProxy` | one job across WMProxy's server processes | `WMProxyProofs` | `MCWMProxy` |

`WMJob` composes the WM's handlers with the Replanner, ICE and CREAM over one
job; it takes ICE as a component that knows at most one copy, and `IceJob` is
the detailed model of that component.  Both take the job directory as a set of
requests from which each is taken once, and `JobDir` shows what stands behind
that.  `WMJob`, `FileContainer` and `WMProxy` have a type invariant (`TypeOK`)
that documents their state; it holds in their runs and is not listed there.

### WMEvents

A critical section of `Events::Impl::mx` is one step, and the notification,
which the code gives after the unlock, a step of its own.  So a worker between
its unlock and its `notify_one` is a state of the model (`pc = "notify"`), and
others may take the event meanwhile.  `ready` and `waiting` are the multimaps;
`due[e]` is an event's `time_t` relative to now, so that `Tick` (one second)
decrements it.  `deadline[w]` is the absolute time `timed_wait` was given, seen
the same way.  The inner loop of `Events::run` (lines 183-187) does not test
`waiting.empty()`: when another worker has taken the last waiting event,
`begin()->first.time` reads the header of the tree, and `FirstDeadline` then is
either a time long past or a time that never comes.  `NextReady` follows
`priority_first`; equal keys are taken in any order.

`Dispatcher::operator()` is `Quit`, `Full`, `Read` or `ReadError`, then a
`Dispatch` step per item, then `Again`.  `ReadError` covers a `JobDirError`
after any subset of the files was moved to `old/`: their requests are
`stranded`, known to nobody until the daemon is restarted.
`CannotCreateLBContext` strands the request too, and `DispatchError` is any
exception that `Dispatch` lets through.  `Postpone`, `Finish`, `RunInLoop` and
`BadAlloc` are the four ways an execution may end.  A request that recovery found in
limbo may schedule a copy of itself and go on all the same (`LimboPostpone`,
`NotifyLimbo`), so that it is queued, or executed by another worker, beside itself;
`limbo` is the set of these requests.  Copies of one request within a queue are not
counted apart.  `SignalHandler` holds the
mutex of the quit flag while it stops the queue (`QuitLocked`); the dispatcher
and the ISM thread wait for it.

### ISM

A side is a set of entries; the shared pointer whose `use_count` is meant to
count the matchers of a side is the set of matchers that share it.  That
pointer is always null, so `match_on_active_side` (ism.cpp:80-86) resets it at
every call and the set becomes `{m}`.  The purchaser waits, clears the two
slices one after the other, fetches and fills per schema, and switches at the
end.  A failure at any time in between ends the cycle without a switch.  The
first purchase is synchronous, before the worker threads exist (`started`).
The updater is not counted among the matchers and takes the iterators `end()`
and `begin()` in two calls.  Iterators of two different sides run off the table;
`UpdateDone` and `UpdateLost` are the outcomes.  What it does then does not
touch the other actors in the model, and no property speaks of it.

### WMJob

A step ends where the code has looked at, or has changed, something another
actor uses.  `req` holds the request files and the state of their processors.
`tokens` and `tmps` are the numbers for which a token, and the temporary name of
one (a trailing dot), exist.  `lb` keeps what the handlers ask the LB for: the
status, the last enqueue and done events, and the two retry counts.  `rpl` is
the Replanner's place in `Replan::operator()`, `out` is ICE's input (taken in
any order), `copies` are the copies of the job on CREAM, of which ICE *knows* at
most one.  `Crash` drops everything in memory; `Restart` is the init script,
which moves `old/` back to `new/`, followed by `recovery()`.  Each failure the
handlers distinguish is an action, or a disjunct, guarded by `Fault`.

The constant `Limits` is a set of *lives* of a job: how many retries its JDL
gives it, and how many failures, crashes, cancellations and replans it meets.
`Init` chooses one, so one run checks the same properties for all of them.
`overwrites` stands for something `src/` does not decide: whether setting the
replan count in a JDL that has one replaces it.  The behaviours are checked for
both answers.

### Mailbox and JobDir

`Mailbox` is the promise: a request becomes visible in one step, is taken,
goes back when the reader restarts, and leaves when it has been served; with
`Lossy` it may be lost on its way, or come back (`Rollback`).  `JobDir` is the code:
`deliver()` creates a file in `tmp/`, writes it and renames it; `read()` (the reader of
`org.glite.wms.common`; the one of the same name in the core is not compiled) lists
`new/` (a directory that writers change meanwhile), and renames entry by entry into
`old/`; `Dispatch` then parses the files one by one and hands each to a worker, whose
state removes the file; the start script moves `old/` back.  An error of a rename
unwinds `read()` (`SetOldFails`), an LB context that cannot be created drops an item
(`DispatchFails`), a file that has gone ends the daemon, and the start script goes on
when `mv` leaves files behind (`Restart`): `MaxFaults` of these in a behaviour.
Names are a time stamp and the id of the writing thread, and `OpenTmp` draws the
stamp as the code does, so that equal names are a consequence of equal ids and
not excluded.  `Crash` ends the reader anywhere; `PowerFailure` ends the machine.
Nothing in `deliver()`, `set_old()` or the script syncs, so `Writeback` (of a file) and
`SyncName` (of the entries of a name) happen at any time or never, and the crash leaves
the directories that are on the disk (`disk`), with the files that never got there
empty.  A rename is on the disk altogether or not at all, as in a journalled file system.

The refinement mapping `mailStatus` reads a request's place from the directories:
in `new/` it is pending, in `old/` taken, and a request whose `deliver()` has
returned and that is in neither and was not served is lost.  The mailbox is
lossy exactly when the machine can crash.

### IcePool

Three pools of workers run `iceThread::operator()` / `iceThreadPoolWorker`: take
the mutex, wait while no queued command belongs to a free job
(`get_first_request()` skips those whose id is in `m_pending_jobs`), mark the
id, execute, erase it.  The requests pool is fed by the main loop, the commands
pool by the poller (which waits until its query has left the queue), the LB logging pool by event
queries and by the proxy renewer, which first wait until its queue is short.
The id of a command that is not a request is a new one at every call, as
`get_grid_job_id()` computes it from the time.  The shutdown follows
`IceCore`'s order (`StopSteps`); in each pool it sets the flags, notifies and
joins, without the mutex, as the code does.  Poller and renewer look at their flag
only between two iterations and in the sleep that separates them (`Iterate`,
`IterationEnds`).  A `soap_runtime_ex` in a command ends the process with `exit(2)`
(`Exit`), after which no thread takes a step; in `IceJob` this is one of the crashes.

### IceJob

One user's jobs on one CREAM.  A command of a job is a sequence of steps, each
one database transaction or one call to CREAM: look up, create the row, count the
proxy, delegate, register, record the CREAM id, start; or fail, give the job
back, uncount the proxy, remove the row.  The look for a better proxy and its
replacement are two steps (`Delegate`, `SetBetterProxy`).  An event query collects events from
`lastid` on, then handles job by job: update the status, uncount, remove,
resubmit or purge; only then the event id is moved (`SetEventId`).  A query that
finds no better proxy collects all rows for the LB logging pool, which aborts
them.  `cream[j]` is the sequence of copies of job `j` on CREAM.  CREAM may
refuse, time out, lose an answer, or purge a job by itself.  `Crash` clears the
threads and keeps database and directories; `Restart` is `glite-wms-ice-safe`
followed by `IceCore::init()`; `Recycle` is the main loop's moving of `old/` back
to `new/` every 120 iterations, also under the commands that are being executed.
Without a stored event id a query asks for the events since ten minutes before the
process started: `Restart` raises `floor`, the events that are out of sight, by any
number of those there are.

### FileContainer

An operation is computed as the sequence of its writes, each one stream
insertion that the code flushes, and `Write` does one of them, so that `Crash`
can fall between any two.  `Restart` is `initContainer()`: it reads the status
character and computes the writes of the recovery for it.  `list` and `goal` are
ghosts: the entries the users know, and those after the operation under way.
An entry is named by the number of the operation that added it.  `Window` names the
places where the journal does not protect the list (finding 14), and `wounds` is the
ghost that collects those the process has died in: a death may come after every write
of every operation, and the properties say which ones they leave out.

### WMProxy

One job and the server processes that work on it.  A call that is refused before
it changes anything is no step.  `lb` has what the server asks the LB for; a
query sees what has been logged (LBProxy, the default).  The lock is an `fcntl`
lock: its holder does not see it as taken, and closing any descriptor of the file
drops it (`ClosedBy`); a lock that `submit()` leaves behind on an error is freed
only when the process is recycled (`Recycle`).  Each kind of failure (a log call
that throws, an event lost, a query that fails, a delivery that fails, a job directory
that `WMP2WM::init()` cannot open, the death of a server) happens at most once, `MaxFaults` kinds in one behaviour.

## 3. Runs

| Run | Distinct states | Checks | Shows |
|---|---|---|---|
| `events` | 596k | `NoLostWakeup`, `TimerArmed`, `StopWakesAll`, `NoRequestLost`, `ExecutedAlone`, `EveryRequestServed`, `StopEnds` | two workers, a valid and an invalid request, the replanner, a recovered request that may be in limbo, one failure and a signal at any time: no wake-up, timer or request is lost, everything that arrived is served or explicitly stranded, and a stop or a signal ends what it should |
| `ism` | 181k | `ActiveSideComplete`, `LastMatcherProtected`, `PurchaserProceeds` | two matchers, two schemas, failures, the updater: matchers see one complete purchase, the counted matcher is safe, the purchaser is not blocked for ever |
| `job` | 1.37M | `AtMostOneRunning`, `RunsBounded`, `OneToken`, `NotForgotten`, `AbortIsFinal` | four lives of a job (see bounds): one copy runs at a time and as often as the retries allow, the token is unique, the job reaches an end its user can see, and it does not start after its abort |
| `jobdir` | 577k | `NeverPartial`, `NoLoss`, `ListedStillThere`, `MailSpec`, `EventuallyServed` | two writers, the reader, one error of the reader or its start script, one crash of the reader and one of the machine: the directories implement the mailbox, and every delivered request is served, lost with the machine or stranded by the error |
| `ice_pool` | 9.3k | `OnePerJob`, `JobOrder`, `EveryRequestExecuted` | three workers, five requests of two jobs: one command of a job at a time, in order, and every one is executed although others overtake it, unless a command ends the process |
| `ice_pool_lb` | 1.61M | `LBQueueBounded`, `NobodyWaitsForStopped` | poller, renewer and two query workers that feed the LB logging pool, and a shutdown at any time |
| `ice_job` | 2.74M | `TypeOK`, `GivenBackOnce`, `NotForgotten`, `ResubmittedDead` | two jobs, two concurrent event queries, a cancellation, failures of CREAM at any call |
| `ice_job_live` | 110k | `CurrentCopy`, `EveryJobEnds`, `EveryRowLeaves` | a job that is replanned and cancelled while CREAM's answers get lost: no query works on the row of another copy; the job gets an outcome and leaves the database |
| `ice_job_crash` | 4.63M | `NoEventLost` | a crash of ICE anywhere, `old/` moved back under its commands, an expired proxy, CREAM purging by itself: the event id passes no event that was not acted upon, but those that a restart without a stored id does not ask for |
| `fc` | 587k | `WellFormed`, `Atomic`, `Recovers` | every sequence of five operations, with the death of the process after any write: outside the windows of finding 14 the operation is done or undone |
| `wmproxy` | 851k | `DeliveredOnce`, `AcceptedIsSettled`, `CancelledNotDelivered` | three servers, three starts, two cancels, a user's purge, one failure |
| `ice_pool_stop` | violation | `StopTerminates` | see findings |

### Bounds, and why they are enough

* *Two workers* (`events`): every race of the queue is between a worker and one
  other thread, and `main` and the signal handler are there too; the proofs remove
  the bounds for every safety property of the run.  *QueueSize = 2*: the smallest queue
  that can be full while the replanner, which is always ready or waiting, is in
  it and yet has room for a request.  *LongDelay = 2*, *PostponeDelay = 1*: told
  apart, so that the order of deadlines matters.  *Horizon = 1*: how long an
  event has been overdue only orders events of the same priority.  *MaxFaults =
  1*: one failure at any place.
* *Two matchers, one CE entry, no SE entry* (`ism`): a count that forgets needs
  two matchers; a mixture of two purchases needs one entry that may or may not be
  there.  The two slices are cleared and filled alike; the theorems are for any
  tables.
* *Lives* (`job`): a job with one deep and one shallow retry that fails twice, may
  be cancelled and meets one failure of the environment; one whose WM crashes at
  any point and that may be cancelled; one without retries that is replanned and
  may fail; one replanned up to the limit and beyond.  *Slots* are request files
  that exist at a time.
* *Two requests, two writers, two ticks* (`jobdir`): two deliveries may overlap
  in every way, or follow each other in one writer; more writers are covered by
  the theorems.  *One crash of the reader, one of the machine, one error*: each may
  meet the others in any order.
* *Five requests of two jobs, three workers* (`ice_pool`): a request of a busy
  job is overtaken by the other job's while a third worker is idle.  *LBLimit = 0*
  instead of 2: a producer waits sooner.
* *Two jobs of one user* (`ice_job`): they share the better proxy and its counter.
  *Two queries*: the poller waits until its query has been taken, not until it
  has ended, so the next round may query the same user and CREAM.
* *Five operations* (`fc`): enough to insert at both ends and in between, and to
  remove a first, a middle, a last and the only entry, with one death, which
  therefore never falls into a recovery.
* *Three starts, three servers* (`wmproxy`): two starts that race each other, or a
  cancel, and one that comes after a failure.

### What the passing runs do not say

Several promises hold for one kind of trouble and not for two of them together,
or hold except in windows where the code is broken.  The runs stay inside what
holds; section 5 lists what does not.

* `WMJob`: with replans *and* retries `AtMostOneRunning`, `RunsBounded` and
  `AbortIsFinal` fail, since a replan that overlaps a resubmission leaves two
  tokens.  With a crash `RunsBounded` and `AbortIsFinal` fail (a request in limbo
  is delivered twice), which is why they are stated for `crashes = 0`.  With a crash
  *and* a replan `AtMostOneRunning` and `OneToken` fail without any retry.  With a
  crash and a failure of the environment `NotForgotten` fails (a request in limbo
  whose LB query fails is dropped, submit_request.cpp:580-583), and so does
  `OneToken`, as with two crashes (a crash between the creation of a token and its
  rename leaves both names).  The lives are therefore kept apart; that disjunct of `LBFails` does not
  fire in the run.
* `WMJob`: a resubmission numbers the token from 0 again when the old one is gone,
  so the limit of replans counts since the last deep resubmission.
* `IceJob`: with a crash `GivenBackOnce`, `NotForgotten` and `ResubmittedDead` fail, and
  so does `CurrentCopy` when the better proxy expires (findings 10, 11, 18); with `Recycle`, a
  reschedule or a lost answer `GivenBackOnce` and `ResubmittedDead` do (findings
  10-12 and 17), while `NotForgotten` holds (theorem `JobsAreRemembered`).
  `EveryRowLeaves` and `EveryJobEnds` do not hold when a better
  proxy expires during a replan, or with recycling.
* `FileContainer`: the process dies anywhere, but the properties ask nothing after a
  death in a window of `Window`, where they do fail (finding 14): between the reset of
  the journal and its status, in a compaction, in a truncation that has cut off the header, in
  the first insertion, the removal or the update of the only entry once their status is
  written, and in a recovery.  After a death inside any other update the list is whole and the
  container opens, but the entry may be gone: `Atomic` leaves it out.
* `JobDir`: a request that an error of the reader or of the start script left in
  `old/` is served only after the next start (`Stranded` in `EventuallyServed`).
* `WMEvents`: `ExecutedAlone` leaves out requests in limbo, which two workers may
  execute at the same time over one `SubmitState` (finding 4).
* `IceJob`: `NoEventLost` leaves out the events below `floor` (finding 19); with
  `FailBlacklisted` the rows of blacklisted CREAMs never leave and `ice_job_live` has
  none.  `NotForgotten` and `ResubmittedDead` are checked without crashes.
* `WMProxy`: `DeliveredOnce` is stated for starts that do not overlap, and the run
  has one failure and synchronous starts (finding 15).  `AcceptedIsSettled` leaves out a
  job directory of the WM that cannot be opened (finding 20), besides failures of the LB
  and the death of a server.

### Fairness

* Worker threads, `main()`, the signal handler after a signal, the ISM thread,
  ICE's workers, pollers and loggers: weak fairness.  They are POSIX threads that
  the kernel schedules.  A command of ICE ends because its CREAM calls time out, or it
  ends the process.
* `Tick` (`WMEvents`): strong fairness.  Time goes on however often the threads
  wake.  Its guard says that the queue's own bookkeeping takes less than a second.
* ISM: weak fairness of a matcher that has begun (a match is a finite loop) and
  of the purchaser.  Nobody has to begin a match.
* `JobDir`: weak fairness of the reader and the dispatcher (one thread), of the start
  script and of the workers, which serve what they hold.  Nobody has to deliver, and no
  error has to happen.
* `IceJob`: strong fairness of the steps that CREAM, or a lock another thread
  releases, enables again and again: a registration is in the end accepted or
  refused, a query answered, a job of the query's list handled, and the mutex of
  the reschedule obtained.  CREAM starts and ends what it has accepted.
* No fairness for signals, arrivals, crashes, failures and spurious wake-ups: none
  has to happen.
* `WMJob`, `FileContainer` and `WMProxy` have no liveness property; in `WMJob` and
  `WMProxy` `NotForgotten` and `AcceptedIsSettled` are the safety form: whenever
  nobody has anything left to do for the job, it has an end.

## 4. Proofs

The theorems hold for every value of the constants under the assumptions the
modules name, which TLC evaluates on every run: sets that are disjoint or finite
(`CommandWorkers`, in `IcePool`), names that differ from the values that stand for
nobody, positive delays, natural bounds.  Some theorems have a hypothesis of their
own, stated in the theorem.  Where the table names a finding, TLC shows on an instance
that the code breaks the property without the hypothesis:

| Hypothesis | Theorems | Without it |
|---|---|---|
| `IdInjective`: the ids of writing threads differ | `ImplementsMailbox` | TLC violates `MailSpec`: two deliveries draw one name, and one request overwrites the other |
| `AsyncJobStart = FALSE` | `CancelledStaysOut`, `OneDelivery` | finding 15 |
| `MaxFaults <= 1` | `OneDelivery` | finding 15: the log of the success throws and the server dies before the rename |
| `crashes = 0` (a state predicate) | `JobsAreRemembered`, `QueriesActOnCurrentCopy`, `OneOutcome`, `GivenBackIsDead` | findings 10, 11 and 18 |
| `recycles = 0`, `LostReplies = FALSE`, `Replanned = {}` | `OneOutcome`, `GivenBackIsDead` | findings 12 and 17 |
| `Calm`: `crashes = 0 /\ replans = 0` | `StartsArePaid`, `TokenIsUnique`; the property of `AbortsAreFinal` says it itself | section 3; findings 4 to 6 |
| `replans = 0` | `OneCopyRuns` | finding 6 |
| `NoRetries`: `crashes = 0`, no deep and no shallow retries | `OnceRunsAlone`, `OnceStarts`, `OnceOneToken` | finding 6 with a retry and a replan; section 3 with a crash and a replan |
| `crashes = 0 \/ faults = 0` | `ReplannedIsTold`; `OutcomeIsTold`, with `replans = 0` besides, is the special case | section 3: after a crash a request in limbo is dropped when the LB fails |

`Calm`, and the hypotheses on `crashes`, `faults`, `replans` and `recycles`, are about
the past of a state: the theorems speak of behaviours with crashes or replans too, up
to the first.

**WMEventsProofs**, for any number of workers, requests and periodic events.
`Invariance` gives `NeverSleepsThroughWork` (`NoLostWakeup`), `TimersAreArmed`
(`TimerArmed`) and `StopLeavesNobodyAsleep` (`StopWakesAll`).  The inductive invariant
`IInv` adds to them:

* `ExitedStopped`: a worker has left `run` only after a shutdown, so that a
  thread found awake does come back to the queue;
* `DueBounded`: an event that waits is due before `Forever`, so that the
  arbitrary deadline read from an empty map never stands for a real one;
* `StartupFresh`: what `main()` has still to schedule is not queued.

The argument for `TimerArmed`: a worker goes to sleep with the *first* deadline
of the map it sees under the lock, which covers every event in it; an event
inserted later is inserted by a thread that is awake and stays so until it has
looked at the queue again; `Tick` moves deadlines and due times together.

`Placement` adds where every request is, and gives `RequestsAreKept`
(`NoRequestLost`) and `OneWorkerPerEvent` (`ExecutedAlone`).  `NoRequestLost` is not
inductive: a worker that has postponed its request still refers to it until it has
notified, and another worker may have taken, executed and finished it meanwhile.
`Kept` therefore does not count it, and `Apart` says that a request is in one place
at a time, unless it is in limbo.

**ISMProofs**, for any tables and any number of matchers: `ActiveIsComplete`
(`ActiveSideComplete`) and `CountedMatcherIsSafe` (`LastMatcherProtected`), from
`Invariance`.  The invariant needs `DarkContents`, what the dark side holds at
each step of a purchase: after the clear nothing, while it is filled what has
been bought minus what is still to be inserted.  Hence the switch makes a
complete purchase active.  `LastMatcherProtected` rests on the purchaser's wait:
it leaves it with no one counted on the dark side, and only the active side can
gain a matcher.

**WMJobProofs**, for any retry counts, numbers of failures, cancellations and request
files.  `StartsArePaid` (`RunsBounded`), `TokenIsUnique` (`OneToken`) and
`AbortsAreFinal` (`AbortIsFinal`) are about a job without crashes and follow from
`Invariance`.  Besides the shapes of the state (`CalmReq`, `CalmRest`, `CalmLB`) the
invariant `CalmInv` says:

* `OnePlace`: the job is with one undelivered request, or in ICE's input, or on CREAM,
  and in one of these only.  So a cancellation, a late answer and a resubmission never
  find two copies;
* `TmpInUse`: the temporary name of the token exists only while the request that gave
  it is at work.  So the next request finds one name at most;
* `Paid`: who has a token, or will make one, has been paid for by a deep
  resubmission in the LB.  A resubmission looks for the token, finds none and counts,
  and only then makes one; `PaidFor` says what its own copy of the count is worth at
  each step in between;
* `Told`: the sandbox goes only with an abort or a cancellation; a job that is nowhere
  has an outcome in the LB; a job aborted while it is still somewhere has lost its
  sandbox, and the token with it, so that its copy cannot start.  This is why an abort
  by a cancellation that comes too late is final.

`OneCopyRuns` (`AtMostOneRunning`) and `OutcomeIsTold` (`NotForgotten`) also hold over any
number of crashes of the workload manager, and follow from `CrashInvariance`.  After a
crash the job may be in several places: a request that was delivered but whose file was
not yet removed is read again.  Neither `OnePlace` nor the token helps then, and `PlainInv`
says less, but enough:

* ICE knows every copy (`Copies`), and there is one at most (`PlainRest`): only a reschedule
  makes ICE forget a copy, and only a replan makes a reschedule; iceCommandSubmit leaves
  out a job that ICE knows.  So the second delivery of a request starts nothing;
* `Accounted`: there is an outcome in the LB, or the job is in ICE's input, on CREAM, or
  with a request that will still be handled (`Live`).  A recovery leaves out the submission
  of a job whose last outcome is a failure, so that such a submission does not count, but
  never the resubmission that took the job over.  What a crash takes from the event queue
  it leaves on disk.  The only step that drops a live request without an outcome is the
  failed LB query of a request in limbo, and it takes a crash and a fault.

**WMJobReplanProofs**, for any number of replans as well.  `ReplannedIsTold`
(`NotForgotten`) follows from `AnyInvariance`, about every behaviour of the specification.
A replanned job may be in many places, and which of them is the real one does not
matter for the promise; `AnyInv` only says that there is one:

* `Placed` is what a request can be at each step, with any count of replans in its JDL;
  `Newborn` that nobody else has the job before its submission has been delivered to ICE;
* `Promised` is `Accounted` with replans: an outcome, a submission in ICE's input, a copy
  that ICE knows, or a request that is `Handled` for certain.  A reschedule makes ICE forget
  a copy only for the one it sends instead, or for a resubmission.  A replan's own
  request does not count: a recovery may leave it out, but then the copy it was to
  replace is still known to ICE.

`OnceRunsAlone` (`AtMostOneRunning`), `OnceStarts` (`RunsBounded`) and `OnceOneToken`
(`OneToken`) are about a job without retries, and follow from `OnceInvariance`.  Here the
token has a new name after each replan, and copies sent with the old ones may still
be queued on CREAM.  `Once` says:

* `OneSender`: the next copy is with one request, or one message in ICE's input, or the
  Replanner, and the Replanner takes only a job that none of the others has;
* `Ordered`: whoever has it knows the count of the token there is, and every copy was
  sent with a smaller one (`Ahead`), so that none of them can start any more;
* `Single`: there is one token, and none once a copy has started; the user's submission
  is the exception, since it makes a token under a temporary name first (`First`);
* `Frugal`: a resubmission meets its limit and ends, and gives the job no token.  This is
  where retries would break the argument.

**JobDirProofs**, for any number of writers, requests and crashes: `DeliveredIsKept`
(`NoLoss`), `FilesAreWhole` (`NeverPartial`) and `ListingIsFresh` (`ListedStillThere`),
from `Invariance`, whatever the ids of the writers.  The code does not guarantee that
ids differ, so these three do without it: they speak of requests whose file name no
other delivery has drawn.  The invariant `IInv` says that whatever a step goes by is
under the name its delivery drew (`OwnName`, `DataNamed`, `WritersNamed`,
`ReaderNamed`), so a delivery can disturb only those that share its name; and, for a
request whose name is private, that its file is in one directory at a time
(`Placed`), what it holds (`Whole`), and that the reader holds it once, as long as it
is in `old/` (`Held`); and for a request that has reached the disk, that it
was served or the disk has an entry for it, as long as its data is not lost.  A name that is not private now was perhaps private before, but
a name that is private was so since it was drawn, which makes this inductive.

With `IdInjective` every name is private: stamps stay behind the clock (`Stamps`), a
writer draws a later stamp than its last one, and ids separate writers
(`NamesDiffer`).  Then `ImplementsMailbox` (`MailSpec`, the refinement) follows step by
step: each action maps to a step of the mailbox or leaves `mailStatus` alone; a crash of
the machine is a `Rollback`, and a file that it emptied is lost when the dispatcher parses
and removes it.

**IcePoolProofs**, for any number of workers and commands: `JobExclusion`
(`OnePerJob`), `OrderPerJob` (`JobOrder`), `ShutdownOrder` (`NobodyWaitsForStopped`)
and `LBQueueBound` (`LBQueueBounded`).  A busy worker's id is in `m_pending_jobs`
(`Marked`), so `get_first_request()` cannot choose it; it chooses the *first* free
command of a queue sorted by arrival (`Sorted`), and a command of the same job before
it would have been free as well.  For the shutdown, `Joined` says that whoever has been
joined has ended.  For the length of the LB logging queue the commands that are queued
are counted together with the producers that have passed the check and not yet added
theirs (`Room`): the check lets a producer in when the queue is short, and then the
producers alone bound the sum.  It needs that only the commands pool ever holds an
event query (`QueriesApart`).

**IceJobProofs**, for any number of jobs, queries and logging threads:

* `TypeCorrect` (`TypeOK`) and `EventsAreKept` (`NoEventLost`) without a hypothesis:
  crashes, recycling, reschedules, lost answers and expired proxies included.  `Base` is
  the typing with what the steps need of one another; `Seen` says that what a query has
  been given is on its list, is the one it is removing, or is *settled* (its row gone or
  rescheduled), hence nothing is left when it moves the event id; `Recording` that a CREAM job
  whose id is about to be recorded has not been started, so that no event of it can have
  passed; `QueryFloor` and `FloorRises` that what a query leaves out lies below `floor`;
* `JobsAreRemembered` (`NotForgotten`): `Remembered` gives, for each step of a command,
  what stands for its job; `Ends` and `Aborts` that queries and loggers remove a row only
  with an outcome;
* `QueriesActOnCurrentCopy` (`CurrentCopy`): a query that ends a job holds
  `s_reschedule_mutex` (`Holds`), and a command replaces a CREAM id only under the same
  mutex or for a job that ICE does not have (`Fresh`);
* `OneOutcome` (`GivenBackOnce`) and `GivenBackIsDead` (`ResubmittedDead`): `Single` says
  for each step of the command what its only copy on CREAM may be and that nothing has
  been told of it, `Closes` that a query tells of a job that has ended and of which
  nothing was told, after its row has left.

**WMProxyProofs**, for any number of servers and calls: `CancelledStaysOut`
(`CancelledNotDelivered`), `AcceptedJobsSettle` (`AcceptedIsSettled`) and `OneDelivery`
(`DeliveredOnce`).  A start between its lock and the delivery holds the lock
(`Holding`), unless the job's client does not know it yet (`Unknown`); `jobCancel` tests
the lock after it has logged the abort (`AbortFirst`); and once it has found it free, no
server is past the look for an abort that precedes the delivery (`NonePast`).
`Settling` says that as long as an accepted job has no outcome a server is on its way
to one.  `OnceInv` is about starts that do not overlap: what the LB has been told at each
step of a start (`OnTrack`), and that after a delivery the next start is refused by
`isStartAllowed` or finds no JDL to start (`NoRestart`), one of which survives any one
failure.

**Only model-checked**:

* liveness and everything that needs `ENABLED`, which this proof system does not reach:
  `EveryRequestServed`, `StopEnds`, `PurchaserProceeds`, `EventuallyServed`,
  `EveryRequestExecuted`, `EveryJobEnds`, `EveryRowLeaves`;
* `FileContainer` (`WellFormed`, `Atomic`, `Recovers`): an operation is a recursively
  computed sequence of writes, and what it leaves is an induction over the list that
  is outside this proof system;
* `OneToken` in the life with one crash: the proof would have to count the crashes, since
  a second one, while the recovered request renames a token that is there already, leaves
  both names.


## 5. Findings

Finding 1 has a run.  The others were met while modelling; each is
reproduced by a variant of the listed instance, with the property named, or by
reading alone where it says so.

1. **A worker of ICE may sleep through the stop** (run `ice_pool_stop`).
   `stopAllThreads()` sets the flags and notifies without `m_mutex`
   (iceThreadPool.cpp:265); a worker between its test and its wait misses it, and
   `join_all()` never returns.  iceThread.h:75-77 says that the thread terminates.
2. **A stop without a signal leaves the WM running.**  After an exception in the
   Dispatcher ("Exiting...", dispatcher_utils.cpp:411) or a `bad_alloc`
   (events.cpp:205-206) the workers leave, but the ISM thread's loop ends only on the
   quit flag (ism-ii-purchaser.cpp:215), which nobody sets; `main()` joins it for
   ever.  `StopEnds` therefore asks for the end of `main` only after a signal.
3. **The count of matching threads counts one.**  The purchaser is not to populate
   a side that "has threads still matching against it" (ism-ii-purchaser.cpp:99).
   The pointer behind the count is null and reset by every match (ism.cpp:82): with
   two matchers the purchaser clears a side one of them is iterating.
   `LastMatcherProtected` is what remains.
4. **A request in limbo is delivered all the same.**  There is no `return` after the
   `postpone` of submit_request.cpp:575, which is there "to avoid double submission"
   (lb_utils.cpp:1541-1543).  The copy it has scheduled shares its state, and a second
   worker may execute it at the same time (`ExecutedAlone` for requests in limbo).
5. **The last replan aborts the job and sends it on.**  The `unlink` of
   replanner.cpp:202 ("so that the job will stop anyway") names the token's old name,
   and there is no `return`.
6. **Two tokens** (`OneToken` with a replan and a retry).  A replan between a
   resubmission's look for the token and its rename leaves two, which the code calls
   unrecoverable (submit_request.cpp:653, replanner.cpp:147); two copies may then run.
7. **A delivered request may be empty or gone after a crash of the machine** (`NoLoss`
   without its exception).  `deliver()` syncs neither file nor directory: "sync too? yes,
   rename doesn't sync (TODO)" (jobdir.cpp:179).  The dispatcher removes an empty file as
   invalid; a request that was served may come back.
8. **Ids of ICE's polls stay in `m_pending_jobs`.**  "jobs being processed"
   (iceThreadPoolState.h:55); the id erased at iceThreadPool.cpp:179 is computed anew
   from the time and is not the one inserted at line 108: the set grows.
9. **A job that is given back is also aborted.**  The command that gives a job back
   drops its proxy reference before its row (iceCommandSubmit.cpp:302; IceCore.cpp:933
   likewise).  A query in between finds no better proxy and lets the LB logging pool
   abort the job ("because proxy expired"), and decrement the counter a second time
   (iceCommandLBLogging.cpp:127), taking the reference of another job.
10. **A job is forgotten by a crash of ICE** (`NotForgotten` with a crash).
    `resubmit_or_purge_job()` removes the row (IceCore.cpp:936) before
    `resubmit_job()` writes the request.
11. **A job that was given back is started** (`ResubmittedDead` with a crash).  After a
    failed `JobStart` the job is given back; a crash before the row is removed makes the
    restart "ONLY start this job" (iceCommandSubmit.cpp:198-199).
12. **A request is executed again** (`GivenBackOnce` with a recycle).  Every 120
    iterations all of `old/` goes back to `new/` (IceCore.cpp:1152), the files of
    commands being executed included.
13. **ICE never purges an ended job on CREAM.**  `purge_job()` looks the job up
    (IceCore.cpp:958) after its caller removed the row.
14. **Windows of the file container** (`file_container.cpp`; `Window` names them, and the
    properties fail without their condition on `wounds`): the journal is reset
    before the status that refers to it (496: the container may come back empty,
    `Atomic`); a death in the first insertion leaves a container that never opens again
    (843, `Recovers`); the recovery of an insertion, and the removal of the only entry,
    leave `ft_end` before the limits and the size are written (367 and 932,
    `WellFormed`); a compaction that died is "recovered" by copying the erased file
    over its only backup (2220, `Atomic`); a truncation that died after the cut leaves a file
    without a header (364, `Recovers`); a death in an update loses the entry, which is
    erased before it is added again (id_container.cpp:179, `Atomic`).
15. **WMProxy** (`coreoperations.cpp`).  Two overlapping `jobStart` calls both deliver:
    the checks come before the lock and none after it ("ensure only one start
    operation is running at any time", 1154).  With `AsyncJobStart` (off in
    org.glite.wms.configuration, on in org.glite.wms.common/config) successive calls do
    the same, and a cancelled job may be delivered.  `isOperationLocked` in the
    sandbox-limit path does not see the lock of its own process and drops it by its
    `close`.  The lock is kept when `LOG_ACCEPT`, `LOG_ENQUEUE_START`, `isAborted` or a
    write throws.  With two failures (the log of the success throws and the server dies
    before the rename) a repeated start delivers twice.
16. **WMProxy, by reading.**  "Purge allowed if the job is in ABORTED state or DONE
    success" (1036), but the state is checked nowhere.  After a failed delivery the JDL
    has been renamed, so that a start which `isStartAllowed` admits fails.  The handler
    for an expired proxy in `jobStart` catches a type that is not thrown.
    `jobCancel` acts on a status it read before: a start that delivers meanwhile leaves
    a job delivered, then aborted and purged.
17. **A job that was given back runs** (`ResubmittedDead` with a lost answer, or with
    a reschedule; `GivenBackOnce` likewise).  When the answer to `JobStart` gets lost
    ICE gives the job back while its copy runs, and a query that sees the copy's end
    gives it back again.  A reschedule that fails to delegate or to register gives the
    job back too; the copy it was to replace goes on, or has ended, and with it the job.
18. **A query works on the row of another copy** (`CurrentCopy` with a crash and an
    expired better proxy).  Only the reschedule takes `s_reschedule_mutex`
    (iceCommandReschedule.cpp:38), neither the submission nor the LB logging pool.  A
    crash after `JobStart` has the request executed again; the logging pool removes the
    row while a query, which holds the mutex, acts on the end of the copy; the repeated
    command finds no row and inserts a new one, and the query goes on with that.
19. **A restart may pass events** (`NoEventLost` without `i > floor`).  A query that has no
    stored event id asks for the events since ten minutes before ICE started
    (iceCommandEventQuery.cpp:249-261), "because ICE is not intersted in old jobs/events
    that has been removed from its database" (IceCore.cpp:228-232).  But a crash before the
    first id is stored leaves the rows in the database: after a longer outage the end of
    such a job is not asked for, and the id passes it.
20. **An accepted job is left hanging** (`AcceptedIsSettled` with `init` among its faults).
    `WMP2WM::init()` opens the WM's job directory outside the `try` of
    `WMP2WM::submit()` (coreoperations.cpp:1791-1793, wmp2wm.cpp:144, jobdir.cpp:113-121):
    when that throws, ACCEPTED and the start of the enqueue have been logged and neither
    its failure nor an abort follows, the lock is kept, and later starts are refused.

The comment at wm_real.cpp:238-239 says that a job whose cancellation arrived
too late is cancelled by the CancelProcessor, whose re-scheduling is commented
out (cancel_request.cpp:238-244).  The job cannot start all the same, since its
sandbox, and so its token, has been purged: `AbortIsFinal` covers it.

## 6. Not modelled

* *Code that is not the system's own.*  Most of the repository's implementation
  lines are SQLite (144 000 lines), two copies of the gSOAP run time (30 000) and
  generated or user-interface code; there is no protocol of the WMS in them.  The map
  covers about 7 700 lines in 47 files: the parts that keep shared or persistent state.
* *Data without protocol*: ClassAd evaluation, requirements and ranks, job wrapper
  generation, LDAP parsing, configuration, logging, clients and bindings, list-match.
* *Undefined behaviour inside containers*: the unlocked `ready_size()`
  (events.cpp:120), the ordering `time_first` that is not strict (events.cpp:56); the
  model reads the size in one step and keeps the maps intact.  Likewise what the
  updater does with iterators of two sides.
* *Collections and DAGs*, jobs without shallow resubmission, and the path through
  JobController to Condor.
* *LogMonitor and JobController.*  Only their container is modelled.  From reading:
  position, pending count and `last` of a log are written together after each event,
  the containers at once, so that a crash in between repeats the event (two
  resubmissions) or leaves the pending count too high and the log never recycled;
  `insert` refuses a job that is already there although pending was incremented; an
  exhausted cancel retry removes the entry without the decrement.
* *ICE*: leases, the renewal of delegations, the status poller of old CREAMs, a CREAM
  whose database was scratched, SQL errors, a better proxy whose file cannot be copied
  (`setBetterProxy`), and `GLITE_WMS_ICE_NORESUBMIT`, which is taken as not set.
* *File container*: two processes that share a container (time stamp and lock), I/O
  errors, the iterator in file order.  The size in the header is taken from it, never
  recounted.
* *Job directory*: `readdir` of an entry that is renamed while it is listed returns it
  or not; errors in listing a directory or in removing a file; what a crash of the machine
  leaves in `tmp/`.
* *WMProxy*: the steps inside a registration, collections, output files, delegation,
  quotas, authorization, the SOAP layer.
* *Purger*: the stand-alone clean-up of a storage by age.

## 7. Plan

Done: the modules of section 2 with their runs; proofs of every safety property but
those of `FileContainer`, of `WMJob` with and without replans, and of the refinement of
the mailbox.  Left, in order of weight:

1. A proof of `OneToken` with one crash.
2. An abstract "one known copy, one outcome" that `WMJob` assumes of ICE, and the
   refinement by `IceJob` under the hypotheses of `OneOutcome`.
3. `LogMonitor`: log positions, containers and timers over a restart, on top of
   `FileContainer`.
4. `WMCollection`: the loop over nodes, its checkpoints and partial failures, the
   cancellation node by node.
