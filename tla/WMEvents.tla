------------------------------ MODULE WMEvents ------------------------------
(***************************************************************************)
(* The heart of the workload manager daemon: the Events queue, the worker  *)
(* threads that execute it (Events::run), the Dispatcher event that feeds  *)
(* it from the input job directory, the SignalHandler thread and the way   *)
(* main() waits for all of them.                                           *)
(*                                                                         *)
(* A critical section of Events::Impl::mx is one step; the notification    *)
(* that follows the unlock is a step of its own, as in the code.  Time is  *)
(* relative: due[e] is the time_t of a queued event minus std::time(0).    *)
(***************************************************************************)
EXTENDS Integers, FiniteSets

CONSTANTS Workers,         \* worker_threads of the configuration
          Requests,        \* the requests that reach the input job directory
          Cancels,         \* those of them that are jobcancel commands
          Invalid,         \* those of them Dispatch cannot turn into an event
          Periodics,       \* events that re-schedule themselves for ever:
          Replanner,       \* ... the replanner's; the others are of the ISM
          QueueSize,       \* wm()->queue_size()
          LongDelay,       \* one_minute, in ticks (one tick: one_second)
          PostponeDelay,   \* delay of a postponed request, in ticks
          Horizon,         \* ages beyond it are not told apart (bound)
          MaxFaults,       \* failures of the environment (bound)
          HaveIsmThreads   \* wm()->ism_threads()

FirstDispatch == "first_dispatch"
Dispatcher    == "dispatcher"
Dispatchers   == {FirstDispatch, Dispatcher}
Ev            == Requests \cup Periodics \cup Dispatchers
None          == "none"
Forever       == LongDelay + PostponeDelay + 1

ASSUME EventsAssumption ==
  /\ IsFiniteSet(Workers) /\ Workers # {}
  /\ Cancels \subseteq Requests /\ Invalid \subseteq Requests
  /\ Requests \cap Periodics = {} /\ Replanner \subseteq Periodics
  /\ (Requests \cup Periodics) \cap {FirstDispatch, Dispatcher, None} = {}
  /\ QueueSize \in Nat \ {0} /\ MaxFaults \in Nat
  /\ LongDelay \in Nat \ {0} /\ PostponeDelay \in Nat \ {0}
  /\ Horizon \in Nat \ {0}
  /\ HaveIsmThreads \in BOOLEAN

VARIABLES ready, waiting,  \* the two multimaps, by event
          due,             \* the time component of an event's key, relative
          shutdown,        \* Events::Impl::shutdown
          quit,            \* f_received_quit_signal
          pc, ev,          \* of each worker: where it is, what it executes
          deadline,        \* what it waits for in timed_wait, relative
          items,           \* InputItems a dispatching worker still holds
          coming, input,   \* requests not yet delivered; delivered, in new/
          limbo,           \* recovered requests whose state is SubmitState::LIMBO
          served,          \* requests that have been executed to their end
          stranded,        \* read, but known to nobody: they are in old/ and
                           \* wait there for the next start of the daemon
          main, sig, ism,  \* main(), the SignalHandler, the ISM thread
          startup,         \* events main() has still to schedule
          faults           \* failures of the environment so far

vars == <<ready, waiting, due, shutdown, quit, pc, ev, deadline, items,
          coming, input, limbo, served, stranded, main, startup, sig, ism,
          faults>>
queue == <<ready, waiting, due>>
threads == <<main, startup, sig, ism>>
env   == <<coming, input, limbo, served, stranded, threads, faults>>

-----------------------------------------------------------------------------
\* The priorities of events.h; the first dispatch uses the default.
Priority(e) == CASE e = FirstDispatch -> 0
                 [] e \in Replanner   -> 40
                 [] e \in Periodics   -> 10
                 [] e = Dispatcher    -> 20
                 [] e \in Cancels     -> 50
                 [] OTHER             -> 60

Expired == {e \in waiting : due[e] <= 0}

\* The order of the ready multimap: priority_first.
Before(e, f) == \/ Priority(e) < Priority(f)
                \/ Priority(e) = Priority(f) /\ due[e] < due[f]

NextReady(q) == {e \in q : \A f \in q : ~Before(f, e)}

\* Mutant: the last deadline instead of the first.
FirstDeadlineMutant(q) ==
  IF q = {} THEN {0, Forever}
  ELSE {due[e] : e \in {f \in q : \A g \in q : due[f] >= due[g]}}

\* waiting.begin()->first.time; with an empty map the expression reads the
\* tree header, whose next word is the node count 0 in libstdc++: a time long
\* past.  Another layout would give an arbitrary time: both are allowed.
FirstDeadline(q) == IF q = {} THEN {0, Forever}
                    ELSE {due[e] : e \in {f \in q : \A g \in q : due[f] <= due[g]}}

Asleep(w) == pc[w] \in {"wait", "timed"}

Init ==
  /\ \E recovered \in SUBSET (Requests \ Invalid) :  \* by recovery()
       /\ ready = recovered
       /\ coming = Requests \ recovered
       /\ limbo \in SUBSET (recovered \ Cancels)
  /\ waiting = {} /\ due = [e \in Ev |-> 0]
  /\ shutdown = FALSE /\ quit = FALSE
  /\ pc = [w \in Workers |-> "top"]
  /\ ev = [w \in Workers |-> None]
  /\ deadline = [w \in Workers |-> 0]
  /\ items = [w \in Workers |-> {}]
  /\ input = {} /\ served = {} /\ stranded = {}
  /\ main = "schedule" /\ startup = {FirstDispatch} \cup Periodics
  /\ sig = "sigwait"
  /\ ism = IF HaveIsmThreads THEN "running" ELSE "exited"
  /\ faults = 0

-----------------------------------------------------------------------------
(* Events::schedule, schedule_at and stop: the part under the lock.        *)

schedule(e) == /\ ready' = ready \cup {e}
               /\ due' = [due EXCEPT ![e] = 0]
               /\ UNCHANGED waiting

schedule_at(e, delay) == /\ waiting' = waiting \cup {e}
                         /\ due' = [due EXCEPT ![e] = delay]
                         /\ UNCHANGED ready

\* A thread woken by the condition goes on with the test of the loop it was
\* in: the outer one ("top") or the one around timed_wait ("inner").
Woken(w) == IF pc[w] = "timed" THEN "inner" ELSE "top"

notify_one(p) == IF \E w \in Workers : p[w] \in {"wait", "timed"}
                 THEN \E w \in {x \in Workers : p[x] \in {"wait", "timed"}} :
                        pc' = [p EXCEPT ![w] = Woken(w)]
                 ELSE pc' = p

notify_all(p) == pc' = [w \in Workers |->
                          IF p[w] \in {"wait", "timed"} THEN Woken(w) ELSE p[w]]

-----------------------------------------------------------------------------
(* Events::run, from the moment the lock is held.                          *)

exit(w) == /\ shutdown
           /\ pc' = [pc EXCEPT ![w] = "exited"]
           /\ deadline' = [deadline EXCEPT ![w] = 0]
           /\ UNCHANGED <<queue, ev>>

\* Mutant: the expired events are erased and not inserted.
takeDropsExpired(w) ==
  /\ ~shutdown
  /\ \/ /\ \E e \in NextReady(ready) :
             /\ ready' = ready \ {e}
             /\ due' = [due EXCEPT ![e] = 0]
             /\ ev' = [ev EXCEPT ![w] = e]
        /\ pc' = [pc EXCEPT ![w] = "run"]
        /\ deadline' = [deadline EXCEPT ![w] = 0]
     \/ /\ ready = {} /\ Expired # {}
        /\ UNCHANGED <<ready, due, ev, pc, deadline>>
  /\ waiting' = waiting \ Expired

\* expired_to_ready, then the first ready event is taken out and started.
take(w) == LET all == ready \cup Expired IN
           /\ ~shutdown /\ all # {}
           /\ \E e \in NextReady(all) :
                /\ ready' = all \ {e}
                /\ due' = [due EXCEPT ![e] = 0]
                /\ ev' = [ev EXCEPT ![w] = e]
           /\ waiting' = waiting \ Expired
           /\ pc' = [pc EXCEPT ![w] = "run"]
           /\ deadline' = [deadline EXCEPT ![w] = 0]

\* Mutant: waits although an event is ready.
waitMutant(w) == /\ ~shutdown /\ waiting = {}
                 /\ pc' = [pc EXCEPT ![w] = "wait"]
                 /\ UNCHANGED <<queue, ev, deadline>>

\* cond.wait: both queues empty.
wait(w) == /\ ~shutdown /\ ready = {} /\ waiting = {}
           /\ pc' = [pc EXCEPT ![w] = "wait"]
           /\ UNCHANGED <<queue, ev, deadline>>

\* cond.timed_wait: nothing ready, the deadline of the first waiting event.
timed_wait(w) == /\ ~shutdown /\ ready = {} /\ Expired = {}
                 /\ \E d \in FirstDeadline(waiting) :
                      deadline' = [deadline EXCEPT ![w] = d]
                 /\ pc' = [pc EXCEPT ![w] = "timed"]
                 /\ UNCHANGED <<queue, ev>>

\* The outer loop.
Top(w) == /\ pc[w] = "top"
          /\ \/ exit(w) \/ take(w) \/ wait(w)
             \/ waiting # {} /\ timed_wait(w)
          /\ UNCHANGED <<shutdown, quit, items, env>>

\* The loop around timed_wait, which does not test waiting.empty().
Inner(w) == /\ pc[w] = "inner"
            /\ exit(w) \/ take(w) \/ timed_wait(w)
            /\ UNCHANGED <<shutdown, quit, items, env>>

\* timed_wait returns because its deadline has passed.
TimeOut(w) == /\ pc[w] = "timed" /\ deadline[w] <= 0
              /\ pc' = [pc EXCEPT ![w] = "inner"]
              /\ UNCHANGED <<queue, shutdown, quit, ev, deadline, items, env>>

\* POSIX allows a wait to return for no reason.
Spurious(w) == /\ Asleep(w)
               /\ pc' = [pc EXCEPT ![w] = Woken(w)]
               /\ UNCHANGED <<queue, shutdown, quit, ev, deadline, items, env>>

-----------------------------------------------------------------------------
(* Execution of an event, outside the lock.                                *)

\* The notification after schedule or schedule_at; a dispatching worker goes
\* on with its items, any other one has executed its event.
Notify(w) == /\ pc[w] = "notify"
             /\ notify_one([pc EXCEPT ![w] = IF ev[w] \in Dispatchers
                                             THEN "dispatch" ELSE "top"])
             /\ ev' = [ev EXCEPT ![w] = IF @ \in Dispatchers THEN @ ELSE None]
             /\ UNCHANGED <<queue, shutdown, quit, deadline, items, env>>

\* The notification after the dispatcher has re-scheduled itself.
NotifyLast(w) == /\ pc[w] = "notify_last"
                 /\ notify_one([pc EXCEPT ![w] = "top"])
                 /\ ev' = [ev EXCEPT ![w] = None]
                 /\ UNCHANGED <<queue, shutdown, quit, deadline, items, env>>

\* Events::stop by a worker: after bad_alloc, or by the Dispatcher.
stop(w) == /\ shutdown' = TRUE
           /\ pc' = [pc EXCEPT ![w] = "notify_all"]
           /\ UNCHANGED <<queue, quit, ev, deadline, coming, input, limbo,
                          served, threads>>

NotifyAll(w) == /\ pc[w] = "notify_all"
                /\ notify_all([pc EXCEPT ![w] = "top"])
                /\ ev' = [ev EXCEPT ![w] = None]
                /\ UNCHANGED <<queue, shutdown, quit, deadline, items, env>>

\* A request ends (an exception other than bad_alloc is swallowed) ...
Finish(w) == /\ pc[w] = "run" /\ ev[w] \in Requests
             /\ served' = served \cup {ev[w]}
             /\ pc' = [pc EXCEPT ![w] = "top"]
             /\ ev' = [ev EXCEPT ![w] = None]
             /\ UNCHANGED <<queue, shutdown, quit, deadline, items, coming,
                            input, limbo, stranded, threads, faults>>

\* Mutant: no return after postpone().
PostponeGoesOn(w) == /\ pc[w] = "run" /\ ev[w] \in Requests
                     /\ faults < MaxFaults /\ faults' = faults + 1
                     /\ schedule_at(ev[w], PostponeDelay)
                     /\ pc' = [pc EXCEPT ![w] = "notify_limbo"]
                     /\ UNCHANGED <<shutdown, quit, ev, deadline, items, coming,
                                    input, limbo, served, stranded, threads>>

\* ... or postpones itself, because something it needs is not available ...
Postpone(w) == /\ pc[w] = "run" /\ ev[w] \in Requests
               /\ faults < MaxFaults /\ faults' = faults + 1
               /\ schedule_at(ev[w], PostponeDelay)
               /\ pc' = [pc EXCEPT ![w] = "notify"]
               /\ UNCHANGED <<shutdown, quit, ev, deadline, items, coming,
                              input, limbo, served, stranded, threads>>

\* ... and run_in_loop, or the Replanner, always schedules itself again.
RunInLoop(w) == /\ pc[w] = "run" /\ ev[w] \in Periodics
                /\ schedule_at(ev[w], PostponeDelay)
                /\ pc' = [pc EXCEPT ![w] = "notify"]
                /\ UNCHANGED <<shutdown, quit, ev, deadline, items, env>>

\* A request in limbo schedules a copy of itself and goes on all the same: the
\* two share one SubmitState.  In each of the two queues the copies of a request
\* are not told apart, and the times it is in limbo are counted with the failures
\* (bound).
LimboPostpone(w) == /\ pc[w] = "run" /\ ev[w] \in limbo
                    /\ faults < MaxFaults /\ faults' = faults + 1
                    /\ schedule_at(ev[w], PostponeDelay)
                    /\ pc' = [pc EXCEPT ![w] = "notify_limbo"]
                    /\ UNCHANGED <<shutdown, quit, ev, deadline, items, coming,
                                   input, limbo, served, stranded, threads>>

NotifyLimbo(w) == /\ pc[w] = "notify_limbo"
                  /\ notify_one([pc EXCEPT ![w] = "run"])
                  /\ UNCHANGED <<queue, shutdown, quit, ev, deadline, items, env>>

BadAlloc(w) == /\ pc[w] = "run" /\ ev[w] \in Requests \cup Periodics
               /\ faults < MaxFaults /\ faults' = faults + 1
               /\ stop(w)
               /\ UNCHANGED <<items, stranded>>

-----------------------------------------------------------------------------
(* Dispatcher::operator().                                                 *)

\* The SignalHandler holds f_mx while it sets the flag and stops the queue.
\* Whoever calls received_quit_signal() waits until it has finished.
QuitLocked == sig \in {"stop", "notify_all"}

Dispatching(w) == pc[w] = "run" /\ ev[w] \in Dispatchers /\ ~QuitLocked

Quit(w) == /\ Dispatching(w) /\ quit
           /\ stop(w)
           /\ UNCHANGED <<items, stranded, faults>>

\* The queue is not full: every file of new/ is read (JobDirReader::read).
Read(w) == /\ Dispatching(w) /\ ~quit /\ Cardinality(ready) < QueueSize
           /\ items' = [items EXCEPT ![w] = input]
           /\ input' = {}
           /\ pc' = [pc EXCEPT ![w] = "dispatch"]
           /\ UNCHANGED <<queue, shutdown, quit, ev, deadline, coming, limbo,
                          served, stranded, threads, faults>>

\* JobDirError is logged and the dispatcher goes on with nothing read; the
\* files that set_old had renamed before it failed are not in new/ any more.
ReadError(w) == /\ Dispatching(w) /\ ~quit /\ Cardinality(ready) < QueueSize
                /\ faults < MaxFaults /\ faults' = faults + 1
                /\ \E moved \in SUBSET input :
                     /\ input' = input \ moved
                     /\ stranded' = stranded \cup moved
                /\ pc' = [pc EXCEPT ![w] = "dispatch"]
                /\ UNCHANGED <<queue, shutdown, quit, ev, deadline, items,
                               coming, limbo, served, threads>>

\* Mutant: with a full queue the dispatcher does not schedule itself again.
FullMutant(w) ==
  /\ Dispatching(w) /\ ~quit /\ Cardinality(ready) >= QueueSize
  /\ pc' = [pc EXCEPT ![w] = "top"]
  /\ ev' = [ev EXCEPT ![w] = None]
  /\ UNCHANGED <<queue, shutdown, quit, deadline, items, env>>

\* The queue is full: nothing is read, the next dispatch is a minute away.
Full(w) == /\ Dispatching(w) /\ ~quit /\ Cardinality(ready) >= QueueSize
           /\ schedule_at(Dispatcher, LongDelay)
           /\ pc' = [pc EXCEPT ![w] = "notify_last"]
           /\ UNCHANGED <<shutdown, quit, ev, deadline, items, env>>

\* Dispatch::operator() for one item: an invalid one is cleaned up and left.
Dispatch(w) == /\ pc[w] = "dispatch"
               /\ \E r \in items[w] :
                    /\ items' = [items EXCEPT ![w] = @ \ {r}]
                    /\ IF r \in Invalid
                       THEN UNCHANGED <<queue, pc>>
                       ELSE /\ schedule(r)
                            /\ pc' = [pc EXCEPT ![w] = "notify"]
               /\ UNCHANGED <<shutdown, quit, ev, deadline, env>>

\* CannotCreateLBContext is caught after the guard has been dismissed: there is
\* no event and the file stays in old/.
CannotCreateLBContext(w) ==
  /\ pc[w] = "dispatch"
  /\ faults < MaxFaults /\ faults' = faults + 1
  /\ \E r \in items[w] : /\ items' = [items EXCEPT ![w] = @ \ {r}]
                         /\ stranded' = stranded \cup {r}
  /\ UNCHANGED <<queue, shutdown, quit, pc, ev, deadline, coming, input, limbo,
                 served, threads>>

\* An exception that Dispatch does not handle: the items read are dropped, and
\* the guard may remove the file of the one in hand.
DispatchError(w) == /\ pc[w] = "dispatch"
                    /\ faults < MaxFaults /\ faults' = faults + 1
                    /\ items' = [items EXCEPT ![w] = {}]
                    /\ \E r \in items[w], removed \in BOOLEAN :
                         stranded' = stranded \cup
                                     (IF removed THEN items[w] \ {r} ELSE items[w])
                    /\ stop(w)

Again(w) == /\ pc[w] = "dispatch" /\ items[w] = {}
            /\ schedule_at(Dispatcher, 1)
            /\ pc' = [pc EXCEPT ![w] = "notify_last"]
            /\ UNCHANGED <<shutdown, quit, ev, deadline, items, env>>

-----------------------------------------------------------------------------
(* The other threads and the environment.                                  *)

\* main() schedules the first dispatch, then the periodic events, then joins.
MainSchedule ==
  /\ main = "schedule"
  /\ \E e \in startup :
       /\ FirstDispatch \in startup => e = FirstDispatch
       /\ schedule(e)
       /\ startup' = startup \ {e}
  /\ main' = "notify"
  /\ UNCHANGED <<shutdown, quit, pc, ev, deadline, items, coming, input, limbo,
                 served, stranded, sig, ism, faults>>

MainNotify == /\ main = "notify"
              /\ notify_one(pc)
              /\ main' = IF startup = {} THEN "join_workers" ELSE "schedule"
              /\ UNCHANGED <<queue, shutdown, quit, ev, deadline, items,
                             coming, input, limbo, served, stranded, startup,
                             sig, ism, faults>>

MainJoinWorkers == /\ main = "join_workers"
                   /\ \A w \in Workers : pc[w] = "exited"
                   /\ main' = "join_ism"
                   /\ UNCHANGED <<queue, shutdown, quit, pc, ev, deadline,
                                  items, coming, input, limbo, served,
                                  stranded, startup, sig, ism, faults>>

MainJoinIsm == /\ main = "join_ism" /\ ism = "exited"
               /\ main' = "exited"
               /\ UNCHANGED <<queue, shutdown, quit, pc, ev, deadline, items,
                              coming, input, limbo, served, stranded, startup,
                              sig, ism, faults>>

\* SignalHandler: the flag, then Events::stop.
Signal == /\ sig = "sigwait"
          /\ quit' = TRUE /\ sig' = "stop"
          /\ UNCHANGED <<queue, shutdown, pc, ev, deadline, items, coming,
                         input, limbo, served, stranded, main, startup, ism,
                         faults>>

SignalStop == /\ sig = "stop"
              /\ shutdown' = TRUE /\ sig' = "notify_all"
              /\ UNCHANGED <<queue, quit, pc, ev, deadline, items, coming,
                             input, limbo, served, stranded, main, startup,
                             ism, faults>>

\* Mutant: the SignalHandler wakes a single worker.
SignalNotifyMutant ==
  /\ sig = "notify_all"
  /\ notify_one(pc)
  /\ sig' = "exited"
  /\ UNCHANGED <<queue, shutdown, quit, ev, deadline, items, coming, input,
                 limbo, served, stranded, main, startup, ism, faults>>

SignalNotify == /\ sig = "notify_all"
                /\ notify_all(pc)
                /\ sig' = "exited"
                /\ UNCHANGED <<queue, shutdown, quit, ev, deadline, items,
                               coming, input, limbo, served, stranded, main,
                               startup, ism, faults>>

\* Mutant: the purchaser's loop tests the flag before its first cycle only.
IsmExitMutant == /\ ism = "running" /\ quit /\ ~QuitLocked /\ main = "schedule"
                 /\ ism' = "exited"
                 /\ UNCHANGED <<queue, shutdown, quit, pc, ev, deadline, items,
                                coming, input, limbo, served, stranded, main,
                                startup, sig, faults>>

\* The purchaser's loop tests received_quit_signal once per cycle.
IsmExit == /\ ism = "running" /\ quit /\ ~QuitLocked
           /\ ism' = "exited"
           /\ UNCHANGED <<queue, shutdown, quit, pc, ev, deadline, items,
                          coming, input, limbo, served, stranded, main,
                          startup, sig, faults>>

\* A client delivers a request into new/.
Arrive(r) == /\ r \in coming
             /\ coming' = coming \ {r}
             /\ input' = input \cup {r}
             /\ UNCHANGED <<queue, shutdown, quit, pc, ev, deadline, items,
                            limbo, served, stranded, threads, faults>>

\* A second passes.  From the end of an execution to the next one a worker
\* only does the queue's own bookkeeping, taken to last less than a second.
Tick == /\ \A w \in Workers :
             pc[w] \notin {"top", "notify", "notify_last", "notify_limbo"}
        /\ due' = [e \in Ev |->
                     IF e \in ready \cup waiting /\ due[e] > -Horizon
                     THEN due[e] - 1 ELSE due[e]]
        /\ deadline' = [w \in Workers |->
                          IF deadline[w] > 0 /\ deadline[w] # Forever
                          THEN deadline[w] - 1 ELSE deadline[w]]
        /\ UNCHANGED <<ready, waiting, shutdown, quit, pc, ev, items, env>>

\* Every thread of the daemon has ended.
Done == main = "exited" /\ UNCHANGED vars

Worker(w) == \/ Top(w) \/ Inner(w) \/ TimeOut(w)
             \/ Notify(w) \/ NotifyLast(w) \/ NotifyAll(w)
             \/ Finish(w) \/ Postpone(w) \/ RunInLoop(w) \/ BadAlloc(w)
             \/ LimboPostpone(w) \/ NotifyLimbo(w)
             \/ Quit(w) \/ Read(w) \/ ReadError(w) \/ Full(w)
             \/ Dispatch(w) \/ CannotCreateLBContext(w) \/ DispatchError(w)
             \/ Again(w)

Next == \/ \E w \in Workers : Worker(w) \/ Spurious(w)
        \/ MainSchedule \/ MainNotify \/ MainJoinWorkers \/ MainJoinIsm
        \/ Signal \/ SignalStop \/ SignalNotify \/ IsmExit
        \/ \E r \in Requests : Arrive(r)
        \/ Tick \/ Done

\* Threads are scheduled, and time passes however often they wake; nobody has
\* to send a signal or a request, and no wait has to return spuriously.
Fairness == /\ \A w \in Workers : WF_vars(Worker(w))
            /\ WF_vars(MainSchedule \/ MainNotify \/ MainJoinWorkers
                                    \/ MainJoinIsm)
            /\ WF_vars(SignalStop \/ SignalNotify)
            /\ WF_vars(IsmExit) /\ SF_vars(Tick)

Spec == Init /\ [][Next]_vars
LiveSpec == Spec /\ Fairness
-----------------------------------------------------------------------------
(* Properties.                                                             *)

PCs == {"top", "inner", "wait", "timed", "run", "notify", "notify_last",
        "notify_all", "notify_limbo", "dispatch", "exited"}

\* The values the variables of events.cpp and of its threads can have.
TypeOK ==
  /\ ready \subseteq Ev /\ waiting \subseteq Ev
  /\ due \in [Ev -> Int]
  /\ shutdown \in BOOLEAN /\ quit \in BOOLEAN
  /\ pc \in [Workers -> PCs]
  /\ ev \in [Workers -> Ev \cup {None}]
  /\ deadline \in [Workers -> Int]
  /\ items \in [Workers -> SUBSET Requests]
  /\ coming \subseteq Requests /\ input \subseteq Requests
  /\ limbo \subseteq Requests
  /\ served \subseteq Requests /\ stranded \subseteq Requests
  /\ main \in {"schedule", "notify", "join_workers", "join_ism", "exited"}
  /\ startup \subseteq Ev
  /\ sig \in {"sigwait", "stop", "notify_all", "exited"}
  /\ ism \in {"running", "exited"}
  /\ faults \in Nat

\* A worker that is not asleep, and has not left Events::run, looks at the
\* queues before it sleeps again.
Awake(w) == pc[w] \notin {"wait", "timed", "exited"}

\* Events::run never sleeps through work: as long as the queue is not shut
\* down, a ready event finds a worker awake, or main() about to notify one.
NoLostWakeup ==
  ~shutdown /\ ready # {} => main = "notify" \/ \E w \in Workers : Awake(w)

\* schedule_at(e) and timed_wait together: for every waiting event there is a
\* worker awake, or one that sleeps no longer than until the event is due.
\* The deadline is computed under the lock, from a queue that other workers
\* go on filling and emptying while this one sleeps.
TimerArmed ==
  ~shutdown => \A e \in waiting : \E w \in Workers :
                 \/ Awake(w)
                 \/ pc[w] = "timed" /\ (deadline[w] <= 0 \/ deadline[w] <= due[e])

\* Events::stop leaves nobody behind: once the notifications of those who set
\* the flag have been given, no worker waits on the condition.  It rests on
\* the flag being set, and tested, under the mutex.
StopWakesAll ==
  shutdown => \/ sig = "notify_all"
              \/ \E w \in Workers : pc[w] = "notify_all"
              \/ \A w \in Workers : ~Asleep(w)

\* A request that was delivered is never lost while the daemon runs: it is in
\* new/, in the hands of a dispatching worker, queued, in execution, or, after
\* a failure of read() or of Dispatch, in old/ where the next start finds it.
NoRequestLost ==
  ~shutdown => \A r \in Requests \ (Invalid \cup coming \cup served) :
                 \/ r \in input \cup stranded \cup ready \cup waiting
                 \/ \E w \in Workers : r \in items[w] \/ ev[w] = r

\* An event is executed by one worker at a time, and not while it is queued:
\* the handlers' state objects are not protected by any lock of their own.  A
\* request in limbo is the exception: it goes on after it has queued its copy.
ExecutedAlone ==
  \A r \in (Requests \ limbo) \cup Periodics : \A w \in Workers :
     ev[w] = r /\ pc[w] = "run" =>
       /\ r \notin ready \cup waiting
       /\ \A x \in Workers \ {w} : ev[x] = r => pc[x] # "run"

\* Dispatch has cleaned up an invalid request.
CleanedUp(r) ==
  r \in Invalid /\ r \notin input /\ \A w \in Workers : r \notin items[w]

\* In the end every request that was delivered has been executed, or cleaned up
\* if it is invalid, unless the daemon is stopped first or a failure leaves its
\* file in old/; whatever its priority and however full the queue is.
EveryRequestServed ==
  <>[](\A r \in Requests \ coming :
         r \in served \cup stranded \/ CleanedUp(r) \/ shutdown)

\* Every worker leaves Events::run after a stop, and the process exits if the
\* stop came from a signal.
StopEnds ==
  <>[](shutdown \/ quit => /\ \A w \in Workers : pc[w] = "exited"
                           /\ quit => main = "exited")
=============================================================================
