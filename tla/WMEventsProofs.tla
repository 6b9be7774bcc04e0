--------------------------- MODULE WMEventsProofs ---------------------------
(***************************************************************************)
(* Proofs, for any number of workers, requests and periodic events: the    *)
(* queue of WMEvents never sleeps through work and Events::stop wakes      *)
(* every worker (IInv); no request is lost and an event is executed by one *)
(* worker at a time (Placed).                                              *)
(***************************************************************************)
EXTENDS WMEvents, TLAPS

\* Events::run is only left after a stop.
ExitedStopped == \A w \in Workers : pc[w] = "exited" => shutdown

\* No event is ever due later than the value that stands for no deadline.
DueBounded == \A e \in Ev : due[e] < Forever

\* What main() has still to schedule is not yet known to the queue.
StartupFresh ==
  /\ startup \subseteq {FirstDispatch} \cup Periodics
  /\ startup \cap (ready \cup waiting) = {}
  /\ \A w \in Workers : ev[w] \notin startup

\* Only a request in limbo is queued in the middle of its execution.
LimboOnly == \A w \in Workers : pc[w] = "notify_limbo" => ev[w] \in limbo

\* The inductive invariant.
IInv == /\ TypeOK /\ ExitedStopped /\ DueBounded /\ StartupFresh /\ LimboOnly
        /\ NoLostWakeup /\ TimerArmed /\ StopWakesAll

-----------------------------------------------------------------------------
\* notify_one, given the program counters p the notifying thread leaves.
LEMMA NotifyOne ==
  ASSUME TypeOK, NEW STATE p, p \in [Workers -> PCs],
         \A w \in Workers : p[w] \in {"wait", "timed"} => pc[w] = p[w],
         notify_one(p)
  PROVE  /\ pc' \in [Workers -> PCs]
         /\ \A w \in Workers :
              p[w] \notin {"wait", "timed"} => pc'[w] = p[w]
         /\ \A w \in Workers : pc'[w] \in {p[w], "top", "inner"}
         /\ \/ \E w \in Workers : pc'[w] \in {"top", "inner"}
            \/ \A w \in Workers : pc'[w] \notin {"wait", "timed"}
<1>1. CASE \E w \in Workers : p[w] \in {"wait", "timed"}
  <2>1. PICK w \in Workers : /\ p[w] \in {"wait", "timed"}
                             /\ pc' = [p EXCEPT ![w] = Woken(w)]
    BY <1>1 DEF notify_one
  <2>2. Woken(w) \in {"top", "inner"}
    BY DEF Woken
  <2>. QED BY <2>1, <2>2 DEF PCs
<1>2. CASE ~ \E w \in Workers : p[w] \in {"wait", "timed"}
  BY <1>2 DEF notify_one
<1>. QED BY <1>1, <1>2

\* notify_all leaves nobody asleep.
LEMMA NotifyAllWorkers ==
  ASSUME TypeOK, NEW STATE p, p \in [Workers -> PCs], notify_all(p)
  PROVE  /\ pc' \in [Workers -> PCs]
         /\ \A w \in Workers : pc'[w] \notin {"wait", "timed"}
         /\ \A w \in Workers :
              p[w] \notin {"wait", "timed"} => pc'[w] = p[w]
         /\ \A w \in Workers : pc'[w] \in {p[w], "top", "inner"}
BY DEF notify_all, Woken, PCs

-----------------------------------------------------------------------------
\* Type correctness is inductive by itself.
LEMMA TypeStep == ASSUME TypeOK, [Next]_vars PROVE TypeOK'
<1>. USE DEF TypeOK
<1>1. CASE UNCHANGED vars
  BY <1>1 DEF vars
<1>2. ASSUME NEW w \in Workers, Top(w) \/ Inner(w) PROVE TypeOK'
  <2>1. CASE exit(w)
    <3>1. shutdown' \in BOOLEAN /\ quit' \in BOOLEAN
      BY <1>2, Zenon DEF Top, Inner
    <3>2. pc' \in [Workers -> PCs] /\ deadline' \in [Workers -> Int]
      BY <2>1 DEF exit, PCs
    <3>3. UNCHANGED <<ready, waiting, due, ev, items, coming, input, limbo,
                      served, stranded, main, startup, sig, ism, faults>>
      BY <1>2, <2>1, Zenon DEF Top, Inner, exit, queue, env, threads
    <3>. QED BY <3>1, <3>2, <3>3
  <2>2. CASE take(w)
    <3>1. PICK e \in NextReady(ready \cup Expired) :
            /\ ready' = (ready \cup Expired) \ {e}
            /\ due' = [due EXCEPT ![e] = 0]
            /\ ev' = [ev EXCEPT ![w] = e]
      BY <2>2 DEF take
    <3>2. e \in Ev
      BY DEF NextReady, Expired
    <3>. QED BY <1>2, <2>2, <3>1, <3>2
             DEF Top, Inner, take, PCs, env, threads, Expired
  <2>3. CASE wait(w)
    BY <1>2, <2>3 DEF Top, Inner, wait, PCs, queue, env, threads
  <2>4. CASE timed_wait(w)
    <3>1. \A d \in FirstDeadline(waiting) : d \in Int
      BY EventsAssumption DEF FirstDeadline, Forever
    <3>. QED BY <1>2, <2>4, <3>1
             DEF Top, Inner, timed_wait, PCs, queue, env, threads
  <2>. QED BY <1>2, <2>1, <2>2, <2>3, <2>4 DEF Top, Inner
<1>3. ASSUME NEW w \in Workers, TimeOut(w) \/ Spurious(w) PROVE TypeOK'
  BY <1>3 DEF TimeOut, Spurious, Woken, PCs, queue, env, threads
<1>4. ASSUME NEW w \in Workers, Notify(w) \/ NotifyLast(w) \/ NotifyLimbo(w)
      PROVE  TypeOK'
  <2>. DEFINE p(x) == [pc EXCEPT ![w] = x]
  <2>1. PICK x \in {"dispatch", "top", "run"} : notify_one(p(x))
    BY <1>4 DEF Notify, NotifyLast, NotifyLimbo
  <2>2. p(x) \in [Workers -> PCs]
    BY DEF PCs
  <2>3. \A v \in Workers : p(x)[v] \in {"wait", "timed"} => pc[v] = p(x)[v]
    BY <1>4
  <2>. HIDE DEF p
  <2>4. pc' \in [Workers -> PCs]
    BY <2>1, <2>2, <2>3, NotifyOne
  <2>. QED BY <1>4, <2>4 DEF Notify, NotifyLast, NotifyLimbo, queue, env, threads
<1>5. ASSUME NEW w \in Workers, NotifyAll(w) PROVE TypeOK'
  <2>1. [pc EXCEPT ![w] = "top"] \in [Workers -> PCs]
    BY DEF PCs
  <2>2. pc' \in [Workers -> PCs]
    BY <1>5, <2>1, NotifyAllWorkers DEF NotifyAll
  <2>. QED BY <1>5, <2>2 DEF NotifyAll, queue, env, threads
<1>6. ASSUME NEW w \in Workers, Finish(w) PROVE TypeOK'
  <2>1. shutdown' \in BOOLEAN /\ quit' \in BOOLEAN
    BY <1>6, Zenon DEF Finish
  <2>2. pc' \in [Workers -> PCs] /\ ev' \in [Workers -> Ev \cup {None}]
    BY <1>6 DEF Finish, PCs
  <2>3. served' \subseteq Requests
    BY <1>6 DEF Finish
  <2>4. UNCHANGED <<ready, waiting, due, deadline, items, coming, input,
                    limbo, stranded, main, startup, sig, ism, faults>>
    BY <1>6, Zenon DEF Finish, queue, threads
  <2>. QED BY <2>1, <2>2, <2>3, <2>4
<1>7. ASSUME NEW w \in Workers, Postpone(w) \/ RunInLoop(w) \/ LimboPostpone(w)
      PROVE  TypeOK'
  BY <1>7, EventsAssumption
     DEF Postpone, RunInLoop, LimboPostpone, schedule_at, PCs, env, threads, Ev
<1>8. ASSUME NEW w \in Workers, BadAlloc(w) \/ Quit(w) \/ DispatchError(w)
      PROVE TypeOK'
  <2>1. stop(w)
    BY <1>8 DEF BadAlloc, Quit, DispatchError
  <2>2. shutdown' \in BOOLEAN /\ quit' \in BOOLEAN
    BY <2>1, Zenon DEF stop
  <2>3. pc' \in [Workers -> PCs]
    BY <2>1 DEF stop, PCs
  <2>4. items' \in [Workers -> SUBSET Requests] /\ faults' \in Nat
    BY <1>8 DEF BadAlloc, Quit, DispatchError
  <2>5. UNCHANGED <<ready, waiting, due, ev, deadline, coming, input, limbo,
                    served, main, startup, sig, ism>>
    BY <2>1, Zenon DEF stop, queue, threads
  <2>6. stranded' \subseteq Requests
    BY <1>8 DEF BadAlloc, Quit, DispatchError
  <2>. QED BY <2>2, <2>3, <2>4, <2>5, <2>6
<1>9. ASSUME NEW w \in Workers, Read(w) \/ ReadError(w) \/ CannotCreateLBContext(w) PROVE TypeOK'
  BY <1>9 DEF Read, ReadError, CannotCreateLBContext, PCs, queue, threads
<1>10. ASSUME NEW w \in Workers, Full(w) \/ Again(w) PROVE TypeOK'
  BY <1>10, EventsAssumption
     DEF Full, Again, schedule_at, PCs, env, threads, Ev, Dispatchers
<1>11. ASSUME NEW w \in Workers, Dispatch(w) PROVE TypeOK'
  BY <1>11 DEF Dispatch, schedule, PCs, queue, env, threads, Ev
<1>12. CASE MainSchedule
  BY <1>12 DEF MainSchedule, schedule
<1>13. CASE MainNotify
  <2>1. pc' \in [Workers -> PCs]
    BY <1>13, NotifyOne DEF MainNotify
  <2>. QED BY <1>13, <2>1 DEF MainNotify, queue
<1>14. CASE MainJoinWorkers \/ MainJoinIsm \/ IsmExit \/ Signal \/ SignalStop
  BY <1>14 DEF MainJoinWorkers, MainJoinIsm, IsmExit, Signal, SignalStop, queue
<1>15. CASE SignalNotify
  <2>1. pc' \in [Workers -> PCs]
    BY <1>15, NotifyAllWorkers DEF SignalNotify
  <2>. QED BY <1>15, <2>1 DEF SignalNotify, queue
<1>16. ASSUME NEW r \in Requests, Arrive(r) PROVE TypeOK'
  BY <1>16 DEF Arrive, queue, threads
<1>17. CASE Tick
  BY <1>17, EventsAssumption DEF Tick, env, threads
<1>18. CASE Done
  BY <1>1, <1>18 DEF Done
<1>. QED
  BY <1>1, <1>2, <1>3, <1>4, <1>5, <1>6, <1>7, <1>8, <1>9, <1>10, <1>11, <1>12,
     <1>13, <1>14, <1>15, <1>16, <1>17, <1>18 DEF Next, Worker

-----------------------------------------------------------------------------
\* What a step of worker w can do to the other workers, to the flag and to w.
\* It goes to sleep only with nothing ready, and then no longer than until the
\* first waiting event is due.
WorkerStep(w) ==
  /\ \A x \in Workers \ {w} :
       \/ pc'[x] = pc[x]
       \/ pc[x] \in {"wait", "timed"} /\ pc'[x] \in {"top", "inner"}
  /\ pc'[w] \in {"wait", "timed"} =>
       /\ ~shutdown
       /\ UNCHANGED <<shutdown, waiting, due>> /\ ready' = {}
       /\ pc'[w] = "wait" => waiting = {}
       /\ pc'[w] = "timed" => \A e \in waiting : deadline'[w] <= due[e]
  /\ pc'[w] = "exited" => shutdown'
  /\ shutdown => shutdown'
  /\ shutdown' => shutdown \/ pc'[w] = "notify_all"
  /\ pc[w] = "notify_all" => \A x \in Workers : pc'[x] \notin {"wait", "timed"}
  /\ UNCHANGED <<main, startup, sig>>

LEMMA WorkerStepLemma ==
  ASSUME TypeOK, NEW w \in Workers, Worker(w) \/ Spurious(w)
  PROVE  WorkerStep(w)
<1>1. CASE Top(w) \/ Inner(w)
  <2>1. CASE exit(w)
    BY <1>1, <2>1 DEF exit, Top, Inner, WorkerStep, TypeOK, env, threads
  <2>2. CASE take(w)
    BY <1>1, <2>2 DEF take, Top, Inner, WorkerStep, TypeOK, env, threads
  <2>3. CASE wait(w)
    BY <1>1, <2>3 DEF wait, Top, Inner, WorkerStep, TypeOK, env, threads, queue
  <2>4. CASE timed_wait(w)
    <3>1. \A d \in FirstDeadline(waiting) : \A e \in waiting : d <= due[e]
      BY DEF FirstDeadline, TypeOK
    <3>. QED BY <1>1, <2>4, <3>1
             DEF timed_wait, Top, Inner, WorkerStep, TypeOK, env, threads, queue
  <2>. QED BY <1>1, <2>1, <2>2, <2>3, <2>4 DEF Top, Inner
<1>2. CASE TimeOut(w) \/ Spurious(w)
  BY <1>2 DEF TimeOut, Spurious, Asleep, Woken, WorkerStep, TypeOK, env, threads
<1>3. CASE Notify(w) \/ NotifyLast(w) \/ NotifyLimbo(w)
  <2>. DEFINE p(x) == [pc EXCEPT ![w] = x]
  <2>1. PICK x \in {"dispatch", "top", "run"} : notify_one(p(x))
    BY <1>3 DEF Notify, NotifyLast, NotifyLimbo
  <2>2. p(x) \in [Workers -> PCs] /\ p(x)[w] = x
    BY DEF PCs, TypeOK
  <2>3. \A v \in Workers \ {w} : p(x)[v] = pc[v]
    BY DEF TypeOK
  <2>4. \A v \in Workers : p(x)[v] \in {"wait", "timed"} => pc[v] = p(x)[v]
    BY <2>2, <2>3
  <2>. HIDE DEF p
  <2>5. /\ pc'[w] = x
        /\ \A v \in Workers : pc'[v] \in {p(x)[v], "top", "inner"}
        /\ \A v \in Workers :
             p(x)[v] \notin {"wait", "timed"} => pc'[v] = p(x)[v]
    BY <2>1, <2>2, <2>4, NotifyOne
  <2>6. pc[w] # "notify_all"
    BY <1>3 DEF Notify, NotifyLast, NotifyLimbo
  <2>. QED BY <1>3, <2>3, <2>5, <2>6
           DEF Notify, NotifyLast, NotifyLimbo, WorkerStep, env, threads
<1>4. CASE NotifyAll(w)
  <2>1. [pc EXCEPT ![w] = "top"] \in [Workers -> PCs]
    BY DEF PCs, TypeOK
  <2>2. /\ \A x \in Workers : pc'[x] \notin {"wait", "timed"}
        /\ \A x \in Workers :
             pc'[x] \in {[pc EXCEPT ![w] = "top"][x], "top", "inner"}
        /\ \A x \in Workers :
             [pc EXCEPT ![w] = "top"][x] \notin {"wait", "timed"}
               => pc'[x] = [pc EXCEPT ![w] = "top"][x]
    BY <1>4, <2>1, NotifyAllWorkers DEF NotifyAll
  <2>. QED BY <1>4, <2>2 DEF NotifyAll, WorkerStep, env, threads, TypeOK
<1>5. CASE BadAlloc(w) \/ Quit(w) \/ DispatchError(w)
  <2>1. stop(w)
    BY <1>5 DEF BadAlloc, Quit, DispatchError
  <2>2. pc[w] # "notify_all"
    BY <1>5 DEF BadAlloc, Quit, DispatchError, Dispatching
  <2>. QED BY <2>1, <2>2 DEF stop, WorkerStep, threads, TypeOK
<1>6. CASE Finish(w) \/ Postpone(w) \/ RunInLoop(w) \/ LimboPostpone(w)
  BY <1>6 DEF Finish, Postpone, RunInLoop, LimboPostpone, WorkerStep, env, threads, TypeOK
<1>7. CASE Read(w) \/ ReadError(w) \/ CannotCreateLBContext(w) \/ Full(w)
  BY <1>7 DEF Read, ReadError, CannotCreateLBContext, Full, Dispatching, WorkerStep, env, threads,
              TypeOK
<1>8. CASE Dispatch(w) \/ Again(w)
  <2>1. pc[w] # "notify_all" /\ pc[w] = "dispatch"
    BY <1>8 DEF Dispatch, Again
  <2>2. pc' = pc \/ \E x \in {"notify", "notify_last"} :
                       pc' = [pc EXCEPT ![w] = x]
    BY <1>8 DEF Dispatch, Again
  <2>3. UNCHANGED <<shutdown, main, startup, sig>>
    BY <1>8 DEF Dispatch, Again, env, threads
  <2>. QED BY <2>1, <2>2, <2>3 DEF WorkerStep, TypeOK
<1>. QED BY <1>1, <1>2, <1>3, <1>4, <1>5, <1>6, <1>7, <1>8 DEF Worker

\* A worker that has notified goes on with its items, with its request in limbo
\* or with the queue.
LEMMA NotifierGoes ==
  ASSUME TypeOK, NEW w \in Workers,
         Notify(w) \/ NotifyLast(w) \/ NotifyAll(w) \/ NotifyLimbo(w)
  PROVE  /\ pc'[w] = "run" <=> pc[w] = "notify_limbo"
         /\ pc'[w] # "notify_limbo"
         /\ pc[w] = "notify" /\ ev[w] \in Dispatchers => pc'[w] = "dispatch"
<1>1. CASE Notify(w) \/ NotifyLast(w) \/ NotifyLimbo(w)
  <2>. DEFINE x == IF pc[w] = "notify" /\ ev[w] \in Dispatchers THEN "dispatch"
                   ELSE IF pc[w] = "notify_limbo" THEN "run" ELSE "top"
              p == [pc EXCEPT ![w] = x]
  <2>1. notify_one(p)
    BY <1>1 DEF Notify, NotifyLast, NotifyLimbo
  <2>2. p \in [Workers -> PCs] /\ p[w] = x
    BY DEF PCs, TypeOK
  <2>3. \A v \in Workers : p[v] \in {"wait", "timed"} => pc[v] = p[v]
    BY DEF TypeOK
  <2>. HIDE DEF p
  <2>4. pc'[w] = x
    BY <2>1, <2>2, <2>3, NotifyOne
  <2>. QED BY <2>4
<1>2. CASE NotifyAll(w)
  <2>1. [pc EXCEPT ![w] = "top"] \in [Workers -> PCs]
    BY DEF PCs, TypeOK
  <2>2. [pc EXCEPT ![w] = "top"][w] = "top"
    BY DEF TypeOK
  <2>3. pc'[w] = "top"
    BY <1>2, <2>1, <2>2, NotifyAllWorkers DEF NotifyAll
  <2>. QED BY <1>2, <2>3 DEF NotifyAll
<1>. QED BY <1>1, <1>2

-----------------------------------------------------------------------------
\* No step schedules an event further away than the two delays.
LEMMA DueStep ==
  ASSUME TypeOK, DueBounded, [Next]_vars PROVE DueBounded'
<1>. USE EventsAssumption DEF TypeOK, DueBounded, Forever
<1>1. CASE UNCHANGED due
  BY <1>1
<1>2. ASSUME NEW e \in Ev, NEW d \in {0, 1, LongDelay, PostponeDelay},
             due' = [due EXCEPT ![e] = d]
      PROVE  DueBounded'
  BY <1>2
<1>3. ASSUME NEW w \in Workers, Worker(w) \/ Spurious(w)
      PROVE  \/ UNCHANGED due
             \/ \E e \in Ev, d \in {0, 1, LongDelay, PostponeDelay} :
                  due' = [due EXCEPT ![e] = d]
  <2>1. CASE Top(w) \/ Inner(w)
    <3>1. CASE take(w)
      <4>1. PICK e \in NextReady(ready \cup Expired) : due' = [due EXCEPT ![e] = 0]
        BY <3>1 DEF take
      <4>. QED BY <4>1 DEF NextReady, Expired
    <3>. QED BY <2>1, <3>1 DEF Top, Inner, exit, wait, timed_wait, queue
  <2>2. CASE TimeOut(w) \/ Spurious(w) \/ Notify(w) \/ NotifyLast(w)
             \/ NotifyLimbo(w)
             \/ NotifyAll(w) \/ Finish(w) \/ Read(w) \/ ReadError(w) \/ CannotCreateLBContext(w)
    BY <2>2, Zenon DEF TimeOut, Spurious, Notify, NotifyLast, NotifyAll, Finish,
                       NotifyLimbo, Read, ReadError, CannotCreateLBContext, queue
  <2>3. CASE BadAlloc(w) \/ Quit(w) \/ DispatchError(w)
    BY <2>3, Zenon DEF BadAlloc, Quit, DispatchError, stop, queue
  <2>4. CASE Postpone(w) \/ RunInLoop(w) \/ LimboPostpone(w) \/ Full(w) \/ Again(w)
    BY <2>4 DEF Postpone, RunInLoop, LimboPostpone, Full, Again, schedule_at, Ev, Dispatchers
  <2>5. CASE Dispatch(w)
    BY <2>5 DEF Dispatch, schedule, queue, Ev
  <2>. QED BY <1>3, <2>1, <2>2, <2>3, <2>4, <2>5 DEF Worker
<1>4. CASE MainSchedule
  BY <1>4 DEF MainSchedule, schedule
<1>5. CASE Tick
  BY <1>5 DEF Tick
<1>6. CASE \/ MainNotify \/ MainJoinWorkers \/ MainJoinIsm \/ Signal
           \/ SignalStop \/ SignalNotify \/ IsmExit \/ Done
           \/ \E r \in Requests : Arrive(r)
  BY <1>1, <1>6, Zenon DEF MainNotify, MainJoinWorkers, MainJoinIsm, Signal,
     SignalStop, SignalNotify, IsmExit, Done, Arrive, queue, vars
<1>7. CASE UNCHANGED vars
  BY <1>1, <1>7 DEF vars
<1>. QED BY <1>1, <1>2, <1>3, <1>4, <1>5, <1>6, <1>7 DEF Next

\* main() schedules each start-up event once.
LEMMA StartupStep ==
  ASSUME TypeOK, StartupFresh, [Next]_vars PROVE StartupFresh'
<1>. USE EventsAssumption DEF TypeOK, StartupFresh
<1>1. ASSUME NEW w \in Workers, Worker(w) \/ Spurious(w) PROVE StartupFresh'
  <2>0. UNCHANGED startup
    BY <1>1, WorkerStepLemma DEF WorkerStep
  <2>1. CASE Top(w) \/ Inner(w)
    <3>1. CASE take(w)
      <4>1. PICK e \in NextReady(ready \cup Expired) :
              /\ ready' = (ready \cup Expired) \ {e}
              /\ ev' = [ev EXCEPT ![w] = e]
              /\ waiting' = waiting \ Expired
        BY <3>1 DEF take
      <4>2. e \in ready \cup waiting
        BY DEF NextReady, Expired
      <4>. QED BY <2>0, <4>1, <4>2 DEF Expired
    <3>. QED BY <2>0, <2>1, <3>1 DEF Top, Inner, exit, wait, timed_wait, queue
  <2>2. CASE TimeOut(w) \/ Spurious(w) \/ Read(w) \/ ReadError(w) \/ CannotCreateLBContext(w)
    BY <2>0, <2>2 DEF TimeOut, Spurious, Read, ReadError, CannotCreateLBContext, queue
  <2>3. CASE Notify(w) \/ NotifyLast(w) \/ NotifyAll(w) \/ NotifyLimbo(w) \/ Finish(w)
    <3>1. /\ UNCHANGED <<ready, waiting>>
          /\ ev' = ev \/ ev' = [ev EXCEPT ![w] = None]
      BY <2>3 DEF Notify, NotifyLast, NotifyAll, NotifyLimbo, Finish, queue
    <3>2. None \notin startup
      BY DEF FirstDispatch, None
    <3>. QED BY <2>0, <3>1, <3>2
  <2>4. CASE BadAlloc(w) \/ Quit(w) \/ DispatchError(w)
    BY <2>0, <2>4 DEF BadAlloc, Quit, DispatchError, stop, queue
  <2>5. CASE Postpone(w) \/ RunInLoop(w) \/ LimboPostpone(w)
    BY <2>0, <2>5 DEF Postpone, RunInLoop, LimboPostpone, schedule_at
  <2>6. CASE Full(w) \/ Again(w)
    <3>1. Dispatcher \notin startup
      BY DEF FirstDispatch, Dispatcher
    <3>. QED BY <2>0, <2>6, <3>1 DEF Full, Again, schedule_at
  <2>7. CASE Dispatch(w)
    <3>1. \A r \in Requests : r \notin startup
      BY DEF FirstDispatch
    <3>. QED BY <2>0, <2>7, <3>1 DEF Dispatch, schedule, queue
  <2>. QED BY <1>1, <2>1, <2>2, <2>3, <2>4, <2>5, <2>6, <2>7 DEF Worker
<1>2. CASE MainSchedule
  BY <1>2 DEF MainSchedule, schedule
<1>3. CASE UNCHANGED <<ready, waiting, ev, startup>>
  BY <1>3
<1>4. CASE \/ MainNotify \/ MainJoinWorkers \/ MainJoinIsm \/ Signal
           \/ SignalStop \/ SignalNotify \/ IsmExit \/ Done \/ Tick
           \/ \E r \in Requests : Arrive(r)
  BY <1>3, <1>4, Zenon DEF MainNotify, MainJoinWorkers, MainJoinIsm, Signal,
     SignalStop, SignalNotify, IsmExit, Done, Arrive, Tick, queue, env,
     threads, vars
<1>5. CASE UNCHANGED vars
  BY <1>3, <1>5 DEF vars
<1>. QED BY <1>1, <1>2, <1>4, <1>5 DEF Next


\* Nothing takes a request into limbo, and only one of those notifies from there.
LEMMA LimboStep ==
  ASSUME TypeOK, LimboOnly, [Next]_vars PROVE LimboOnly' /\ UNCHANGED limbo
<1>. USE DEF TypeOK, LimboOnly
<1>1. ASSUME NEW w \in Workers, Worker(w) \/ Spurious(w)
      PROVE  LimboOnly' /\ UNCHANGED limbo
  <2>0. \A x \in Workers \ {w} : pc'[x] = "notify_limbo" => pc[x] = "notify_limbo"
    BY <1>1, WorkerStepLemma DEF WorkerStep
  <2>1. /\ UNCHANGED limbo
        /\ \A x \in Workers \ {w} : ev'[x] = ev[x]
    <3>1. CASE Top(w) \/ Inner(w)
      BY <3>1 DEF Top, Inner, exit, take, wait, timed_wait, env
    <3>2. CASE TimeOut(w) \/ Spurious(w) \/ Notify(w) \/ NotifyLast(w) \/ NotifyAll(w)
               \/ NotifyLimbo(w)
      BY <3>2 DEF TimeOut, Spurious, Notify, NotifyLast, NotifyAll, NotifyLimbo, env
    <3>3. CASE Finish(w) \/ Postpone(w) \/ RunInLoop(w) \/ LimboPostpone(w)
      BY <3>3 DEF Finish, Postpone, RunInLoop, LimboPostpone, env
    <3>4. CASE BadAlloc(w) \/ Quit(w) \/ DispatchError(w)
      BY <3>4 DEF BadAlloc, Quit, DispatchError, stop
    <3>5. CASE Read(w) \/ ReadError(w) \/ CannotCreateLBContext(w) \/ Full(w)
               \/ Dispatch(w) \/ Again(w)
      BY <3>5 DEF Read, ReadError, CannotCreateLBContext, Full, Dispatch, Again, env
    <3>. QED BY <1>1, <3>1, <3>2, <3>3, <3>4, <3>5 DEF Worker
  <2>2. pc'[w] = "notify_limbo" => ev'[w] \in limbo
    <3>1. CASE Top(w) \/ Inner(w)
      BY <3>1 DEF Top, Inner, exit, take, wait, timed_wait
    <3>2. CASE TimeOut(w) \/ Spurious(w)
      BY <3>2 DEF TimeOut, Spurious, Woken
    <3>3. CASE Notify(w) \/ NotifyLast(w) \/ NotifyAll(w) \/ NotifyLimbo(w)
      BY <3>3, NotifierGoes
    <3>4. CASE Finish(w) \/ Postpone(w) \/ RunInLoop(w) \/ LimboPostpone(w)
      BY <3>4 DEF Finish, Postpone, RunInLoop, LimboPostpone
    <3>5. CASE BadAlloc(w) \/ Quit(w) \/ DispatchError(w)
      BY <3>5 DEF BadAlloc, Quit, DispatchError, stop
    <3>6. CASE Read(w) \/ ReadError(w) \/ CannotCreateLBContext(w) \/ Full(w)
               \/ Dispatch(w) \/ Again(w)
      BY <3>6 DEF Read, ReadError, CannotCreateLBContext, Full, Dispatch, Again
    <3>. QED BY <1>1, <3>1, <3>2, <3>3, <3>4, <3>5, <3>6 DEF Worker
  <2>. QED BY <2>0, <2>1, <2>2
<1>2. CASE UNCHANGED <<pc, ev, limbo>>
  BY <1>2
<1>3. CASE MainNotify \/ SignalNotify
  <2>1. \A x \in Workers : pc'[x] \in {pc[x], "top", "inner"}
    <3>1. CASE MainNotify
      BY <3>1, NotifyOne DEF MainNotify
    <3>2. CASE SignalNotify
      BY <3>2, NotifyAllWorkers DEF SignalNotify
    <3>. QED BY <1>3, <3>1, <3>2
  <2>2. UNCHANGED <<ev, limbo>>
    BY <1>3 DEF MainNotify, SignalNotify
  <2>. QED BY <2>1, <2>2
<1>4. CASE \/ MainSchedule \/ MainJoinWorkers \/ MainJoinIsm \/ Signal \/ SignalStop
           \/ IsmExit \/ Tick \/ Done \/ \E r \in Requests : Arrive(r)
  BY <1>2, <1>4, Zenon DEF MainSchedule, MainJoinWorkers, MainJoinIsm, Signal, SignalStop,
                           IsmExit, Tick, Done, Arrive, env, vars
<1>5. CASE UNCHANGED vars
  BY <1>2, <1>5 DEF vars
<1>. QED BY <1>1, <1>3, <1>4, <1>5 DEF Next

-----------------------------------------------------------------------------
\* A worker awake is all that the two wake-up properties ask for.
LEMMA AwakeSuffices ==
  ASSUME NEW w \in Workers, Awake(w)' PROVE NoLostWakeup' /\ TimerArmed'
BY DEF NoLostWakeup, TimerArmed

\* The step of a worker.
LEMMA WorkerPreserves ==
  ASSUME IInv, NEW w \in Workers, Worker(w) \/ Spurious(w)
  PROVE  ExitedStopped' /\ NoLostWakeup' /\ TimerArmed' /\ StopWakesAll'
<1>0. WorkerStep(w) /\ TypeOK /\ pc' \in [Workers -> PCs]
  <2>1. TypeOK'
    BY TypeStep DEF IInv, Next
  <2>. QED BY <2>1, WorkerStepLemma DEF IInv, TypeOK
<1>1. ExitedStopped'
  BY <1>0 DEF WorkerStep, ExitedStopped, IInv
<1>2. StopWakesAll'
  <2>1. SUFFICES ASSUME shutdown',
                        ~(sig = "notify_all"),
                        \A x \in Workers : pc'[x] # "notify_all"
                 PROVE  \A x \in Workers : pc'[x] \notin {"wait", "timed"}
    BY <1>0 DEF StopWakesAll, Asleep, WorkerStep
  <2>2. shutdown /\ pc'[w] \notin {"wait", "timed"}
    BY <1>0, <2>1 DEF WorkerStep
  <2>3. CASE pc[w] = "notify_all"
    BY <1>0, <2>3 DEF WorkerStep
  <2>4. CASE pc[w] # "notify_all"
    <3>1. \A x \in Workers : pc[x] # "notify_all"
      BY <1>0, <2>1, <2>4 DEF WorkerStep
    <3>2. \A x \in Workers : pc[x] \notin {"wait", "timed"}
      BY <2>1, <2>2, <3>1 DEF IInv, StopWakesAll, Asleep
    <3>. QED BY <1>0, <2>2, <3>2 DEF WorkerStep
  <2>. QED BY <2>3, <2>4
<1>3. NoLostWakeup' /\ TimerArmed'
  <2>1. CASE pc'[w] \notin {"wait", "timed", "exited"}
    BY <2>1, AwakeSuffices DEF Awake
  <2>2. CASE pc'[w] \in {"wait", "timed"}
    BY <1>0, <2>2 DEF WorkerStep, NoLostWakeup, TimerArmed
  <2>3. CASE pc'[w] = "exited"
    BY <1>0, <2>3 DEF WorkerStep, NoLostWakeup, TimerArmed
  <2>. QED BY <2>1, <2>2, <2>3
<1>. QED BY <1>1, <1>2, <1>3

\* The steps of the other threads and of the environment.
LEMMA OtherPreserves ==
  ASSUME IInv, [Next]_vars, ~ \E w \in Workers : Worker(w) \/ Spurious(w)
  PROVE  ExitedStopped' /\ NoLostWakeup' /\ TimerArmed' /\ StopWakesAll'
<1>. USE DEF IInv
<1>1. CASE UNCHANGED <<ready, waiting, due, shutdown, pc, deadline, main, sig>>
  BY <1>1 DEF ExitedStopped, NoLostWakeup, TimerArmed, StopWakesAll, Awake,
              Asleep
<1>2. CASE MainSchedule
  <2>1. PICK e \in startup : schedule(e)
    BY <1>2 DEF MainSchedule
  <2>2. \A f \in waiting : f \in Ev /\ f # e /\ due'[f] = due[f]
    BY <2>1 DEF schedule, StartupFresh, TypeOK
  <2>3. /\ UNCHANGED <<waiting, shutdown, pc, deadline, sig>>
        /\ main' = "notify"
    BY <1>2, <2>1 DEF MainSchedule, schedule
  <2>. QED BY <2>2, <2>3 DEF ExitedStopped, NoLostWakeup, TimerArmed,
                             StopWakesAll, Awake, Asleep
<1>3. CASE MainNotify
  <2>1. /\ \A w \in Workers :
             pc[w] \notin {"wait", "timed"} => pc'[w] = pc[w]
        /\ \A w \in Workers : pc'[w] \in {pc[w], "top", "inner"}
        /\ \/ \E w \in Workers : pc'[w] \in {"top", "inner"}
           \/ \A w \in Workers : pc'[w] \notin {"wait", "timed"}
    BY <1>3, NotifyOne DEF MainNotify, TypeOK
  <2>2. UNCHANGED <<ready, waiting, due, shutdown, sig>>
    BY <1>3 DEF MainNotify, queue
  <2>3. ExitedStopped' /\ StopWakesAll'
    BY <2>1, <2>2 DEF ExitedStopped, StopWakesAll, Asleep
  <2>4. NoLostWakeup' /\ TimerArmed'
    <3>1. CASE \E w \in Workers : pc'[w] \in {"top", "inner"}
      BY <3>1, AwakeSuffices DEF Awake
    <3>2. CASE \A w \in Workers : pc'[w] \notin {"wait", "timed"}
      <4>1. PICK w \in Workers : TRUE
        BY EventsAssumption
      <4>2. CASE pc'[w] = "exited"
        BY <2>1, <2>2, <4>2 DEF ExitedStopped, NoLostWakeup, TimerArmed
      <4>3. CASE pc'[w] # "exited"
        BY <3>2, <4>3, AwakeSuffices DEF Awake
      <4>. QED BY <4>2, <4>3
    <3>. QED BY <2>1, <3>1, <3>2
  <2>. QED BY <2>3, <2>4
<1>4. CASE MainJoinWorkers
  <2>1. shutdown
    BY <1>4, EventsAssumption DEF MainJoinWorkers, ExitedStopped
  <2>. QED BY <1>4, <2>1 DEF MainJoinWorkers, ExitedStopped, NoLostWakeup,
                             TimerArmed, StopWakesAll, Asleep, queue
<1>5. CASE MainJoinIsm
  BY <1>5 DEF MainJoinIsm, ExitedStopped, NoLostWakeup, TimerArmed,
              StopWakesAll, Asleep, Awake, queue
<1>6. CASE Signal
  BY <1>6 DEF Signal, ExitedStopped, NoLostWakeup, TimerArmed, StopWakesAll,
              Asleep, Awake, queue
<1>7. CASE SignalStop
  BY <1>7 DEF SignalStop, ExitedStopped, NoLostWakeup, TimerArmed, StopWakesAll
<1>8. CASE SignalNotify
  <2>1. /\ \A w \in Workers : pc'[w] \notin {"wait", "timed"}
        /\ \A w \in Workers : pc'[w] \in {pc[w], "top", "inner"}
    BY <1>8, NotifyAllWorkers DEF SignalNotify, TypeOK
  <2>2. UNCHANGED shutdown
    BY <1>8 DEF SignalNotify
  <2>3. ExitedStopped' /\ StopWakesAll'
    BY <2>1, <2>2 DEF ExitedStopped, StopWakesAll, Asleep
  <2>4. PICK w \in Workers : TRUE
    BY EventsAssumption
  <2>5. CASE pc'[w] = "exited"
    <3>1. pc[w] = "exited"
      BY <2>1, <2>4, <2>5
    <3>2. shutdown'
      BY <2>2, <2>4, <3>1 DEF ExitedStopped
    <3>. QED BY <2>3, <3>2 DEF NoLostWakeup, TimerArmed
  <2>6. CASE pc'[w] # "exited"
    BY <2>1, <2>3, <2>4, <2>6, AwakeSuffices DEF Awake
  <2>. QED BY <2>3, <2>5, <2>6
<1>9. CASE IsmExit \/ (\E r \in Requests : Arrive(r))
  BY <1>1, <1>9 DEF IsmExit, Arrive, queue, threads
<1>10. CASE Tick
  <2>1. UNCHANGED <<ready, waiting, shutdown, pc, main, sig>>
    BY <1>10 DEF Tick, env, threads
  <2>2. ASSUME NEW w \in Workers, NEW e \in waiting,
               deadline[w] <= 0 \/ deadline[w] <= due[e]
        PROVE  deadline'[w] <= 0 \/ deadline'[w] <= due'[e]
    <3>1. /\ deadline[w] \in Int /\ due[e] \in Int /\ due[e] < Forever
          /\ e \in Ev /\ Forever \in Int
      BY EventsAssumption DEF TypeOK, DueBounded, Forever
    <3>2. due'[e] \in {due[e], due[e] - 1}
      BY <1>10, <3>1 DEF Tick
    <3>3. deadline'[w] = IF deadline[w] > 0 /\ deadline[w] # Forever
                         THEN deadline[w] - 1 ELSE deadline[w]
      BY <1>10 DEF Tick
    <3>. QED BY <2>2, <3>1, <3>2, <3>3
  <2>. QED BY <2>1, <2>2 DEF ExitedStopped, NoLostWakeup, TimerArmed,
                             StopWakesAll, Awake, Asleep
<1>11. CASE Done \/ UNCHANGED vars
  BY <1>1, <1>11 DEF Done, vars
<1>. QED BY <1>2, <1>3, <1>4, <1>5, <1>6, <1>7, <1>8, <1>9, <1>10, <1>11
         DEF Next

-----------------------------------------------------------------------------
\* IInv holds in every reachable state of the daemon.
THEOREM Invariance == Spec => []IInv
<1>1. Init => IInv
  <2>1. SUFFICES ASSUME Init PROVE IInv
    OBVIOUS
  <2>2. TypeOK
    <3>1. shutdown \in BOOLEAN /\ quit \in BOOLEAN
      BY <2>1, Zenon DEF Init
    <3>2. /\ ready \subseteq Ev /\ coming \subseteq Requests
          /\ startup \subseteq Ev /\ limbo \subseteq Requests
      BY <2>1 DEF Init, Ev, Dispatchers
    <3>3. ism \in {"running", "exited"}
      BY <2>1 DEF Init
    <3>. QED BY <2>1, <3>1, <3>2, <3>3 DEF Init, TypeOK, PCs
  <2>3. DueBounded
    BY <2>1, EventsAssumption DEF Init, DueBounded, Forever
  <2>4. StartupFresh
    BY <2>1, EventsAssumption DEF Init, StartupFresh, FirstDispatch, None
  <2>5. ExitedStopped /\ LimboOnly /\ NoLostWakeup /\ TimerArmed /\ StopWakesAll
    BY <2>1, EventsAssumption
       DEF Init, ExitedStopped, LimboOnly, NoLostWakeup, TimerArmed, StopWakesAll, Awake
  <2>. QED BY <2>2, <2>3, <2>4, <2>5 DEF IInv
<1>2. IInv /\ [Next]_vars => IInv'
  <2>1. SUFFICES ASSUME IInv, [Next]_vars PROVE IInv'
    OBVIOUS
  <2>2. TypeOK' /\ DueBounded' /\ StartupFresh' /\ LimboOnly'
    BY <2>1, TypeStep, DueStep, StartupStep, LimboStep DEF IInv
  <2>3. ExitedStopped' /\ NoLostWakeup' /\ TimerArmed' /\ StopWakesAll'
    BY <2>1, WorkerPreserves, OtherPreserves
  <2>. QED BY <2>2, <2>3 DEF IInv
<1>. QED BY <1>1, <1>2, PTL DEF Spec

\* For any number of workers and requests Events::run never sleeps while an
\* event is ready: some worker is awake, or main() is about to wake one.
THEOREM NeverSleepsThroughWork == Spec => []NoLostWakeup
BY Invariance, PTL DEF IInv

\* Whatever the order in which workers fill and empty the queues, every event
\* scheduled with schedule_at is covered by the deadline of a sleeping worker
\* or by a worker awake.
THEOREM TimersAreArmed == Spec => []TimerArmed
BY Invariance, PTL DEF IInv

\* Events::stop wakes every worker, however many callers it has.
THEOREM StopLeavesNobodyAsleep == Spec => []StopWakesAll
BY Invariance, PTL DEF IInv

-----------------------------------------------------------------------------
(* Where a request is.  Placed is inductive together with IInv.            *)

\* A request or a periodic event is in one place at a time, unless it is a
\* request in limbo.
Apart ==
  /\ \A e \in (Requests \ limbo) \cup Periodics : ~(e \in ready /\ e \in waiting)
  /\ input \cap coming = {}
  /\ \A r \in coming \cup input :
       /\ r \notin ready \cup waiting
       /\ \A w \in Workers : r \notin items[w] /\ ev[w] # r
  /\ \A w \in Workers : \A r \in items[w] :
       /\ r \notin ready \cup waiting
       /\ \A x \in Workers : ev[x] # r
       /\ \A x \in Workers \ {w} : r \notin items[x]

\* Only a worker in the middle of a dispatch holds items.
ItemsHeld ==
  \A w \in Workers : items[w] # {} =>
    pc[w] \in {"dispatch", "notify"} /\ ev[w] \in Dispatchers

\* NoRequestLost, where a worker that has postponed its request, and is about
\* to notify, does not stand for it: another one may have taken it meanwhile.
Kept ==
  ~shutdown => \A r \in Requests \ (Invalid \cup coming \cup served) :
                 \/ r \in input \cup stranded \cup ready \cup waiting
                 \/ \E w \in Workers : r \in items[w] \/ (ev[w] = r /\ pc[w] = "run")

Placed == Apart /\ ItemsHeld /\ ExecutedAlone /\ Kept

\* A step that moves no event and no request, and starts or ends no execution.
LEMMA PlacedStays ==
  ASSUME Placed, UNCHANGED <<ready, waiting, ev, items, coming, input, served, stranded, limbo>>,
         shutdown => shutdown',
         \A x \in Workers : /\ pc'[x] = "run" <=> pc[x] = "run"
                            /\ pc[x] \in {"dispatch", "notify"} => pc'[x] = pc[x]
  PROVE  Placed'
<1>1. Apart'
  BY DEF Placed, Apart
<1>2. ItemsHeld'
  BY DEF Placed, ItemsHeld
<1>3. ExecutedAlone'
  BY DEF Placed, ExecutedAlone
<1>4. Kept'
  BY DEF Placed, Kept
<1>. QED BY <1>1, <1>2, <1>3, <1>4 DEF Placed

\* The step of a worker.
LEMMA WorkerPlaced ==
  ASSUME TypeOK, TypeOK', LimboOnly, Placed, NEW w \in Workers, Worker(w) \/ Spurious(w)
  PROVE  Placed'
<1>. USE EventsAssumption DEF TypeOK
<1>0. /\ \A x \in Workers \ {w} :
           /\ pc'[x] = "run" <=> pc[x] = "run"
           /\ pc[x] \in {"dispatch", "notify"} => pc'[x] = pc[x]
      /\ shutdown => shutdown'
      /\ UNCHANGED limbo
  BY WorkerStepLemma, LimboStep DEF WorkerStep, Next
<1>1. CASE Top(w) \/ Inner(w)
  <2>0. /\ pc[w] \in {"top", "inner"}
        /\ UNCHANGED <<items, coming, input, served, stranded>>
    BY <1>1, Zenon DEF Top, Inner, env
  <2>1. CASE exit(w) \/ wait(w) \/ timed_wait(w)
    <3>1. UNCHANGED <<ready, waiting, ev>> /\ pc'[w] \notin {"run", "dispatch", "notify"}
      BY <2>1 DEF exit, wait, timed_wait, queue
    <3>. QED BY <1>0, <2>0, <3>1, PlacedStays
  <2>2. CASE take(w)
    <3>1. PICK e \in NextReady(ready \cup Expired) :
            /\ ready' = (ready \cup Expired) \ {e}
            /\ ev' = [ev EXCEPT ![w] = e]
      BY <2>2 DEF take
    <3>2. /\ waiting' = waiting \ Expired
          /\ pc' = [pc EXCEPT ![w] = "run"]
          /\ ~shutdown
      BY <2>2 DEF take
    <3>3. e \in ready \cup waiting /\ e \in Ev /\ Expired \subseteq waiting
      BY DEF NextReady, Expired
    <3>4. e \in ready \cup Expired
      BY DEF NextReady
    <3>. HIDE DEF Expired
    <3>5. ev'[w] = e /\ \A x \in Workers \ {w} : ev'[x] = ev[x]
      BY <3>1
    <3>6. Apart'
      BY <1>0, <2>0, <3>1, <3>2, <3>3, <3>5 DEF Placed, Apart
    <3>7. ItemsHeld'
      BY <1>0, <2>0, <3>5 DEF Placed, ItemsHeld
    <3>8. ExecutedAlone'
      <4>1. e \in (Requests \ limbo) \cup Periodics => e \notin ready' \cup waiting'
        BY <3>1, <3>2, <3>3, <3>4 DEF Placed, Apart
      <4>2. ready' \cup waiting' \subseteq ready \cup waiting
        BY <3>1, <3>2, <3>3
      <4>. QED BY <1>0, <3>2, <3>3, <3>5, <4>1, <4>2 DEF Placed, ExecutedAlone
    <3>9. Kept'
      <4>1. \A r \in ready \cup waiting : r \in ready' \cup waiting' \/ r = e
        BY <3>1, <3>2
      <4>2. pc'[w] = "run"
        BY <3>2
      <4>3. \A x \in Workers : pc[x] = "run" => pc'[x] = "run" /\ ev'[x] = ev[x]
        BY <1>0, <2>0, <3>5
      <4>. QED BY <2>0, <3>2, <3>5, <4>1, <4>2, <4>3 DEF Placed, Kept
    <3>. QED BY <3>6, <3>7, <3>8, <3>9 DEF Placed
  <2>. QED BY <1>1, <2>1, <2>2 DEF Top, Inner
<1>2. CASE TimeOut(w) \/ Spurious(w)
  <2>1. UNCHANGED <<ready, waiting, ev, items, coming, input, served, stranded>>
    BY <1>2, Zenon DEF TimeOut, Spurious, queue, env
  <2>2. pc[w] \in {"wait", "timed"} /\ pc'[w] \in {"top", "inner"}
    BY <1>2 DEF TimeOut, Spurious, Asleep, Woken
  <2>. QED BY <1>0, <2>1, <2>2, PlacedStays
<1>3. CASE Notify(w) \/ NotifyLast(w) \/ NotifyAll(w)
  <2>1. UNCHANGED <<ready, waiting, items, coming, input, served, stranded>>
    BY <1>3, Zenon DEF Notify, NotifyLast, NotifyAll, queue, env
  <2>2. /\ pc[w] \in {"notify", "notify_last", "notify_all"}
        /\ ev' = [ev EXCEPT ![w] = None] \/ ev' = ev
        /\ pc[w] = "notify" /\ ev[w] \in Dispatchers => ev' = ev
    BY <1>3 DEF Notify, NotifyLast, NotifyAll
  <2>3. /\ pc'[w] # "run"
        /\ pc[w] = "notify" /\ ev[w] \in Dispatchers => pc'[w] = "dispatch"
    BY <1>3, <2>2, NotifierGoes
  <2>4. None \notin Requests \cup Periodics
    OBVIOUS
  <2>5. \A x \in Workers : pc[x] = "run" <=> pc'[x] = "run"
    BY <1>0, <2>2, <2>3
  <2>6. \A x \in Workers : ev'[x] = ev[x] \/ (x = w /\ ev'[x] = None)
    BY <2>2
  <2>7. Apart'
    BY <1>0, <2>1, <2>4, <2>6 DEF Placed, Apart
  <2>8. ItemsHeld'
    BY <1>0, <2>1, <2>2, <2>3, <2>6 DEF Placed, ItemsHeld
  <2>9. ExecutedAlone'
    BY <1>0, <2>1, <2>4, <2>5, <2>6 DEF Placed, ExecutedAlone
  <2>10. Kept'
    BY <1>0, <2>1, <2>2, <2>5, <2>6 DEF Placed, Kept
  <2>. QED BY <2>7, <2>8, <2>9, <2>10 DEF Placed
<1>4. CASE Finish(w)
  <2>1. /\ UNCHANGED <<ready, waiting, items, coming, input, stranded>>
        /\ served' = served \cup {ev[w]}
    BY <1>4, Zenon DEF Finish, queue
  <2>2. /\ pc[w] = "run" /\ pc'[w] = "top" /\ ev'[w] = None
        /\ \A x \in Workers \ {w} : ev'[x] = ev[x]
    BY <1>4 DEF Finish
  <2>3. None \notin Requests \cup Periodics
    OBVIOUS
  <2>4. Apart'
    BY <1>0, <2>1, <2>2, <2>3 DEF Placed, Apart
  <2>5. ItemsHeld'
    BY <1>0, <2>1, <2>2 DEF Placed, ItemsHeld
  <2>6. ExecutedAlone'
    BY <1>0, <2>1, <2>2 DEF Placed, ExecutedAlone
  <2>7. Kept'
    <3>. SUFFICES ASSUME ~shutdown', NEW r \in Requests \ (Invalid \cup coming' \cup served'),
                         r \notin (input \cup stranded \cup ready \cup waiting)'
                  PROVE  \E x \in Workers : r \in items'[x] \/ (ev'[x] = r /\ pc'[x] = "run")
      BY DEF Kept
    <3>1. PICK x \in Workers : r \in items[x] \/ (ev[x] = r /\ pc[x] = "run")
      BY <1>0, <2>1, <2>2 DEF Placed, Kept
    <3>. QED BY <1>0, <2>1, <2>2, <3>1
  <2>. QED BY <2>4, <2>5, <2>6, <2>7 DEF Placed
<1>5. CASE Postpone(w) \/ RunInLoop(w) \/ LimboPostpone(w)
  <2>1. UNCHANGED <<ready, ev, items, coming, input, served, stranded>>
    BY <1>5, Zenon DEF Postpone, RunInLoop, LimboPostpone, schedule_at, env
  <2>2. /\ pc[w] = "run"
        /\ pc'[w] = "notify" \/ (pc'[w] = "notify_limbo" /\ ev[w] \in limbo)
        /\ ev[w] \in Requests \cup Periodics
        /\ waiting' = waiting \cup {ev[w]}
    BY <1>5 DEF Postpone, RunInLoop, LimboPostpone, schedule_at
  <2>3. Apart'
    BY <1>0, <2>1, <2>2 DEF Placed, Apart, ExecutedAlone
  <2>4. ItemsHeld'
    BY <1>0, <2>1, <2>2 DEF Placed, ItemsHeld
  <2>5. ExecutedAlone'
    BY <1>0, <2>1, <2>2 DEF Placed, ExecutedAlone
  <2>6. Kept'
    <3>. SUFFICES ASSUME ~shutdown', NEW r \in Requests \ (Invalid \cup coming' \cup served'),
                         r \notin (input \cup stranded \cup ready \cup waiting)'
                  PROVE  \E x \in Workers : r \in items'[x] \/ (ev'[x] = r /\ pc'[x] = "run")
      BY DEF Kept
    <3>1. PICK x \in Workers : r \in items[x] \/ (ev[x] = r /\ pc[x] = "run")
      BY <1>0, <2>1, <2>2 DEF Placed, Kept
    <3>. QED BY <1>0, <2>1, <2>2, <3>1
  <2>. QED BY <2>3, <2>4, <2>5, <2>6 DEF Placed
<1>6. CASE BadAlloc(w) \/ Quit(w) \/ DispatchError(w)
  <2>1. stop(w) /\ pc[w] \in {"run", "dispatch"}
    BY <1>6 DEF BadAlloc, Quit, DispatchError, Dispatching
  <2>2. UNCHANGED <<ready, waiting, ev, coming, input, served>> /\ shutdown'
    BY <2>1, Zenon DEF stop, queue
  <2>3. items' = items \/ items' = [items EXCEPT ![w] = {}]
    BY <1>6 DEF BadAlloc, Quit, DispatchError
  <2>4. pc[w] = "run" => items[w] = {}
    BY DEF Placed, ItemsHeld
  <2>5. items'[w] = {} /\ \A x \in Workers \ {w} : items'[x] = items[x]
    BY <1>6, <2>3, <2>4 DEF BadAlloc, Quit, DispatchError, Dispatching
  <2>6. pc'[w] = "notify_all"
    BY <2>1 DEF stop
  <2>7. Apart'
    BY <1>0, <2>2, <2>5 DEF Placed, Apart
  <2>8. ItemsHeld'
    BY <1>0, <2>2, <2>5 DEF Placed, ItemsHeld
  <2>9. ExecutedAlone'
    BY <1>0, <2>2, <2>6 DEF Placed, ExecutedAlone
  <2>10. Kept'
    BY <2>2 DEF Kept
  <2>. QED BY <2>7, <2>8, <2>9, <2>10 DEF Placed
<1>7. CASE Read(w)
  <2>1. /\ UNCHANGED <<ready, waiting, ev, coming, served, stranded, shutdown>>
        /\ pc[w] = "run" /\ pc'[w] = "dispatch" /\ ev[w] \in Dispatchers
        /\ items'[w] = input /\ input' = {}
        /\ \A x \in Workers \ {w} : items'[x] = items[x]
    BY <1>7 DEF Read, Dispatching, queue
  <2>2. items[w] = {} /\ Dispatchers \cap (Requests \cup Periodics) = {}
    BY <2>1 DEF Placed, ItemsHeld, Dispatchers
  <2>3. Apart'
    BY <1>0, <2>1 DEF Placed, Apart
  <2>4. ItemsHeld'
    BY <1>0, <2>1 DEF Placed, ItemsHeld
  <2>5. ExecutedAlone'
    BY <1>0, <2>1 DEF Placed, ExecutedAlone
  <2>6. Kept'
    <3>. SUFFICES ASSUME ~shutdown', NEW r \in Requests \ (Invalid \cup coming' \cup served'),
                         r \notin (input \cup stranded \cup ready \cup waiting)'
                  PROVE  \E x \in Workers : r \in items'[x] \/ (ev'[x] = r /\ pc'[x] = "run")
      BY DEF Kept
    <3>1. CASE r \in input
      BY <2>1, <3>1
    <3>2. CASE r \notin input
      <4>1. PICK x \in Workers : r \in items[x] \/ (ev[x] = r /\ pc[x] = "run")
        BY <2>1, <3>2 DEF Placed, Kept
      <4>. QED BY <1>0, <2>1, <2>2, <4>1
    <3>. QED BY <3>1, <3>2
  <2>. QED BY <2>3, <2>4, <2>5, <2>6 DEF Placed
<1>8. CASE ReadError(w)
  <2>1. /\ UNCHANGED <<ready, waiting, ev, items, coming, served, shutdown>>
        /\ pc[w] = "run" /\ pc'[w] = "dispatch" /\ ev[w] \in Dispatchers
    BY <1>8 DEF ReadError, Dispatching, queue
  <2>2. PICK moved \in SUBSET input : /\ input' = input \ moved
                                      /\ stranded' = stranded \cup moved
    BY <1>8 DEF ReadError
  <2>3. Dispatchers \cap (Requests \cup Periodics) = {}
    BY DEF Dispatchers
  <2>4. Apart'
    BY <1>0, <2>1, <2>2 DEF Placed, Apart
  <2>5. ItemsHeld'
    BY <1>0, <2>1 DEF Placed, ItemsHeld
  <2>6. ExecutedAlone'
    BY <1>0, <2>1 DEF Placed, ExecutedAlone
  <2>7. Kept'
    <3>. SUFFICES ASSUME ~shutdown', NEW r \in Requests \ (Invalid \cup coming' \cup served'),
                         r \notin (input \cup stranded \cup ready \cup waiting)'
                  PROVE  \E x \in Workers : r \in items'[x] \/ (ev'[x] = r /\ pc'[x] = "run")
      BY DEF Kept
    <3>1. PICK x \in Workers : r \in items[x] \/ (ev[x] = r /\ pc[x] = "run")
      BY <1>0, <2>1, <2>2, <2>3 DEF Placed, Kept
    <3>. QED BY <1>0, <2>1, <2>2, <2>3, <3>1
  <2>. QED BY <2>4, <2>5, <2>6, <2>7 DEF Placed
<1>9. CASE Full(w) \/ Again(w)
  <2>1. /\ UNCHANGED <<ready, ev, items, coming, input, served, stranded>>
        /\ waiting' = waiting \cup {Dispatcher}
    BY <1>9, Zenon DEF Full, Again, schedule_at, env
  <2>2. /\ pc'[w] = "notify_last" /\ items[w] = {}
        /\ pc[w] = "dispatch" \/ (pc[w] = "run" /\ ev[w] \in Dispatchers)
    BY <1>9 DEF Full, Again, Dispatching, Placed, ItemsHeld
  <2>3. Dispatchers \cap (Requests \cup Periodics) = {} /\ Dispatcher \in Dispatchers
    BY DEF Dispatchers
  <2>4. Apart'
    BY <1>0, <2>1, <2>3 DEF Placed, Apart
  <2>5. ItemsHeld'
    BY <1>0, <2>1, <2>2 DEF Placed, ItemsHeld
  <2>6. ExecutedAlone'
    BY <1>0, <2>1, <2>2, <2>3 DEF Placed, ExecutedAlone
  <2>7. Kept'
    <3>. SUFFICES ASSUME ~shutdown', NEW r \in Requests \ (Invalid \cup coming' \cup served'),
                         r \notin (input \cup stranded \cup ready \cup waiting)'
                  PROVE  \E x \in Workers : r \in items'[x] \/ (ev'[x] = r /\ pc'[x] = "run")
      BY DEF Kept
    <3>1. PICK x \in Workers : r \in items[x] \/ (ev[x] = r /\ pc[x] = "run")
      BY <1>0, <2>1, <2>2, <2>3 DEF Placed, Kept
    <3>. QED BY <1>0, <2>1, <2>2, <2>3, <3>1
  <2>. QED BY <2>4, <2>5, <2>6, <2>7 DEF Placed
<1>10. CASE Dispatch(w) \/ CannotCreateLBContext(w)
  <2>1. PICK r \in items[w] : items' = [items EXCEPT ![w] = @ \ {r}]
    BY <1>10 DEF Dispatch, CannotCreateLBContext
  <2>2. /\ UNCHANGED <<waiting, ev, coming, input, served, shutdown>>
        /\ pc[w] = "dispatch" /\ pc'[w] \in {"dispatch", "notify"}
    BY <1>10 DEF Dispatch, CannotCreateLBContext, schedule, queue, env
  <2>3. PICK q \in items[w] :
          /\ items' = [items EXCEPT ![w] = @ \ {q}]
          /\ \/ ready' = ready \cup {q} /\ stranded' = stranded
             \/ ready' = ready /\ stranded' = stranded \cup {q}
             \/ q \in Invalid /\ UNCHANGED <<ready, stranded>>
    BY <1>10 DEF Dispatch, CannotCreateLBContext, schedule, queue, env
  <2>4. /\ items'[w] = items[w] \ {q} /\ q \in Requests
        /\ \A x \in Workers \ {w} : items'[x] = items[x]
    BY <2>3
  <2>5. ev[w] \in Dispatchers
    BY <2>1 DEF Placed, ItemsHeld
  <2>6. Apart'
    BY <1>0, <2>2, <2>3, <2>4 DEF Placed, Apart
  <2>7. ItemsHeld'
    BY <1>0, <2>2, <2>4, <2>5 DEF Placed, ItemsHeld
  <2>8. ExecutedAlone'
    BY <1>0, <2>2, <2>3 DEF Placed, ExecutedAlone, Apart
  <2>9. Kept'
    BY <1>0, <2>2, <2>3, <2>4 DEF Placed, Kept
  <2>. QED BY <2>6, <2>7, <2>8, <2>9 DEF Placed
<1>11. CASE NotifyLimbo(w)
  <2>1. UNCHANGED <<ready, waiting, ev, items, coming, input, served, stranded>>
    BY <1>11, Zenon DEF NotifyLimbo, queue, env
  <2>2. pc[w] = "notify_limbo" /\ pc'[w] = "run" /\ ev[w] \in limbo
    BY <1>11, NotifierGoes DEF NotifyLimbo, LimboOnly
  <2>3. ev[w] \notin Periodics
    BY <2>2
  <2>4. Apart'
    BY <1>0, <2>1 DEF Placed, Apart
  <2>5. ItemsHeld'
    BY <1>0, <2>1, <2>2 DEF Placed, ItemsHeld
  <2>6. ExecutedAlone'
    BY <1>0, <2>1, <2>2, <2>3 DEF Placed, ExecutedAlone
  <2>7. Kept'
    BY <1>0, <2>1, <2>2 DEF Placed, Kept
  <2>. QED BY <2>4, <2>5, <2>6, <2>7 DEF Placed
<1>. QED BY <1>1, <1>2, <1>3, <1>4, <1>5, <1>6, <1>7, <1>8, <1>9, <1>10, <1>11 DEF Worker

\* The steps of the other threads and of the environment.
LEMMA OtherPlaced ==
  ASSUME IInv, Placed, [Next]_vars, ~ \E w \in Workers : Worker(w) \/ Spurious(w)
  PROVE  Placed'
<1>. USE EventsAssumption
<1>0. TypeOK /\ StartupFresh /\ UNCHANGED limbo
  BY LimboStep DEF IInv
<1>1. CASE MainSchedule
  <2>1. PICK e \in startup : ready' = ready \cup {e}
    BY <1>1 DEF MainSchedule, schedule
  <2>2. UNCHANGED <<waiting, ev, items, coming, input, served, stranded, shutdown, pc>>
    BY <1>1 DEF MainSchedule, schedule
  <2>3. /\ e \notin Requests /\ e \notin waiting
        /\ \A w \in Workers : ev[w] # e
    BY <1>0 DEF StartupFresh
  <2>4. Apart'
    BY <1>0, <2>1, <2>2, <2>3 DEF Placed, Apart, TypeOK
  <2>5. ItemsHeld'
    BY <2>2 DEF Placed, ItemsHeld
  <2>6. ExecutedAlone'
    BY <1>0, <2>1, <2>2, <2>3 DEF Placed, ExecutedAlone
  <2>7. Kept'
    BY <2>1, <2>2 DEF Placed, Kept
  <2>. QED BY <2>4, <2>5, <2>6, <2>7 DEF Placed
<1>2. CASE MainNotify \/ SignalNotify
  <2>1. UNCHANGED <<ready, waiting, ev, items, coming, input, served, stranded, shutdown>>
    BY <1>2, Zenon DEF MainNotify, SignalNotify, queue
  <2>2. \A x \in Workers : /\ pc[x] \notin {"wait", "timed"} => pc'[x] = pc[x]
                           /\ pc'[x] \in {pc[x], "top", "inner"}
    <3>1. CASE MainNotify
      BY <1>0, <3>1, NotifyOne DEF MainNotify, TypeOK
    <3>2. CASE SignalNotify
      BY <1>0, <3>2, NotifyAllWorkers DEF SignalNotify, TypeOK
    <3>. QED BY <1>2, <3>1, <3>2
  <2>. QED BY <1>0, <2>1, <2>2, PlacedStays
<1>3. CASE MainJoinWorkers \/ MainJoinIsm \/ Signal \/ IsmExit \/ Tick \/ Done \/ UNCHANGED vars
  <2>1. UNCHANGED <<ready, waiting, ev, items, coming, input, served, stranded, shutdown, pc>>
    BY <1>3, Zenon DEF MainJoinWorkers, MainJoinIsm, Signal, IsmExit, Tick, Done, queue, env,
                       vars
  <2>. QED BY <1>0, <2>1, PlacedStays
<1>4. CASE SignalStop
  <2>1. /\ UNCHANGED <<ready, waiting, ev, items, coming, input, served, stranded, pc>>
        /\ shutdown'
    BY <1>4, Zenon DEF SignalStop, queue
  <2>. QED BY <1>0, <2>1, PlacedStays
<1>5. ASSUME NEW r \in Requests, Arrive(r) PROVE Placed'
  <2>1. /\ UNCHANGED <<ready, waiting, ev, items, served, stranded, shutdown, pc>>
        /\ r \in coming /\ coming' = coming \ {r} /\ input' = input \cup {r}
    BY <1>5, Zenon DEF Arrive, queue
  <2>2. Apart'
    BY <1>0, <2>1 DEF Placed, Apart
  <2>3. ItemsHeld' /\ ExecutedAlone'
    BY <1>0, <2>1 DEF Placed, ItemsHeld, ExecutedAlone
  <2>4. Kept'
    BY <2>1 DEF Placed, Kept
  <2>. QED BY <2>2, <2>3, <2>4 DEF Placed
<1>. QED BY <1>1, <1>2, <1>3, <1>4, <1>5 DEF Next

\* In every reachable state each request and each periodic event has its place.
THEOREM Placement == Spec => []Placed
<1>1. Init => Placed
  <2> SUFFICES ASSUME Init PROVE Placed
    OBVIOUS
  <2>1. None \notin Requests \cup Periodics
    BY EventsAssumption
  <2>2. Apart
    BY <2>1 DEF Init, Apart
  <2>3. ItemsHeld /\ ExecutedAlone /\ Kept
    BY DEF Init, ItemsHeld, ExecutedAlone, Kept
  <2>. QED BY <2>2, <2>3 DEF Placed
<1>2. IInv /\ IInv' /\ Placed /\ [Next]_vars => Placed'
  BY WorkerPlaced, OtherPlaced DEF IInv
<1>. QED BY <1>1, <1>2, Invariance, PTL DEF Spec

\* The dispatcher and the queue never lose a request that was delivered, while
\* the daemon runs: however many workers postpone, take and dispatch.
THEOREM RequestsAreKept == Spec => []NoRequestLost
<1>1. Placed => NoRequestLost
  BY DEF Placed, Kept, NoRequestLost
<1>. QED BY <1>1, Placement, PTL

\* Whatever the number of workers, an event other than a request in limbo is
\* executed by one of them at a time, and not while it is queued; although a worker that has postponed its
\* event still refers to it when it notifies.
THEOREM OneWorkerPerEvent == Spec => []ExecutedAlone
BY Placement, PTL DEF Placed
=============================================================================
