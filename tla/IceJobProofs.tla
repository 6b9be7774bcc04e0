---------------------------- MODULE IceJobProofs ----------------------------
(***************************************************************************)
(* The jobs of ICE, for any number of jobs, queries and logging threads:   *)
(* types (TypeCorrect), no event of CREAM is lost (EventsAreKept), no job  *)
(* is forgotten before a crash (JobsAreRemembered), a query works on the   *)
(* current copy of a job (QueriesActOnCurrentCopy), and a job is given     *)
(* back or ends once (OneOutcome, GivenBackIsDead).                        *)
(***************************************************************************)
EXTENDS IceJob, SequenceTheorems, FiniteSetTheorems, WellFoundedInduction, TLAPS

-----------------------------------------------------------------------------
(* What each kind of thread leaves alone                                   *)

\* The main loop
LEMMA MainLoopFrame ==
  ASSUME MainLoop
  PROVE  UNCHANGED <<up, subVars, rowVars, proxy, queryVars, logVars, creamVars, resub,
                     ended, purged, crashes>>
BY DEF MainLoop, ReadRequest, PostponeRequest, RejectRequest, Recycle, outVars

\* The command of a job
LEMMA CommandFrame ==
  ASSUME NEW j \in Jobs, Command(j)
  PROVE  UNCHANGED <<up, recycles, lastid, floor, apc, todo, upto, cur, logVars, events, token,
                     ended, purged, crashes>>
<1> USE DEF dirVars, subVars, rowVars, queryVars, logVars, creamVars, outVars
<1>1. CASE \E w \in {"submit", "reschedule"} : TakeCommand(<<j, w>>)
  BY <1>1 DEF TakeCommand
<1>2. CASE \/ Reschedule(j) \/ Release(j) \/ Lookup(j) \/ CreateJob(j) \/ Count(j)
           \/ Delegate(j)
           \/ SetBetterProxy(j) \/ Register(j) \/ RegisterTimesOut(j) \/ Redelegate(j)
  BY <1>2 DEF Reschedule, Release, Lookup, CreateJob, Count, Delegate, SetBetterProxy, Register,
     RegisterTimesOut, Redelegate
<1>3. CASE \/ SubmitFails(j) \/ BlackListed(j) \/ Record(j) \/ Start(j) \/ StartFails(j)
           \/ Started(j) \/ GiveBack(j) \/ Uncount(j) \/ Remove(j) \/ PurgeRequest(j)
  BY <1>3 DEF SubmitFails, BlackListed, Record, Start, StartFails, Started, GiveBack,
     Uncount, Remove, PurgeRequest
<1> QED
  BY <1>1, <1>2, <1>3 DEF Command

\* resubmit_or_purge_job()
LEMMA EndJobFrame ==
  ASSUME NEW a \in Actors, EndJob(a)
  PROVE  UNCHANGED <<up, dirVars, subVars, lastid, floor, todo, upto, logVars, creamVars, crashes>>
BY DEF EndJob, UpdateStatus, UncountJob, RemoveEnded, Resubmit, PurgeJob

\* An event query
LEMMA QueryFrame ==
  ASSUME NEW q \in Queries, Query(q)
  PROVE  UNCHANGED <<up, dirVars, subVars, rowVars, proxy, lpc, ljobs, lcur, creamVars,
                     outVars, crashes>>
<1>1. CASE Poll(q) \/ QueryFails(q) \/ SetEventId(q)
  BY <1>1 DEF Poll, QueryFails, SetEventId, logVars
<1>2. CASE QueryEvents(q)
  BY <1>2 DEF QueryEvents, logVars
<1>3. CASE QueryWithoutProxy(q)
  BY <1>3 DEF QueryWithoutProxy
<1>4. CASE \E j \in Jobs : \E k \in 1 .. Len(cream[j]) : NextJob(q, j, k)
  BY <1>4 DEF NextJob, logVars
<1> QED
  BY <1>1, <1>2, <1>3, <1>4 DEF Query

\* A thread of the logging pool
LEMMA LoggingFrame ==
  ASSUME NEW l \in Loggers, Logging(l)
  PROVE  UNCHANGED <<up, dirVars, subVars, queryVars, creamVars, resub, ended, purged, crashes>>
BY DEF Logging, TakeJobs, RemoveAborted, UncountAborted, JobsLogged, LogAbort, outVars

\* CREAM, the worker nodes and the replanner
LEMMA WorldFrame ==
  ASSUME World
  PROVE  UNCHANGED <<up, pool, recycles, subVars, rowVars, proxy, queryVars, logVars,
                     outVars, crashes>>
BY DEF World, Cancel, Replan, CreamRun, CreamPurge, CreamEnd, dirVars

\* The restart
LEMMA RecoveryFrame ==
  ASSUME Recovery
  PROVE  UNCHANGED <<pool, recycles, subVars, rowVars, proxy, lastid, upto, resched, logVars,
                     creamVars, outVars, crashes>>
BY DEF Recovery, Restart, InitDone, InitJob, dirVars

-----------------------------------------------------------------------------
(* The last event of a job                                                 *)

\* A set of numbers up to n has a greatest one.
LEMMA HasGreatest ==
  ASSUME NEW n \in Nat, NEW S \in SUBSET (1 .. n), S # {}
  PROVE  \E i \in S : \A h \in S : h <= i
<1> DEFINE R == OpToRel(<, Nat)  T == {n - i : i \in S}
<1>1. IsWellFoundedOn(R, Nat)
  BY NatLessThanWellFounded
<1>2. T \subseteq Nat /\ T # {}
  <2> HIDE DEF R
  <2>1. \A i \in S : i \in 1 .. n /\ n - i \in Nat
    OBVIOUS
  <2> QED
    BY <2>1
<1>3. \A x, y \in Nat : <<y, x>> \in R <=> y < x
  BY DEF OpToRel
<1> HIDE DEF R
<1>4. PICK x \in T : \A y \in T : ~ (<<y, x>> \in R)
  <2> HIDE DEF T
  <2> QED
    BY <1>1, <1>2, WFMin
<1>5. PICK i \in S : x = n - i
  OBVIOUS
<1>6. ASSUME NEW h \in S PROVE h <= i
  <2>1. n - h \in T
    OBVIOUS
  <2>2. ~ (n - h < n - i)
    BY <2>1, <1>2, <1>3, <1>4, <1>5
  <2> QED
    BY <2>2
<1> QED
  BY <1>6

-----------------------------------------------------------------------------
(* CREAM                                                                   *)

CreamStates == {"REGISTERED", "IDLE", "RUNNING"} \cup Final

CreamJobs == [st : CreamStates, token : Nat]

\* An event tells of a job that has ended.
CreamOK ==
  /\ cream \in [Jobs -> Seq(CreamJobs)]
  /\ events \in Seq(Jobs \X Nat \X Final)
  /\ \A i \in 1 .. Len(events) :
       /\ events[i][2] \in 1 .. Len(cream[events[i][1]])
       /\ cream[events[i][1]][events[i][2]].st \in Final
       /\ events[i][3] = "PURGED" => cream[events[i][1]][events[i][2]].st = "PURGED"

\* CREAM forgets neither jobs nor events, and what has ended stays so.
Grows ==
  /\ \A j \in Jobs : Len(cream[j]) <= Len(cream'[j])
  /\ \A j \in Jobs : \A k \in 1 .. Len(cream[j]) :
       /\ cream[j][k].st \in Final => cream'[j][k].st \in Final
       /\ cream[j][k].st = "PURGED" => cream'[j][k].st = "PURGED"
  /\ Len(events) <= Len(events')
  /\ \A i \in 1 .. Len(events) : events'[i] = events[i]

\* A new job on CREAM
LEMMA NewJobFacts ==
  ASSUME CreamOK, NEW j \in Jobs, NewCreamJob(j)
  PROVE  /\ cream' \in [Jobs -> Seq(CreamJobs)]
         /\ \A i \in Jobs \ {j} : cream'[i] = cream[i]
         /\ Len(cream'[j]) = Len(cream[j]) + 1
         /\ \A k \in 1 .. Len(cream[j]) : cream'[j][k] = cream[j][k]
         /\ cream'[j][Len(cream[j]) + 1].st = "REGISTERED"
<1> DEFINE c == [st |-> "REGISTERED", token |-> IF kind[j] = "submit" THEN 0 ELSE 1]
<1>1. c \in CreamJobs /\ c.st = "REGISTERED"
  BY DEF CreamJobs, CreamStates
<1>2. cream[j] \in Seq(CreamJobs) /\ cream' = [cream EXCEPT ![j] = Append(cream[j], c)]
  BY DEF CreamOK, NewCreamJob
<1> HIDE DEF c
<1>3. /\ Append(cream[j], c) \in Seq(CreamJobs)
      /\ Len(Append(cream[j], c)) = Len(cream[j]) + 1
      /\ \A k \in 1 .. Len(cream[j]) : Append(cream[j], c)[k] = cream[j][k]
      /\ Append(cream[j], c)[Len(cream[j]) + 1] = c
  BY <1>1, <1>2
<1>4. cream'[j] = Append(cream[j], c) /\ \A i \in Jobs \ {j} : cream'[i] = cream[i]
  BY <1>2 DEF CreamOK
<1>5. cream' \in [Jobs -> Seq(CreamJobs)]
  BY <1>2, <1>3 DEF CreamOK
<1> QED
  BY <1>1, <1>3, <1>4, <1>5

\* A job of CREAM changes its state.
SetState(j, k, x) == cream' = [cream EXCEPT ![j][k].st = x]

Changed(j, k, x) ==
  /\ cream' \in [Jobs -> Seq(CreamJobs)]
  /\ \A i \in Jobs \ {j} : cream'[i] = cream[i]
  /\ Len(cream'[j]) = Len(cream[j])
  /\ \A h \in 1 .. Len(cream[j]) : h # k => cream'[j][h] = cream[j][h]
  /\ cream'[j][k].st = x

\* What such a change leaves as it was
LEMMA SetStateFacts ==
  ASSUME CreamOK, NEW j \in Jobs, NEW k \in 1 .. Len(cream[j]), NEW x \in CreamStates,
         SetState(j, k, x)
  PROVE  Changed(j, k, x)
<1> DEFINE c == [cream[j][k] EXCEPT !.st = x]  s == [cream[j] EXCEPT ![k] = c]
<1>1. cream[j] \in Seq(CreamJobs) /\ cream[j][k] \in CreamJobs
  BY DEF CreamOK
<1>2. c \in CreamJobs /\ c.st = x
  BY <1>1 DEF CreamJobs
<1>3. cream' = [cream EXCEPT ![j] = s]
  BY DEF SetState
<1> HIDE DEF c
<1>4. /\ s \in Seq(CreamJobs) /\ Len(s) = Len(cream[j]) /\ s[k] = c
      /\ \A h \in 1 .. Len(cream[j]) : h # k => s[h] = cream[j][h]
  BY <1>1, <1>2
<1> HIDE DEF s
<1> QED
  BY <1>2, <1>3, <1>4 DEF CreamOK, Changed

\* Every step of CREAM respects both.
LEMMA CreamSteps ==
  ASSUME CreamOK, NEW j \in Jobs, NEW k \in 1 .. Len(cream[j]), NEW x \in CreamStates,
         SetState(j, k, x),
         cream[j][k].st \notin Final \/ (cream[j][k].st # "PURGED" /\ x \in Final),
         \/ events' = events
         \/ x \in Final /\ events' = Append(events, <<j, k, x>>)
  PROVE  CreamOK' /\ Grows
<1>1. /\ cream' \in [Jobs -> Seq(CreamJobs)]
      /\ \A i \in Jobs \ {j} : cream'[i] = cream[i]
      /\ Len(cream'[j]) = Len(cream[j])
      /\ \A h \in 1 .. Len(cream[j]) : h # k => cream'[j][h] = cream[j][h]
      /\ cream'[j][k].st = x
  BY SetStateFacts DEF Changed
<1>2. \A i \in Jobs : Len(cream'[i]) = Len(cream[i]) /\ Len(cream[i]) \in Nat
  <2>1. \A i \in Jobs : cream[i] \in Seq(CreamJobs)
    BY DEF CreamOK
  <2>2. \A i \in Jobs : Len(cream'[i]) = Len(cream[i])
    BY <1>1
  <2> QED
    BY <2>1, <2>2, LenProperties
<1>3. \A i \in Jobs : \A h \in 1 .. Len(cream[i]) :
        /\ cream[i][h].st \in Final => cream'[i][h].st \in Final
        /\ cream[i][h].st = "PURGED" => cream'[i][h].st = "PURGED"
  <2> SUFFICES ASSUME NEW i \in Jobs, NEW h \in 1 .. Len(cream[i])
               PROVE  /\ cream[i][h].st \in Final => cream'[i][h].st \in Final
                      /\ cream[i][h].st = "PURGED" => cream'[i][h].st = "PURGED"
    OBVIOUS
  <2>1. CASE i = j /\ h = k
    BY <2>1, <1>1 DEF Final
  <2>2. CASE ~ (i = j /\ h = k)
    BY <2>2, <1>1
  <2> QED
    BY <2>1, <2>2
<1>4. /\ events \in Seq(Jobs \X Nat \X Final) /\ Len(events) \in Nat
      /\ k \in Nat
  BY <1>2 DEF CreamOK
<1>5. /\ events' \in Seq(Jobs \X Nat \X Final) /\ Len(events) <= Len(events')
      /\ \A i \in 1 .. Len(events) : events'[i] = events[i]
      /\ \A i \in 1 .. Len(events') :
           i \in 1 .. Len(events) \/ (events'[i] = <<j, k, x>> /\ x \in Final)
  <2>1. CASE events' = events
    BY <2>1, <1>4
  <2>2. CASE x \in Final /\ events' = Append(events, <<j, k, x>>)
    <3>1. <<j, k, x>> \in Jobs \X Nat \X Final
      BY <2>2, <1>4
    <3> QED
      BY <3>1, <2>2, <1>4
  <2> QED
    BY <2>1, <2>2
<1>6. Grows
  BY <1>2, <1>3, <1>5 DEF Grows
<1>7. ASSUME NEW i \in 1 .. Len(events')
      PROVE  /\ events'[i][2] \in 1 .. Len(cream'[events'[i][1]])
             /\ cream'[events'[i][1]][events'[i][2]].st \in Final
             /\ events'[i][3] = "PURGED" =>
                  cream'[events'[i][1]][events'[i][2]].st = "PURGED"
  <2>1. CASE i \in 1 .. Len(events)
    <3>1. events'[i] = events[i] /\ events[i] \in Jobs \X Nat \X Final
      BY <2>1, <1>4, <1>5
    <3>2. /\ events[i][1] \in Jobs /\ events[i][2] \in 1 .. Len(cream[events[i][1]])
          /\ cream[events[i][1]][events[i][2]].st \in Final
          /\ events[i][3] = "PURGED" => cream[events[i][1]][events[i][2]].st = "PURGED"
      BY <2>1, <3>1 DEF CreamOK
    <3> QED
      BY <3>1, <3>2, <1>2, <1>3
  <2>2. CASE events'[i] = <<j, k, x>> /\ x \in Final
    BY <2>2, <1>1
  <2> QED
    BY <2>1, <2>2, <1>5
<1> QED
  BY <1>1, <1>5, <1>6, <1>7 DEF CreamOK

\* Nothing happens on CREAM.
LEMMA CreamStill ==
  ASSUME CreamOK, cream' = cream, events' = events
  PROVE  CreamOK' /\ Grows
<1>1. \A j \in Jobs : Len(cream[j]) \in Nat
  BY LenProperties DEF CreamOK
<1> QED
  BY <1>1 DEF CreamOK, Grows

\* A new job on CREAM has no events.
LEMMA CreamNewJob ==
  ASSUME CreamOK, NEW j \in Jobs, NewCreamJob(j), events' = events
  PROVE  CreamOK' /\ Grows
<1>1. /\ cream' \in [Jobs -> Seq(CreamJobs)]
      /\ \A i \in Jobs \ {j} : cream'[i] = cream[i]
      /\ Len(cream'[j]) = Len(cream[j]) + 1
      /\ \A k \in 1 .. Len(cream[j]) : cream'[j][k] = cream[j][k]
  BY NewJobFacts
<1>2. \A i \in Jobs : Len(cream[i]) \in Nat
  BY LenProperties DEF CreamOK
<1>3. \A i \in Jobs : Len(cream[i]) <= Len(cream'[i])
  BY <1>1, <1>2
<1>4. \A i \in Jobs : \A k \in 1 .. Len(cream[i]) : cream'[i][k] = cream[i][k]
  BY <1>1
<1>5. Len(events) \in Nat /\ \A i \in 1 .. Len(events) : events[i][1] \in Jobs
  BY LenProperties DEF CreamOK
<1>6. Grows
  BY <1>3, <1>4, <1>5 DEF Grows
<1>7. ASSUME NEW i \in 1 .. Len(events)
      PROVE  /\ events[i][2] \in 1 .. Len(cream'[events[i][1]])
             /\ cream'[events[i][1]][events[i][2]].st \in Final
             /\ events[i][3] = "PURGED" =>
                  cream'[events[i][1]][events[i][2]].st = "PURGED"
  <2>1. /\ events[i][2] \in 1 .. Len(cream[events[i][1]])
        /\ cream[events[i][1]][events[i][2]].st \in Final
        /\ events[i][3] = "PURGED" => cream[events[i][1]][events[i][2]].st = "PURGED"
    BY DEF CreamOK
  <2>2. cream'[events[i][1]][events[i][2]] = cream[events[i][1]][events[i][2]]
    BY <2>1, <1>4, <1>5
  <2>3. events[i][2] \in 1 .. Len(cream'[events[i][1]])
    BY <2>1, <1>2, <1>3, <1>5
  <2> QED
    BY <2>1, <2>2, <2>3
<1> QED
  BY <1>1, <1>6, <1>7 DEF CreamOK

-----------------------------------------------------------------------------
(* The commands and the rows of the database                               *)

CommandSteps == {"idle", "reschedule", "release", "lookup", "create", "count", "delegate", "set",
                 "register", "record", "start", "started", "fail", "uncount", "remove", "purge"}

RowsOK ==
  /\ sub \in [Jobs -> CommandSteps]
  /\ kind \in [Jobs -> {"submit", "reschedule"}]
  /\ reg \in [Jobs -> Nat]
  /\ db \in [Jobs -> Statuses]
  /\ cid \in [Jobs -> Nat]
  /\ tk \in [Jobs -> Nat]
  /\ \A j \in Jobs : reg[j] \in 0 .. Len(cream[j]) /\ cid[j] \in 0 .. Len(cream[j])

\* What a command does on CREAM
LEMMA CommandOnCream ==
  ASSUME NEW j \in Jobs, Command(j)
  PROVE  \/ cream' = cream
         \/ Register(j) \/ RegisterTimesOut(j)
         \/ Start(j)
<1> USE DEF creamVars
<1>1. CASE \E w \in {"submit", "reschedule"} : TakeCommand(<<j, w>>)
  BY <1>1 DEF TakeCommand
<1>2. CASE \/ Reschedule(j) \/ Release(j) \/ Lookup(j) \/ CreateJob(j) \/ Count(j)
           \/ Delegate(j) \/ SetBetterProxy(j) \/ Redelegate(j)
  BY <1>2 DEF Reschedule, Release, Lookup, CreateJob, Count, Delegate, SetBetterProxy, Redelegate
<1>3. CASE \/ SubmitFails(j) \/ BlackListed(j) \/ Record(j) \/ StartFails(j)
           \/ Started(j) \/ GiveBack(j) \/ Uncount(j) \/ Remove(j) \/ PurgeRequest(j)
  BY <1>3 DEF SubmitFails, BlackListed, Record, StartFails, Started, GiveBack,
     Uncount, Remove, PurgeRequest
<1> QED
  BY <1>1, <1>2, <1>3 DEF Command

\* Only commands and the world change what is on CREAM.
LEMMA CreamFrame ==
  ASSUME Next \/ UNCHANGED vars
  PROVE  \/ UNCHANGED creamVars
         \/ \E j \in Jobs : Command(j)
         \/ World
<1>1. ASSUME NEW q \in Queries, Query(q) PROVE UNCHANGED creamVars
  BY <1>1, QueryFrame
<1>2. ASSUME NEW a \in Actors, EndJob(a) PROVE UNCHANGED creamVars
  BY <1>2, EndJobFrame
<1>3. ASSUME NEW l \in Loggers, Logging(l) PROVE UNCHANGED creamVars
  BY <1>3, LoggingFrame
<1>4. ASSUME MainLoop \/ Recovery PROVE UNCHANGED creamVars
  BY <1>4, MainLoopFrame, RecoveryFrame
<1>5. ASSUME Crash \/ UNCHANGED vars PROVE UNCHANGED creamVars
  BY <1>5 DEF Crash, vars
<1> QED
  BY <1>1, <1>2, <1>3, <1>4, <1>5 DEF Next

\* Every step keeps CREAM's account and adds to it.
LEMMA CreamNext ==
  ASSUME CreamOK, RowsOK, Next \/ UNCHANGED vars
  PROVE  CreamOK' /\ Grows
<1>1. CASE UNCHANGED creamVars
  BY <1>1, CreamStill DEF creamVars
<1>2. ASSUME NEW j \in Jobs, Command(j) PROVE CreamOK' /\ Grows
  <2>1. events' = events
    BY <1>2, CommandFrame
  <2>2. CASE cream' = cream
    BY <2>1, <2>2, CreamStill
  <2>3. CASE Register(j) \/ RegisterTimesOut(j)
    <3>1. NewCreamJob(j)
      BY <2>3 DEF Register, RegisterTimesOut
    <3> QED
      BY <2>1, <3>1, CreamNewJob
  <2>4. CASE Start(j)
    <3>1. reg[j] \in 1 .. Len(cream[j])
      BY <2>4, LenProperties DEF Start, Startable, RowsOK, CreamOK
    <3>2. SetState(j, reg[j], "IDLE") /\ cream[j][reg[j]].st = "REGISTERED"
      BY <2>4 DEF Start, Startable, SetState
    <3>3. "IDLE" \in CreamStates /\ "REGISTERED" \notin Final
      BY DEF CreamStates, Final, Terminal
    <3> QED
      BY <2>1, <3>1, <3>2, <3>3, CreamSteps
  <2> QED
    BY <1>2, <2>2, <2>3, <2>4, CommandOnCream
<1>3. ASSUME World PROVE CreamOK' /\ Grows
  <2>1. PICK j \in Jobs :
          \/ Cancel(j)
          \/ Replan(j)
          \/ \E k \in 1 .. Len(cream[j]) :
               CreamRun(j, k) \/ CreamPurge(j, k) \/ \E st \in {"DONE_OK", "FAILED"} : CreamEnd(j, k, st)
    BY <1>3 DEF World
  <2> USE DEF CreamStates, Final, Terminal
  <2>2. CASE Cancel(j)
    <3>1. cid[j] \in 1 .. Len(cream[j])
      BY <2>2, LenProperties DEF Cancel, RowsOK, CreamOK
    <3>2. /\ SetState(j, cid[j], "CANCELLED")
          /\ cream[j][cid[j]].st \notin Final
          /\ events' = Append(events, <<j, cid[j], "CANCELLED">>)
      BY <2>2 DEF Cancel, SetState
    <3>3. "CANCELLED" \in CreamStates /\ "CANCELLED" \in Final
      OBVIOUS
    <3> HIDE DEF CreamStates, Final, Terminal
    <3> QED
      BY <3>1, <3>2, <3>3, CreamSteps
  <2>3. CASE Replan(j)
    BY <2>3, CreamStill DEF Replan
  <2>4. ASSUME NEW k \in 1 .. Len(cream[j]), CreamRun(j, k) PROVE CreamOK' /\ Grows
    <3>1. \E x \in {"RUNNING", "FAILED"} :
            /\ SetState(j, k, x)
            /\ cream[j][k].st \notin Final
            /\ \/ events' = events
               \/ x \in Final /\ events' = Append(events, <<j, k, x>>)
      BY <2>4 DEF CreamRun, SetState
    <3>2. "RUNNING" \in CreamStates /\ "FAILED" \in CreamStates
      OBVIOUS
    <3> HIDE DEF CreamStates, Final, Terminal
    <3> QED
      BY <3>1, <3>2, CreamSteps
  <2>5. ASSUME NEW k \in 1 .. Len(cream[j]), CreamPurge(j, k) PROVE CreamOK' /\ Grows
    <3>1. /\ SetState(j, k, "PURGED")
          /\ cream[j][k].st # "PURGED"
          /\ events' = Append(events, <<j, k, "PURGED">>)
      BY <2>5 DEF CreamPurge, SetState
    <3>2. "PURGED" \in CreamStates /\ "PURGED" \in Final
      OBVIOUS
    <3> HIDE DEF CreamStates, Final, Terminal
    <3> QED
      BY <3>1, <3>2, CreamSteps
  <2>6. ASSUME NEW k \in 1 .. Len(cream[j]), NEW st \in {"DONE_OK", "FAILED"}, CreamEnd(j, k, st)
        PROVE  CreamOK' /\ Grows
    <3>1. /\ SetState(j, k, st)
          /\ cream[j][k].st \notin Final
          /\ events' = Append(events, <<j, k, st>>)
      BY <2>6 DEF CreamEnd, SetState
    <3>2. st \in CreamStates /\ st \in Final
      OBVIOUS
    <3> HIDE DEF CreamStates, Final, Terminal
    <3> QED
      BY <3>1, <3>2, CreamSteps
  <2> QED
    BY <2>1, <2>2, <2>3, <2>4, <2>5, <2>6
<1> QED
  BY <1>1, <1>2, <1>3, CreamFrame

\* CREAM ids stay CREAM ids.
LEMMA IdsGrow ==
  ASSUME CreamOK, CreamOK', Grows, NEW i \in Jobs
  PROVE  0 \in 0 .. Len(cream'[i]) /\ 0 .. Len(cream[i]) \subseteq 0 .. Len(cream'[i])
<1> DEFINE m == Len(cream[i])  n == Len(cream'[i])
<1>1. m \in Nat /\ n \in Nat /\ m <= n
  BY LenProperties DEF CreamOK, Grows
<1> HIDE DEF m, n
<1>2. 0 \in 0 .. n /\ 0 .. m \subseteq 0 .. n
  BY <1>1
<1> QED
  BY <1>2 DEF m, n

\* A removed row takes nothing else with it.
LEMMA RemoveKeeps ==
  ASSUME RowsOK, NEW x, RemoveJob(x)
  PROVE  /\ db' \in [Jobs -> Statuses] /\ cid' \in [Jobs -> Nat] /\ tk' \in [Jobs -> Nat]
         /\ \A j \in Jobs : cid'[j] \in {0, cid[j]} /\ tk'[j] \in {0, tk[j]}
         /\ \A j \in Jobs : j # x => db'[j] = db[j] /\ cid'[j] = cid[j] /\ tk'[j] = tk[j]
         /\ x \in Jobs => db'[x] = "none"
<1>1. "none" \in Statuses
  BY DEF Statuses
<1> QED
  BY <1>1 DEF RowsOK, RemoveJob

\* A command's steps
LEMMA CommandRows ==
  ASSUME RowsOK, CreamOK, CreamOK', Grows, NEW j \in Jobs, Command(j)
  PROVE  RowsOK'
<1>1. \A i \in Jobs : 0 \in 0 .. Len(cream'[i]) /\ 0 .. Len(cream[i]) \subseteq 0 .. Len(cream'[i])
  BY IdsGrow
<1>2. ASSUME NEW x \in CommandSteps, Goto(j, x) PROVE sub' \in [Jobs -> CommandSteps]
  BY <1>2 DEF Goto, RowsOK
<1>3. SUFFICES ASSUME sub' \in [Jobs -> CommandSteps] /\ kind' \in [Jobs -> {"submit", "reschedule"}]
               PROVE  RowsOK'
  <2> USE DEF CommandSteps
  <2>1. CASE \E w \in {"submit", "reschedule"} : TakeCommand(<<j, w>>)
    BY <2>1, <1>2, <1>3 DEF TakeCommand, RowsOK
  <2>2. CASE \/ Reschedule(j) \/ Release(j) \/ Lookup(j) \/ CreateJob(j) \/ Count(j)
             \/ Delegate(j)
             \/ SetBetterProxy(j) \/ Register(j) \/ RegisterTimesOut(j) \/ Redelegate(j)
    <3>1. kind' = kind
      BY <2>2 DEF Reschedule, Release, Lookup, CreateJob, Count, Delegate, SetBetterProxy, Register,
         RegisterTimesOut, Redelegate
    <3>2. \E x \in CommandSteps : Goto(j, x)
      BY <2>2 DEF Reschedule, Release, Lookup, CreateJob, Count, Delegate, SetBetterProxy, Register,
         RegisterTimesOut, Redelegate
    <3> QED
      BY <3>1, <3>2, <1>2, <1>3 DEF RowsOK
  <2>3. CASE \/ SubmitFails(j) \/ BlackListed(j) \/ Record(j) \/ Start(j) \/ StartFails(j)
             \/ Started(j) \/ GiveBack(j) \/ Uncount(j) \/ Remove(j) \/ PurgeRequest(j)
    <3>1. kind' = kind
      BY <2>3 DEF SubmitFails, BlackListed, Record, Start, StartFails, Started, GiveBack,
         Uncount, Remove, PurgeRequest
    <3>2. \E x \in CommandSteps : Goto(j, x)
      BY <2>3 DEF SubmitFails, BlackListed, Record, Start, StartFails, Started, GiveBack,
         Uncount, Remove, PurgeRequest
    <3> QED
      BY <3>1, <3>2, <1>2, <1>3 DEF RowsOK
  <2> QED
    BY <2>1, <2>2, <2>3 DEF Command
<1>4. SUFFICES /\ reg' \in [Jobs -> Nat] /\ db' \in [Jobs -> Statuses]
               /\ cid' \in [Jobs -> Nat] /\ tk' \in [Jobs -> Nat]
               /\ \A i \in Jobs : reg'[i] \in 0 .. Len(cream'[i]) /\ cid'[i] \in 0 .. Len(cream'[i])
  BY <1>3 DEF RowsOK
<1>5. CASE reg' = reg /\ UNCHANGED rowVars
  BY <1>1, <1>5 DEF RowsOK, rowVars
<1>6. ASSUME reg' = reg, NEW x, RemoveJob(x)
      PROVE  /\ reg' \in [Jobs -> Nat] /\ db' \in [Jobs -> Statuses]
             /\ cid' \in [Jobs -> Nat] /\ tk' \in [Jobs -> Nat]
             /\ \A i \in Jobs : reg'[i] \in 0 .. Len(cream'[i]) /\ cid'[i] \in 0 .. Len(cream'[i])
  <2>1. /\ db' \in [Jobs -> Statuses] /\ cid' \in [Jobs -> Nat] /\ tk' \in [Jobs -> Nat]
        /\ \A i \in Jobs : cid'[i] \in {0, cid[i]}
    BY <1>6, RemoveKeeps
  <2> QED
    BY <1>1, <1>6, <2>1 DEF RowsOK
<1>7. CASE Reschedule(j)
  <2>1. reg' = reg /\ (RemoveJob(j) \/ UNCHANGED rowVars)
    BY <1>7 DEF Reschedule
  <2> QED
    BY <2>1, <1>5, <1>6
<1>8. CASE Lookup(j)
  <2>1. CASE RemoveJob(j) /\ UNCHANGED reg
    BY <2>1, <1>6
  <2>2. CASE reg' = [reg EXCEPT ![j] = cid[j]] /\ UNCHANGED rowVars
    BY <2>2, <1>1 DEF RowsOK, rowVars
  <2>3. CASE UNCHANGED <<reg, rowVars>>
    BY <2>3, <1>5
  <2> QED
    BY <1>8, <2>1, <2>2, <2>3 DEF Lookup
<1>9. CASE CreateJob(j)
  <2>1. "UNKNOWN" \in Statuses
    BY DEF Statuses
  <2> QED
    BY <1>1, <1>9, <2>1 DEF CreateJob, RowsOK
<1>10. CASE Register(j)
  <2>1. Len(cream'[j]) = Len(cream[j]) + 1
    BY <1>10, NewJobFacts DEF Register
  <2> QED
    BY <1>1, <1>10, <2>1 DEF Register, RowsOK, rowVars
<1>11. CASE Record(j)
  <2>1. "REGISTERED" \in Statuses
    BY DEF Statuses
  <2> QED
    BY <1>1, <1>11, <2>1 DEF Record, RowsOK, Update
<1>12. CASE Started(j)
  <2>1. "IDLE" \in Statuses
    BY DEF Statuses
  <2> QED
    BY <1>1, <1>12, <2>1 DEF Started, RowsOK, Update
<1>13. CASE Remove(j)
  BY <1>6, <1>13 DEF Remove
<1>14. CASE PurgeRequest(j)
  BY <1>1, <1>14 DEF PurgeRequest, RowsOK, rowVars
<1>15. CASE \/ \E w \in {"submit", "reschedule"} : TakeCommand(<<j, w>>)
            \/ Release(j) \/ Count(j) \/ Delegate(j)
            \/ SetBetterProxy(j) \/ RegisterTimesOut(j) \/ Redelegate(j)
            \/ SubmitFails(j) \/ BlackListed(j) \/ Start(j) \/ StartFails(j) \/ GiveBack(j)
            \/ Uncount(j)
  <2>1. reg' = reg /\ UNCHANGED rowVars
    BY <1>15 DEF TakeCommand, Release, Count, Delegate, SetBetterProxy,
       RegisterTimesOut, Redelegate,
       SubmitFails, BlackListed, Start, StartFails, GiveBack, Uncount
  <2> QED
    BY <2>1, <1>5
<1> QED
  BY <1>7, <1>8, <1>9, <1>10, <1>11, <1>12, <1>13, <1>14, <1>15 DEF Command

-----------------------------------------------------------------------------
(* The queries                                                             *)

ActorSteps == {"idle", "query", "next", "update", "count", "remove", "resubmit", "purge"}

Ending == {"update", "count", "remove", "resubmit", "purge"}

Tasks == Jobs \X Nat \X (Statuses \cup Final)

\* A query works on a job only because of an event it has been given.
QueriesOK ==
  /\ lastid \in Nat \ {0}
  /\ lastid <= Len(events) + 1
  /\ floor \in Nat /\ floor <= Len(events)
  /\ apc \in [Actors -> ActorSteps]
  /\ todo \in [Actors -> SUBSET (Jobs \X Nat)]
  /\ upto \in [Actors -> Nat]
  /\ cur \in [Actors -> Tasks \cup {Nobody}]
  /\ resched \in Actors \cup Jobs \cup {Nobody}
  /\ \A a \in Actors : upto[a] <= Len(events)
  /\ apc["init"] \notin {"query", "update"}
  /\ \A a \in Actors : apc[a] \in Ending => cur[a] \in Tasks
  /\ \A q \in Queries : apc[q] = "update" => cur[q][3] \in Terminal
  /\ \A q \in Queries : \A p \in todo[q] :
       \E i \in 1 .. upto[q] : events[i][1] = p[1] /\ events[i][2] = p[2]

\* Every step keeps the rows in order.
LEMMA RowsNext ==
  ASSUME RowsOK, CreamOK, CreamOK', Grows, QueriesOK, Next \/ UNCHANGED vars
  PROVE  RowsOK'
<1>1. \A i \in Jobs : 0 \in 0 .. Len(cream'[i]) /\ 0 .. Len(cream[i]) \subseteq 0 .. Len(cream'[i])
  BY IdsGrow
<1>2. CASE UNCHANGED <<subVars, rowVars>>
  BY <1>1, <1>2 DEF RowsOK, subVars, rowVars
<1>3. CASE \E j \in Jobs : Command(j)
  BY <1>3, CommandRows
<1>4. ASSUME NEW x, RemoveJob(x), UNCHANGED subVars PROVE RowsOK'
  <2>1. /\ db' \in [Jobs -> Statuses] /\ cid' \in [Jobs -> Nat] /\ tk' \in [Jobs -> Nat]
        /\ \A i \in Jobs : cid'[i] \in {0, cid[i]}
    BY <1>4, RemoveKeeps
  <2> QED
    BY <1>1, <1>4, <2>1 DEF RowsOK, subVars
<1>5. ASSUME NEW a \in Actors, EndJob(a) PROVE RowsOK'
  <2>1. UNCHANGED subVars
    BY <1>5, EndJobFrame
  <2>2. CASE UpdateStatus(a)
    <3>1. cur[a][3] \in Statuses
      BY <2>2 DEF UpdateStatus, QueriesOK, Actors, Statuses
    <3> QED
      BY <1>1, <2>1, <2>2, <3>1 DEF UpdateStatus, Update, RowsOK, subVars
  <2>3. CASE RemoveEnded(a)
    BY <2>1, <2>3, <1>4 DEF RemoveEnded
  <2>4. CASE UncountJob(a) \/ Resubmit(a) \/ PurgeJob(a)
    BY <2>4, <1>2 DEF UncountJob, Resubmit, PurgeJob
  <2> QED
    BY <1>5, <2>2, <2>3, <2>4 DEF EndJob
<1>6. ASSUME NEW l \in Loggers, Logging(l) PROVE RowsOK'
  <2>1. UNCHANGED subVars
    BY <1>6, LoggingFrame
  <2>2. CASE RemoveAborted(l)
    BY <2>1, <2>2, <1>4 DEF RemoveAborted
  <2>3. CASE \/ TakeJobs(l) \/ UncountAborted(l) \/ JobsLogged(l)
             \/ \E j \in Jobs : \E k \in 0 .. Len(cream[j]) : LogAbort(l, j, k)
    BY <2>3, <1>2 DEF TakeJobs, UncountAborted, JobsLogged, LogAbort
  <2> QED
    BY <1>6, <2>2, <2>3 DEF Logging
<1>7. CASE Crash
  <2>1. "idle" \in CommandSteps
    BY DEF CommandSteps
  <2> QED
    BY <1>1, <1>7, <2>1 DEF Crash, RowsOK, rowVars
<1>8. CASE MainLoop \/ World \/ Recovery \/ UNCHANGED vars
  BY <1>2, <1>8, MainLoopFrame, WorldFrame, RecoveryFrame DEF vars
<1>9. ASSUME NEW q \in Queries, Query(q) PROVE RowsOK'
  BY <1>2, <1>9, QueryFrame
<1> QED
  BY <1>3, <1>5, <1>6, <1>7, <1>8, <1>9 DEF Next

\* The status a query finds is that of one of the job's events.
LEMMA LastEventFacts ==
  ASSUME CreamOK, NEW j, NEW k, NEW n \in Nat, n <= Len(events),
         NEW i \in 1 .. n, events[i][1] = j, events[i][2] = k
  PROVE  \E h \in 1 .. n : /\ events[h][1] = j /\ events[h][2] = k
                           /\ events[h][3] = LastEvent(j, k, n)
                           /\ LastEvent(j, k, n) \in Final
<1> DEFINE S == {h \in 1 .. n : events[h][1] = j /\ events[h][2] = k}
           m == CHOOSE h \in S : \A g \in S : g <= h
<1>1. S \in SUBSET (1 .. n) /\ S # {}
  OBVIOUS
<1>2. \E h \in S : \A g \in S : g <= h
  <2> HIDE DEF S
  <2> QED
    BY <1>1, HasGreatest
<1>3. m \in S
  <2> HIDE DEF S
  <2> QED
    BY <1>2
<1>4. LastEvent(j, k, n) = events[m][3]
  BY DEF LastEvent
<1> HIDE DEF m
<1>5. m \in 1 .. n /\ m \in 1 .. Len(events)
  BY <1>3, LenProperties DEF CreamOK
<1>6. events[m] \in Jobs \X Nat \X Final
  BY <1>5, ElementOfSeq DEF CreamOK
<1> QED
  BY <1>3, <1>4, <1>5, <1>6

\* Events that have been read stay.
LEMMA EventsGrow ==
  ASSUME CreamOK, CreamOK', Grows, QueriesOK
  PROVE  /\ Len(events) \in Nat /\ Len(events') \in Nat
         /\ lastid <= Len(events') + 1 /\ floor <= Len(events')
         /\ \A a \in Actors : upto[a] <= Len(events')
         /\ \A a \in Actors : \A i \in 1 .. upto[a] : i \in 1 .. Len(events) /\ events'[i] = events[i]
<1> DEFINE m == Len(events)  n == Len(events')
<1>1. m \in Nat /\ n \in Nat /\ m <= n
  BY LenProperties DEF CreamOK, Grows
<1>2. \A i \in 1 .. m : events'[i] = events[i]
  BY DEF Grows
<1>3. /\ lastid \in Nat /\ lastid <= m + 1 /\ floor \in Nat /\ floor <= m
      /\ \A a \in Actors : upto[a] \in Nat /\ upto[a] <= m
  BY DEF QueriesOK
<1> HIDE DEF m, n
<1>4. /\ lastid <= n + 1 /\ floor <= n
      /\ \A a \in Actors : upto[a] <= n /\ \A i \in 1 .. upto[a] : i \in 1 .. m
  BY <1>1, <1>3
<1>5. \A a \in Actors : \A i \in 1 .. upto[a] : events'[i] = events[i]
  BY <1>2, <1>4
<1> QED
  BY <1>1, <1>4, <1>5 DEF m, n

\* A query takes up the next job.
LEMMA NextJobQueries ==
  ASSUME QueriesOK, CreamOK, CreamOK', Grows, NEW q \in Queries, NEW j \in Jobs,
         NEW k \in 1 .. Len(cream[j]), NextJob(q, j, k)
  PROVE  QueriesOK'
<1>1. UNCHANGED <<lastid, floor, upto, cream, events>>
  BY DEF NextJob, creamVars
<1>2. q \in Actors /\ q # "init"
  BY NamesAssumption DEF Actors
<1>3. k \in Nat
  BY LenProperties DEF CreamOK
<1>4. todo' = [todo EXCEPT ![q] = @ \ {<<j, k>>}] /\ <<j, k>> \in todo[q]
  BY DEF NextJob
<1>5. /\ todo' \in [Actors -> SUBSET (Jobs \X Nat)]
      /\ \A r \in Queries : todo'[r] \subseteq todo[r]
  BY <1>2, <1>4 DEF QueriesOK, Actors
<1>6. CASE UNCHANGED <<apc, cur, resched>>
  BY <1>1, <1>5, <1>6 DEF QueriesOK
<1> DEFINE st == LastEvent(j, k, upto[q])
<1>7. st \in Final
  <2>1. PICK i \in 1 .. upto[q] : events[i][1] = j /\ events[i][2] = k
    BY <1>4 DEF QueriesOK
  <2>2. upto[q] \in Nat /\ upto[q] <= Len(events)
    BY <1>2 DEF QueriesOK
  <2> QED
    BY <2>1, <2>2, LastEventFacts
<1>8. CASE /\ cur' = [cur EXCEPT ![q] = <<j, k, st>>]
           /\ apc' = [apc EXCEPT ![q] = IF st = "PURGED" THEN "count" ELSE "update"]
           /\ resched' = q
  <2> HIDE DEF st
  <2>1. <<j, k, st>> \in Tasks
    BY <1>3, <1>7 DEF Tasks
  <2>2. st # "PURGED" => st \in Terminal
    BY <1>7 DEF Final
  <2>3. /\ apc' \in [Actors -> ActorSteps] /\ cur' \in [Actors -> Tasks \cup {Nobody}]
        /\ resched' \in Actors \cup Jobs \cup {Nobody}
        /\ apc'["init"] \notin {"query", "update"}
        /\ \A a \in Actors : apc'[a] \in Ending => cur'[a] \in Tasks
    BY <1>2, <1>8, <2>1 DEF QueriesOK, ActorSteps, Actors
  <2>4. \A r \in Queries : apc'[r] = "update" => cur'[r][3] \in Terminal
    BY <1>2, <1>8, <2>2 DEF QueriesOK, Actors
  <2> QED
    BY <1>1, <1>5, <2>3, <2>4 DEF QueriesOK
<1> QED
  BY <1>6, <1>8 DEF NextJob

\* The events a query gets become the jobs to look at.
LEMMA QueryEventsQueries ==
  ASSUME QueriesOK, CreamOK, CreamOK', Grows, NEW q \in Queries, QueryEvents(q)
  PROVE  QueriesOK'
<1>1. UNCHANGED <<lastid, floor, cur, resched, cream, events>>
  BY DEF QueryEvents, creamVars
<1>2. q \in Actors /\ q # "init"
  BY NamesAssumption DEF Actors
<1>3. CASE apc' = [apc EXCEPT ![q] = "idle"] /\ UNCHANGED <<todo, upto>>
  BY <1>1, <1>2, <1>3 DEF QueriesOK, ActorSteps, Ending
<1>4. ASSUME NEW n \in EventsFrom(FirstEvent),
             apc' = [apc EXCEPT ![q] = "next"],
             todo' = [todo EXCEPT ![q] = {<<events[i][1], events[i][2]>> : i \in FirstEvent .. n}],
             upto' = [upto EXCEPT ![q] = n]
      PROVE  QueriesOK'
  <2> DEFINE T == {<<events[i][1], events[i][2]>> : i \in FirstEvent .. n}
  <2>0. FirstEvent \in Nat \ {0}
    BY DEF FirstEvent, QueriesOK
  <2>1. n \in Nat /\ n \in 1 .. Len(events) /\ n <= Len(events)
    BY LenProperties DEF EventsFrom, CreamOK
  <2>2. \A i \in FirstEvent .. n : i \in 1 .. n /\ i \in 1 .. Len(events)
    BY <2>0, <2>1, LenProperties DEF CreamOK
  <2>3. \A i \in FirstEvent .. n : events[i] \in Jobs \X Nat \X Final
    BY <2>2, ElementOfSeq DEF CreamOK
  <2>4. T \in SUBSET (Jobs \X Nat)
    BY <2>3
  <2>5. \A p \in T : \E i \in 1 .. n : events[i][1] = p[1] /\ events[i][2] = p[2]
    BY <2>2
  <2> HIDE DEF T
  <2>6. /\ todo' \in [Actors -> SUBSET (Jobs \X Nat)]
        /\ upto' \in [Actors -> Nat]
        /\ \A a \in Actors : upto'[a] <= Len(events)
    BY <1>2, <1>4, <2>1, <2>4 DEF QueriesOK, T
  <2>7. \A r \in Queries : \A p \in todo'[r] :
          \E i \in 1 .. upto'[r] : events[i][1] = p[1] /\ events[i][2] = p[2]
    <3> SUFFICES ASSUME NEW r \in Queries, NEW p \in todo'[r]
                 PROVE  \E i \in 1 .. upto'[r] : events[i][1] = p[1] /\ events[i][2] = p[2]
      OBVIOUS
    <3>1. CASE r = q
      <4>1. todo'[r] = T /\ upto'[r] = n
        BY <1>2, <1>4, <3>1 DEF QueriesOK, T
      <4> QED
        BY <4>1, <2>5
    <3>2. CASE r # q
      <4>1. todo'[r] = todo[r] /\ upto'[r] = upto[r]
        BY <1>2, <1>4, <3>2 DEF QueriesOK, Actors
      <4> QED
        BY <4>1 DEF QueriesOK
    <3> QED
      BY <3>1, <3>2
  <2>8. /\ apc' \in [Actors -> ActorSteps]
        /\ apc'["init"] \notin {"query", "update"}
        /\ \A a \in Actors : apc'[a] \in Ending => cur[a] \in Tasks
        /\ \A r \in Queries : apc'[r] = "update" => cur[r][3] \in Terminal
    BY <1>2, <1>4 DEF QueriesOK, ActorSteps, Ending, Actors
  <2> QED
    BY <1>1, <2>6, <2>7, <2>8 DEF QueriesOK
<1> QED
  BY <1>3, <1>4 DEF QueryEvents

\* resubmit_or_purge_job() goes on.
LEMMA EndJobQueries ==
  ASSUME QueriesOK, CreamOK, CreamOK', Grows, NEW a \in Actors, EndJob(a)
  PROVE  QueriesOK'
<1>1. UNCHANGED <<lastid, floor, todo, upto, cream, events>>
  BY EndJobFrame DEF creamVars
<1>2. \/ /\ apc' = [apc EXCEPT ![a] = "next"] /\ cur' = [cur EXCEPT ![a] = Nobody]
         /\ resched' = Nobody
      \/ /\ \E x \in {"count", "remove", "resubmit", "purge"} : apc' = [apc EXCEPT ![a] = x]
         /\ apc[a] \in Ending
         /\ UNCHANGED <<cur, resched>>
  BY DEF EndJob, UpdateStatus, UncountJob, RemoveEnded, Resubmit, PurgeJob, Done, Ending
<1>3. /\ apc' \in [Actors -> ActorSteps] /\ cur' \in [Actors -> Tasks \cup {Nobody}]
      /\ resched' \in Actors \cup Jobs \cup {Nobody}
      /\ apc'["init"] \notin {"query", "update"}
      /\ \A b \in Actors : apc'[b] \in Ending => cur'[b] \in Tasks
  BY <1>2 DEF QueriesOK, ActorSteps, Ending, Actors
<1>4. \A r \in Queries : apc'[r] = "update" => cur'[r][3] \in Terminal
  BY <1>2 DEF QueriesOK, Actors
<1> QED
  BY <1>1, <1>3, <1>4 DEF QueriesOK

\* Every step keeps the queries in order.
LEMMA QueriesNext ==
  ASSUME QueriesOK, RowsOK, CreamOK, CreamOK', Grows, Next \/ UNCHANGED vars
  PROVE  QueriesOK'
<1> USE DEF queryVars
<1>1. ASSUME UNCHANGED <<lastid, floor, apc, todo, upto, cur>>,
             resched' \in Actors \cup Jobs \cup {Nobody}
      PROVE  QueriesOK'
  <2>1. /\ lastid <= Len(events') + 1 /\ floor <= Len(events')
        /\ \A a \in Actors : upto[a] <= Len(events')
        /\ \A a \in Actors : \A i \in 1 .. upto[a] : events'[i] = events[i]
    BY EventsGrow
  <2>2. \A q \in Queries : \A p \in todo[q] :
          \E i \in 1 .. upto[q] : events'[i][1] = p[1] /\ events'[i][2] = p[2]
    BY <2>1 DEF QueriesOK, Actors
  <2> QED
    BY <1>1, <2>1, <2>2 DEF QueriesOK
<1>2. ASSUME NEW j \in Jobs, Command(j) PROVE QueriesOK'
  <2>1. UNCHANGED <<lastid, floor, apc, todo, upto, cur>>
    BY <1>2, CommandFrame
  <2>2. resched' \in {resched, j, Nobody}
    <3>1. CASE \E w \in {"submit", "reschedule"} : TakeCommand(<<j, w>>)
      BY <3>1 DEF TakeCommand
    <3>2. CASE \/ Reschedule(j) \/ Release(j) \/ Lookup(j) \/ CreateJob(j) \/ Count(j)
               \/ Delegate(j)
               \/ SetBetterProxy(j) \/ Register(j) \/ RegisterTimesOut(j) \/ Redelegate(j)
      BY <3>2 DEF Reschedule, Release, Lookup, CreateJob, Count, Delegate, SetBetterProxy, Register,
         RegisterTimesOut, Redelegate
    <3>3. CASE \/ SubmitFails(j) \/ BlackListed(j) \/ Record(j) \/ Start(j) \/ StartFails(j)
               \/ Started(j) \/ GiveBack(j) \/ Uncount(j) \/ Remove(j) \/ PurgeRequest(j)
      BY <3>3 DEF SubmitFails, BlackListed, Record, Start, StartFails, Started, GiveBack,
         Uncount, Remove, PurgeRequest
    <3> QED
      BY <1>2, <3>1, <3>2, <3>3 DEF Command
  <2> QED
    BY <1>1, <2>1, <2>2 DEF QueriesOK
<1>3. CASE UNCHANGED queryVars
  BY <1>1, <1>3 DEF QueriesOK
<1>4. ASSUME NEW a \in Actors, EndJob(a) PROVE QueriesOK'
  BY <1>4, EndJobQueries
<1>5. ASSUME NEW q \in Queries, Query(q) PROVE QueriesOK'
  <2>1. q \in Actors /\ q # "init"
    BY NamesAssumption DEF Actors
  <2>2. CASE Poll(q) \/ QueryFails(q) \/ QueryWithoutProxy(q)
    <3>1. /\ UNCHANGED <<lastid, floor, todo, upto, cur, resched, events>>
          /\ \E x \in {"idle", "query"} : apc' = [apc EXCEPT ![q] = x]
      BY <2>2 DEF Poll, QueryFails, QueryWithoutProxy, creamVars
    <3> QED
      BY <2>1, <3>1 DEF QueriesOK, ActorSteps, Ending, Actors
  <2>3. CASE SetEventId(q)
    <3>1. /\ UNCHANGED <<floor, todo, upto, cur, resched, events>>
          /\ apc' = [apc EXCEPT ![q] = "idle"]
          /\ lastid' = upto[q] + 1
      BY <2>3 DEF SetEventId, creamVars
    <3>2. lastid' \in Nat \ {0} /\ lastid' <= Len(events) + 1
      BY <2>1, <3>1, LenProperties DEF QueriesOK, CreamOK
    <3> QED
      BY <2>1, <3>1, <3>2 DEF QueriesOK, ActorSteps, Ending, Actors
  <2> QED
    BY <1>5, <2>2, <2>3, QueryEventsQueries, NextJobQueries DEF Query
<1>6. ASSUME NEW l \in Loggers, Logging(l) PROVE QueriesOK'
  BY <1>3, <1>6, LoggingFrame
<1>7. CASE MainLoop \/ World \/ UNCHANGED vars
  BY <1>3, <1>7, MainLoopFrame, WorldFrame DEF vars
<1>8. CASE Crash
  <2>1. /\ lastid' = lastid /\ floor' = floor /\ events' = events
        /\ apc' = [a \in Actors |-> "idle"] /\ todo' = [a \in Actors |-> {}]
        /\ upto' = [a \in Actors |-> 0] /\ cur' = [a \in Actors |-> Nobody]
        /\ resched' = Nobody
    BY <1>8 DEF Crash, creamVars
  <2>2. \A a \in Actors : upto'[a] <= Len(events)
    BY <2>1, LenProperties DEF CreamOK
  <2> QED
    BY <2>1, <2>2 DEF QueriesOK, ActorSteps, Ending, Actors
<1>9. CASE Recovery
  <2>0. "init" \in Actors /\ "init" \notin Queries
    BY NamesAssumption DEF Actors
  <2>1. CASE Restart
    <3>1. /\ UNCHANGED <<lastid, upto, cur, resched, events>>
          /\ apc' = [apc EXCEPT !["init"] = "next"]
          /\ todo' = [todo EXCEPT !["init"] =
                        {<<j, cid[j]>> : j \in {i \in Jobs : db[i] \in Terminal}}]
      BY <2>1 DEF Restart, creamVars
    <3>0. floor' \in Nat /\ floor' <= Len(events)
      <4>1. floor' \in floor .. Len(events)
        BY <2>1, LenProperties DEF Restart, QueriesOK, CreamOK
      <4> QED
        BY <4>1, LenProperties DEF QueriesOK, CreamOK
    <3>2. {<<j, cid[j]>> : j \in {i \in Jobs : db[i] \in Terminal}} \in SUBSET (Jobs \X Nat)
      BY DEF RowsOK
    <3>3. /\ todo' \in [Actors -> SUBSET (Jobs \X Nat)]
          /\ \A q \in Queries : todo'[q] = todo[q]
      BY <2>0, <3>1, <3>2 DEF QueriesOK, Actors
    <3> QED
      BY <2>0, <3>0, <3>1, <3>3 DEF QueriesOK, ActorSteps, Ending, Actors
  <2>2. CASE InitDone
    <3>1. /\ UNCHANGED <<lastid, floor, todo, upto, cur, resched, events>>
          /\ apc' = [apc EXCEPT !["init"] = "idle"]
      BY <2>2 DEF InitDone, creamVars
    <3> QED
      BY <2>0, <3>1 DEF QueriesOK, ActorSteps, Ending, Actors
  <2>3. ASSUME NEW j \in Jobs, NEW k \in 0 .. Len(cream[j]), InitJob(j, k) PROVE QueriesOK'
    <3>1. /\ UNCHANGED <<lastid, floor, upto, resched, events>>
          /\ todo' = [todo EXCEPT !["init"] = @ \ {<<j, k>>}]
          /\ cur' = [cur EXCEPT !["init"] = <<j, k, db[j]>>]
          /\ apc' = [apc EXCEPT !["init"] = "count"]
      BY <2>3 DEF InitJob, creamVars
    <3>2. <<j, k, db[j]>> \in Tasks
      BY LenProperties DEF Tasks, RowsOK, CreamOK
    <3>3. /\ todo' \in [Actors -> SUBSET (Jobs \X Nat)]
          /\ \A q \in Queries : todo'[q] = todo[q]
      BY <2>0, <3>1 DEF QueriesOK, Actors
    <3>4. /\ apc' \in [Actors -> ActorSteps] /\ cur' \in [Actors -> Tasks \cup {Nobody}]
          /\ apc'["init"] \notin {"query", "update"}
          /\ \A a \in Actors : apc'[a] \in Ending => cur'[a] \in Tasks
      BY <2>0, <3>1, <3>2 DEF QueriesOK, ActorSteps
    <3>5. \A q \in Queries : apc'[q] = apc[q] /\ cur'[q] = cur[q]
      BY <2>0, <3>1 DEF QueriesOK, Actors
    <3>6. /\ \A q \in Queries : apc'[q] = "update" => cur'[q][3] \in Terminal
          /\ \A q \in Queries : \A p \in todo'[q] :
               \E i \in 1 .. upto[q] : events[i][1] = p[1] /\ events[i][2] = p[2]
      <4>1. /\ \A q \in Queries : apc[q] = "update" => cur[q][3] \in Terminal
            /\ \A q \in Queries : \A p \in todo[q] :
                 \E i \in 1 .. upto[q] : events[i][1] = p[1] /\ events[i][2] = p[2]
        BY DEF QueriesOK
      <4> QED
        BY <3>3, <3>5, <4>1
    <3>7. UNCHANGED <<lastid, floor, upto, resched, events>>
      BY <3>1
    <3> QED
      BY <3>7, <3>3, <3>4, <3>6 DEF QueriesOK
  <2> QED
    BY <1>9, <2>1, <2>2, <2>3 DEF Recovery
<1> QED
  BY <1>2, <1>4, <1>5, <1>6, <1>7, <1>8, <1>9 DEF Next

-----------------------------------------------------------------------------
(* Requests, tokens and outcomes                                           *)

\* How often the file of a request may still be read
Readable(r) == IF file[r] = "new" THEN 1 ELSE 0

\* A request is queued at most once for every time its file was new, and a
\* reschedule request exists only for a job whose token has moved.
RequestsOK ==
  /\ up \in {"down", "init", "up"}
  /\ file \in [Requests -> {"new", "old", "none"}]
  /\ pool \in [Requests -> Nat]
  /\ recycles \in Nat
  /\ recycles <= MaxRecycles
  /\ \A r \in Requests : pool[r] + Readable(r) <= recycles + 1
  /\ up # "up" => \A r \in Requests : pool[r] = 0
  /\ token \in [Jobs -> [n : {0, 1}, there : BOOLEAN]]
  /\ \A j \in Jobs : token[j].n = 0 =>
       file[<<j, "reschedule">>] = "none" /\ pool[<<j, "reschedule">>] = 0

\* The main loop
LEMMA MainLoopRequests ==
  ASSUME RequestsOK, MainLoop
  PROVE  RequestsOK'
<1>1. token' = token /\ up' = up
  BY MainLoopFrame DEF creamVars
<1>2. ASSUME NEW r \in Requests, ReadRequest(r) PROVE RequestsOK'
  <2>1. /\ file[r] = "new" /\ up = "up"
        /\ file' = [file EXCEPT ![r] = "old"] /\ pool' = [pool EXCEPT ![r] = @ + 1]
        /\ recycles' = recycles
    BY <1>2 DEF ReadRequest
  <2>2. ASSUME NEW s \in Requests PROVE pool'[s] + Readable(s)' <= recycles + 1
    BY <2>1 DEF RequestsOK, Readable
  <2>3. \A j \in Jobs : token[j].n = 0 => <<j, "reschedule">> # r
    BY <2>1 DEF RequestsOK
  <2>4. \A j \in Jobs : <<j, "reschedule">> \in Requests
    BY DEF Requests
  <2> QED
    BY <1>1, <2>1, <2>2, <2>3, <2>4 DEF RequestsOK
<1>3. ASSUME NEW r \in Requests, PostponeRequest(r) \/ RejectRequest(r) PROVE RequestsOK'
  <2>1. /\ file[r] = "new" /\ up = "up"
        /\ file' \in {[file EXCEPT ![r] = "old"], [file EXCEPT ![r] = "none"]}
        /\ pool' = pool /\ recycles' = recycles
    BY <1>3 DEF PostponeRequest, RejectRequest
  <2>2. ASSUME NEW s \in Requests PROVE pool'[s] + Readable(s)' <= recycles + 1
    BY <2>1 DEF RequestsOK, Readable
  <2>3. \A j \in Jobs : token[j].n = 0 => <<j, "reschedule">> # r
    BY <2>1 DEF RequestsOK
  <2>4. \A j \in Jobs : <<j, "reschedule">> \in Requests
    BY DEF Requests
  <2> QED
    BY <1>1, <2>1, <2>2, <2>3, <2>4 DEF RequestsOK
<1>4. ASSUME Recycle PROVE RequestsOK'
  <2>1. /\ file' = [r \in Requests |-> IF file[r] = "old" THEN "new" ELSE file[r]]
        /\ recycles < MaxRecycles /\ recycles' = recycles + 1 /\ pool' = pool
    BY <1>4 DEF Recycle
  <2>2. ASSUME NEW s \in Requests PROVE pool'[s] + Readable(s)' <= recycles' + 1
    BY <2>1 DEF RequestsOK, Readable
  <2>3. \A j \in Jobs : <<j, "reschedule">> \in Requests
    BY DEF Requests
  <2>4. recycles' \in Nat /\ recycles' <= MaxRecycles
    BY <2>1, CountsAssumption DEF RequestsOK
  <2> QED
    BY <1>1, <2>1, <2>2, <2>3, <2>4 DEF RequestsOK
<1> QED
  BY <1>2, <1>3, <1>4 DEF MainLoop

\* Every step keeps the requests in order.
LEMMA RequestsNext ==
  ASSUME RequestsOK, RowsOK, Next \/ UNCHANGED vars
  PROVE  RequestsOK'
<1>0. \A j \in Jobs : <<j, "submit">> \in Requests /\ <<j, "reschedule">> \in Requests
  BY DEF Requests
<1>1. ASSUME UNCHANGED <<file, pool, recycles, token>>,
             up' \in {"down", "init", "up"}, up' = up \/ up' = "up"
      PROVE  RequestsOK'
  BY <1>1 DEF RequestsOK, Readable
<1>2. CASE UNCHANGED <<up, dirVars, creamVars>>
  BY <1>1, <1>2 DEF dirVars, creamVars, RequestsOK
<1>3. ASSUME NEW j \in Jobs, Command(j) PROVE RequestsOK'
  <2>1. UNCHANGED <<up, recycles, token>>
    BY <1>3, CommandFrame
  <2>2. ASSUME NEW w \in {"submit", "reschedule"}, TakeCommand(<<j, w>>) PROVE RequestsOK'
    <3>1. /\ file' = file /\ up = "up"
          /\ pool[<<j, w>>] > 0 /\ pool' = [pool EXCEPT ![<<j, w>>] = @ - 1]
      BY <2>2 DEF TakeCommand
    <3>2. pool' \in [Requests -> Nat] /\ \A r \in Requests : pool'[r] <= pool[r]
      <4>1. <<j, w>> \in Requests
        BY DEF Requests
      <4>2. pool[<<j, w>>] - 1 \in Nat /\ pool[<<j, w>>] - 1 <= pool[<<j, w>>]
        BY <3>1, <4>1 DEF RequestsOK
      <4>3. pool \in [Requests -> Nat]
        BY DEF RequestsOK
      <4> QED
        BY <3>1, <4>1, <4>2, <4>3
    <3>3. ASSUME NEW r \in Requests PROVE pool'[r] + Readable(r)' <= recycles + 1
      <4>1. pool[r] + Readable(r) <= recycles + 1 /\ pool[r] \in Nat /\ recycles \in Nat
        BY DEF RequestsOK
      <4>2. Readable(r)' = Readable(r) /\ Readable(r) \in Nat
        BY <3>1 DEF Readable
      <4> QED
        BY <4>1, <4>2, <3>2
    <3>4. \A i \in Jobs : token[i].n = 0 => pool'[<<i, "reschedule">>] = 0
      <4>1. ASSUME NEW i \in Jobs, token[i].n = 0 PROVE pool'[<<i, "reschedule">>] = 0
        <5>1. pool[<<i, "reschedule">>] = 0
          BY <4>1 DEF RequestsOK
        <5>2. /\ pool'[<<i, "reschedule">>] \in Nat
              /\ pool'[<<i, "reschedule">>] <= pool[<<i, "reschedule">>]
          BY <1>0, <3>2
        <5> QED
          BY <5>1, <5>2
      <4> QED
        BY <4>1
    <3> QED
      BY <2>1, <3>1, <3>2, <3>3, <3>4 DEF RequestsOK
  <2>3. CASE PurgeRequest(j)
    <3>1. /\ pool' = pool
          /\ file' = [file EXCEPT ![<<j, kind[j]>>] = IF @ = "old" THEN "none" ELSE @]
      BY <2>3 DEF PurgeRequest
    <3>2. /\ file' \in [Requests -> {"new", "old", "none"}]
          /\ \A r \in Requests : file'[r] = file[r] \/ file'[r] = "none"
      BY <3>1 DEF RequestsOK
    <3>3. ASSUME NEW r \in Requests PROVE pool'[r] + Readable(r)' <= recycles + 1
      BY <3>1, <3>2 DEF RequestsOK, Readable
    <3>4. \A i \in Jobs : token[i].n = 0 => file'[<<i, "reschedule">>] = "none"
      BY <1>0, <3>2 DEF RequestsOK
    <3> QED
      BY <2>1, <3>1, <3>2, <3>3, <3>4 DEF RequestsOK
  <2>4. CASE \/ Reschedule(j) \/ Release(j) \/ Lookup(j) \/ CreateJob(j) \/ Count(j)
             \/ Delegate(j)
             \/ SetBetterProxy(j) \/ Register(j) \/ RegisterTimesOut(j) \/ Redelegate(j)
    <3>1. UNCHANGED <<file, pool>>
      BY <2>4 DEF Reschedule, Release, Lookup, CreateJob, Count, Delegate, SetBetterProxy, Register,
         RegisterTimesOut, Redelegate, dirVars
    <3> QED
      BY <1>1, <2>1, <3>1 DEF RequestsOK
  <2>5. CASE \/ SubmitFails(j) \/ BlackListed(j) \/ Record(j) \/ Start(j) \/ StartFails(j)
             \/ Started(j) \/ GiveBack(j) \/ Uncount(j) \/ Remove(j)
    <3>1. UNCHANGED <<file, pool>>
      BY <2>5 DEF SubmitFails, BlackListed, Record, Start, StartFails, Started, GiveBack,
         Uncount, Remove, dirVars
    <3> QED
      BY <1>1, <2>1, <3>1 DEF RequestsOK
  <2> QED
    BY <1>3, <2>2, <2>3, <2>4, <2>5 DEF Command
<1>4. ASSUME World PROVE RequestsOK'
  <2>1. UNCHANGED <<up, pool, recycles>>
    BY <1>4, WorldFrame
  <2>2. ASSUME file' = file, token' \in [Jobs -> [n : {0, 1}, there : BOOLEAN]],
               \A j \in Jobs : token'[j].n = token[j].n
        PROVE  RequestsOK'
    BY <2>1, <2>2 DEF RequestsOK, Readable
  <2>3. ASSUME NEW j \in Jobs, Replan(j) PROVE RequestsOK'
    <3>1. /\ token[j].n = 0
          /\ token' = [token EXCEPT ![j].n = 1]
          /\ file' = [file EXCEPT ![<<j, "reschedule">>] = "new"]
      BY <2>3 DEF Replan
    <3>2. pool[<<j, "reschedule">>] = 0 /\ file[<<j, "reschedule">>] = "none"
      BY <3>1 DEF RequestsOK
    <3>3. /\ file' \in [Requests -> {"new", "old", "none"}]
          /\ \A r \in Requests : r # <<j, "reschedule">> => file'[r] = file[r]
          /\ file'[<<j, "reschedule">>] = "new"
      BY <1>0, <3>1 DEF RequestsOK
    <3>4. ASSUME NEW r \in Requests PROVE pool[r] + Readable(r)' <= recycles + 1
      <4>1. CASE r = <<j, "reschedule">>
        BY <4>1, <3>2, <3>3 DEF RequestsOK, Readable
      <4>2. CASE r # <<j, "reschedule">>
        BY <4>2, <3>3 DEF RequestsOK, Readable
      <4> QED
        BY <4>1, <4>2
    <3>5. /\ token' \in [Jobs -> [n : {0, 1}, there : BOOLEAN]]
          /\ token'[j].n = 1 /\ \A i \in Jobs : i # j => token'[i] = token[i]
      BY <3>1 DEF RequestsOK
    <3>6. ASSUME NEW i \in Jobs, token'[i].n = 0
          PROVE  file'[<<i, "reschedule">>] = "none" /\ pool[<<i, "reschedule">>] = 0
      <4>1. i # j /\ token[i].n = 0
        BY <3>5, <3>6
      <4>2. file[<<i, "reschedule">>] = "none" /\ pool[<<i, "reschedule">>] = 0
        BY <4>1 DEF RequestsOK
      <4>3. <<i, "reschedule">> # <<j, "reschedule">>
        BY <4>1
      <4> QED
        BY <1>0, <3>3, <4>2, <4>3
    <3> QED
      BY <2>1, <3>3, <3>4, <3>5, <3>6 DEF RequestsOK
  <2>4. ASSUME NEW j \in Jobs, Cancel(j) PROVE RequestsOK'
    BY <1>2, <2>1, <2>2, <2>4 DEF Cancel, dirVars, RequestsOK
  <2>5. ASSUME NEW j \in Jobs, NEW k \in 1 .. Len(cream[j]), CreamRun(j, k) PROVE RequestsOK'
    <3>1. /\ file' = file
          /\ \E b \in BOOLEAN : token' = [token EXCEPT ![j].there = @ /\ b]
      BY <2>5 DEF CreamRun, dirVars
    <3>2. \A i \in Jobs : token[i] \in [n : {0, 1}, there : BOOLEAN]
      BY DEF RequestsOK
    <3>3. PICK b \in BOOLEAN : token' = [token EXCEPT ![j] = [token[j] EXCEPT !.there = token[j].there /\ b]]
      BY <3>1
    <3>4. (token[j].there /\ b) \in BOOLEAN
      BY <3>2
    <3>5. /\ [token[j] EXCEPT !.there = token[j].there /\ b] \in [n : {0, 1}, there : BOOLEAN]
          /\ [token[j] EXCEPT !.there = token[j].there /\ b].n = token[j].n
      BY <3>2, <3>4
    <3>6. /\ token' \in [Jobs -> [n : {0, 1}, there : BOOLEAN]]
          /\ \A i \in Jobs : token'[i].n = token[i].n
      BY <3>3, <3>5 DEF RequestsOK
    <3> QED
      BY <2>2, <3>1, <3>6
  <2>6. ASSUME NEW j \in Jobs, NEW k \in 1 .. Len(cream[j]), NEW st,
               CreamPurge(j, k) \/ CreamEnd(j, k, st)
        PROVE  RequestsOK'
    BY <2>2, <2>6 DEF CreamPurge, CreamEnd, dirVars, RequestsOK
  <2> QED
    BY <1>4, <2>3, <2>4, <2>5, <2>6 DEF World
<1>5. CASE Crash
  <2>1. /\ up' = "down" /\ file' = file /\ recycles' = recycles /\ token' = token
        /\ pool' = [r \in Requests |-> 0]
    BY <1>5 DEF Crash, creamVars
  <2>2. ASSUME NEW r \in Requests PROVE pool'[r] + Readable(r)' <= recycles + 1
    BY <2>1 DEF RequestsOK, Readable
  <2> QED
    BY <1>0, <2>1, <2>2 DEF RequestsOK
<1>6. CASE Recovery
  <2>1. UNCHANGED <<pool, recycles, token>>
    BY <1>6, RecoveryFrame DEF creamVars
  <2>2. CASE Restart
    <3>1. /\ up = "down" /\ up' = "init"
          /\ file' = [r \in Requests |-> IF file[r] = "old" THEN "new" ELSE file[r]]
      BY <2>2 DEF Restart
    <3>2. ASSUME NEW r \in Requests PROVE pool'[r] + Readable(r)' <= recycles + 1
      BY <2>1, <3>1 DEF RequestsOK, Readable
    <3> QED
      BY <1>0, <2>1, <3>1, <3>2 DEF RequestsOK
  <2>3. CASE InitDone
    BY <1>1, <2>1, <2>3 DEF InitDone, dirVars
  <2>4. CASE \E j \in Jobs : \E k \in 0 .. Len(cream[j]) : InitJob(j, k)
    BY <1>1, <2>1, <2>4 DEF InitJob, dirVars, RequestsOK
  <2> QED
    BY <1>6, <2>2, <2>3, <2>4 DEF Recovery
<1>7. ASSUME NEW q \in Queries, Query(q) PROVE RequestsOK'
  BY <1>2, <1>7, QueryFrame
<1>8. ASSUME NEW a \in Actors, EndJob(a) PROVE RequestsOK'
  BY <1>2, <1>8, EndJobFrame
<1>9. ASSUME NEW l \in Loggers, Logging(l) PROVE RequestsOK'
  BY <1>2, <1>9, LoggingFrame
<1>10. CASE UNCHANGED vars
  BY <1>2, <1>10 DEF vars
<1> QED
  BY <1>3, <1>4, <1>5, <1>6, <1>7, <1>8, <1>9, <1>10, MainLoopRequests DEF Next

LoggerSteps == {"idle", "check", "remove", "count"}

OutOK ==
  /\ proxy \in Int \cup {NoProxy}
  /\ lpc \in [Loggers -> LoggerSteps]
  /\ lcur \in [Loggers -> Jobs \cup {Nobody}]
  /\ resub \in [Jobs -> Nat]
  /\ aborted \in [Jobs -> Nat]

\* Outcomes are only ever added.
Counted ==
  /\ \A j \in Jobs : resub[j] <= resub'[j] /\ aborted[j] <= aborted'[j]
  /\ ended \subseteq ended'

\* Counters of the better proxy
LEMMA ProxyCounts ==
  ASSUME OutOK
  PROVE  /\ Incremented(proxy) \in Int \cup {NoProxy}
         /\ Decremented(proxy) \in Int \cup {NoProxy}
BY DEF OutOK, Incremented, Decremented

\* A resubmission counts once, as such or as an abort.
LEMMA ResubmitCounts ==
  ASSUME OutOK, NEW j \in Jobs, ResubmitJob(j)
  PROVE  /\ resub' \in [Jobs -> Nat] /\ aborted' \in [Jobs -> Nat]
         /\ \A i \in Jobs : resub[i] <= resub'[i] /\ aborted[i] <= aborted'[i]
         /\ resub'[j] + aborted'[j] > 0
<1>1. CASE resub' = [resub EXCEPT ![j] = @ + 1] /\ UNCHANGED aborted
  BY <1>1 DEF OutOK
<1>2. CASE aborted' = [aborted EXCEPT ![j] = @ + 1] /\ UNCHANGED resub
  BY <1>2 DEF OutOK
<1> QED
  BY <1>1, <1>2 DEF ResubmitJob

\* So does an abort.
LEMMA AbortCounts ==
  ASSUME OutOK, NEW j \in Jobs, aborted' = [aborted EXCEPT ![j] = @ + 1]
  PROVE  /\ aborted' \in [Jobs -> Nat]
         /\ \A i \in Jobs : aborted[i] <= aborted'[i]
         /\ aborted'[j] > 0
BY DEF OutOK

\* The outcomes and the counter of the proxy in a command's steps
LEMMA CommandOut ==
  ASSUME OutOK, NEW j \in Jobs, Command(j)
  PROVE  OutOK' /\ Counted
<1>1. UNCHANGED <<lpc, lcur, ended>>
  BY CommandFrame DEF logVars
<1>2. \A i \in Jobs : resub[i] \in Nat /\ aborted[i] \in Nat
  BY DEF OutOK
<1>3. ASSUME proxy' \in Int \cup {NoProxy}, UNCHANGED <<resub, aborted>> PROVE OutOK' /\ Counted
  BY <1>1, <1>2, <1>3 DEF OutOK, Counted
<1>4. CASE GiveBack(j)
  <2>1. ResubmitJob(j) /\ proxy' = proxy
    BY <1>4 DEF GiveBack
  <2>2. /\ resub' \in [Jobs -> Nat] /\ aborted' \in [Jobs -> Nat]
        /\ \A i \in Jobs : resub[i] <= resub'[i] /\ aborted[i] <= aborted'[i]
    BY <2>1, ResubmitCounts
  <2> QED
    BY <1>1, <2>1, <2>2 DEF OutOK, Counted
<1>5. CASE BlackListed(j)
  <2>1. aborted' = [aborted EXCEPT ![j] = @ + 1] /\ UNCHANGED <<proxy, resub>>
    BY <1>5 DEF BlackListed
  <2>2. aborted' \in [Jobs -> Nat] /\ \A i \in Jobs : aborted[i] <= aborted'[i]
    BY <2>1, AbortCounts
  <2> QED
    BY <1>1, <1>2, <2>1, <2>2 DEF OutOK, Counted
<1>6. CASE \E w \in {"submit", "reschedule"} : TakeCommand(<<j, w>>)
  BY <1>3, <1>6 DEF TakeCommand, outVars, OutOK
<1>7. CASE \/ Reschedule(j) \/ Lookup(j) \/ CreateJob(j) \/ Register(j) \/ RegisterTimesOut(j)
           \/ Redelegate(j) \/ SubmitFails(j) \/ Record(j) \/ Start(j) \/ StartFails(j)
           \/ Started(j) \/ Remove(j) \/ PurgeRequest(j)
  <2>1. UNCHANGED <<proxy, resub, aborted>>
    BY <1>7 DEF Reschedule, Lookup, CreateJob, Register, RegisterTimesOut, Redelegate,
       SubmitFails, Record, Start, StartFails, Started, Remove, PurgeRequest, outVars
  <2> QED
    BY <1>3, <2>1 DEF OutOK
<1>8. CASE Release(j) \/ Count(j) \/ Delegate(j) \/ SetBetterProxy(j) \/ Uncount(j)
  <2>1. /\ UNCHANGED <<resub, aborted>>
        /\ \/ proxy' = Incremented(proxy) \/ proxy' = Decremented(proxy)
           \/ proxy' \in {0, proxy}
    BY <1>8 DEF Release, Count, Delegate, SetBetterProxy, Uncount, outVars
  <2> QED
    BY <1>3, <2>1, ProxyCounts DEF OutOK
<1> QED
  BY <1>4, <1>5, <1>6, <1>7, <1>8 DEF Command

\* Every step keeps the outcomes.
LEMMA OutNext ==
  ASSUME OutOK, QueriesOK, Next \/ UNCHANGED vars
  PROVE  OutOK' /\ Counted
<1>2. \A i \in Jobs : resub[i] \in Nat /\ aborted[i] \in Nat
  BY DEF OutOK
<1>3. CASE UNCHANGED <<proxy, lpc, lcur, outVars>>
  BY <1>2, <1>3 DEF OutOK, Counted, outVars
<1>4. ASSUME MainLoop PROVE OutOK' /\ Counted
  <2>1. UNCHANGED <<proxy, lpc, lcur, resub, ended>>
    BY <1>4, MainLoopFrame DEF logVars
  <2>2. CASE aborted' = aborted
    BY <1>2, <2>1, <2>2 DEF OutOK, Counted
  <2>3. ASSUME NEW r \in Requests, RejectRequest(r) PROVE OutOK' /\ Counted
    <3>1. r[1] \in Jobs
      BY DEF Requests
    <3>2. aborted' = [aborted EXCEPT ![r[1]] = @ + 1]
      BY <2>3 DEF RejectRequest
    <3>3. aborted' \in [Jobs -> Nat] /\ \A i \in Jobs : aborted[i] <= aborted'[i]
      BY <3>1, <3>2, AbortCounts
    <3> QED
      BY <1>2, <2>1, <3>3 DEF OutOK, Counted
  <2> QED
    BY <1>4, <2>2, <2>3 DEF MainLoop, ReadRequest, PostponeRequest, Recycle, outVars
<1>5. ASSUME NEW j \in Jobs, Command(j) PROVE OutOK' /\ Counted
  BY <1>5, CommandOut
<1>6. ASSUME NEW q \in Queries, Query(q) PROVE OutOK' /\ Counted
  BY <1>3, <1>6, QueryFrame
<1>7. ASSUME NEW a \in Actors, EndJob(a) PROVE OutOK' /\ Counted
  <2>1. UNCHANGED <<lpc, lcur>>
    BY <1>7, EndJobFrame DEF logVars
  <2>2. CASE UpdateStatus(a) \/ UncountJob(a) \/ RemoveEnded(a) \/ PurgeJob(a)
    <3>1. /\ UNCHANGED <<resub, aborted>> /\ ended \subseteq ended'
          /\ proxy' \in {proxy, Decremented(proxy)}
      BY <2>2 DEF UpdateStatus, UncountJob, RemoveEnded, PurgeJob, outVars
    <3> QED
      BY <1>2, <2>1, <3>1, ProxyCounts DEF OutOK, Counted
  <2>3. CASE Resubmit(a)
    <3>1. cur[a][1] \in Jobs
      BY <2>3 DEF Resubmit, QueriesOK, Tasks, Ending
    <3>2. ResubmitJob(cur[a][1]) /\ UNCHANGED <<proxy, ended>>
      BY <2>3 DEF Resubmit
    <3>3. /\ resub' \in [Jobs -> Nat] /\ aborted' \in [Jobs -> Nat]
          /\ \A i \in Jobs : resub[i] <= resub'[i] /\ aborted[i] <= aborted'[i]
      BY <3>1, <3>2, ResubmitCounts
    <3> QED
      BY <2>1, <3>2, <3>3 DEF OutOK, Counted
  <2> QED
    BY <1>7, <2>2, <2>3 DEF EndJob
<1>8. ASSUME NEW l \in Loggers, Logging(l) PROVE OutOK' /\ Counted
  <2>1. UNCHANGED <<resub, ended>>
    BY <1>8, LoggingFrame
  <2>2. CASE TakeJobs(l) \/ RemoveAborted(l) \/ UncountAborted(l) \/ JobsLogged(l)
    <3>1. /\ aborted' = aborted
          /\ proxy' \in {proxy, Decremented(proxy)}
          /\ lcur' \in {lcur, [lcur EXCEPT ![l] = Nobody]}
          /\ \E x \in LoggerSteps : lpc' = [lpc EXCEPT ![l] = x]
      BY <2>2 DEF TakeJobs, RemoveAborted, UncountAborted, JobsLogged, outVars, LoggerSteps
    <3> QED
      BY <1>2, <2>1, <3>1, ProxyCounts DEF OutOK, Counted
  <2>3. ASSUME NEW j \in Jobs, NEW k \in 0 .. Len(cream[j]), LogAbort(l, j, k)
        PROVE  OutOK' /\ Counted
    <3>1. proxy' = proxy
      BY <2>3 DEF LogAbort
    <3>2. CASE UNCHANGED <<lpc, lcur, aborted>>
      BY <1>2, <2>1, <3>1, <3>2 DEF OutOK, Counted
    <3>3. CASE /\ aborted' = [aborted EXCEPT ![j] = @ + 1]
               /\ lcur' = [lcur EXCEPT ![l] = j]
               /\ lpc' = [lpc EXCEPT ![l] = "remove"]
      <4>1. aborted' \in [Jobs -> Nat] /\ \A i \in Jobs : aborted[i] <= aborted'[i]
        BY <3>3, AbortCounts
      <4> QED
        BY <1>2, <2>1, <3>1, <3>3, <4>1 DEF OutOK, Counted, LoggerSteps
    <3> QED
      BY <2>3, <3>2, <3>3 DEF LogAbort
  <2> QED
    BY <1>8, <2>2, <2>3 DEF Logging
<1>9. CASE World \/ Recovery \/ UNCHANGED vars
  BY <1>3, <1>9, WorldFrame, RecoveryFrame DEF vars, logVars
<1>10. CASE Crash
  BY <1>2, <1>10 DEF Crash, OutOK, Counted, outVars, LoggerSteps
<1> QED
  BY <1>4, <1>5, <1>6, <1>7, <1>8, <1>9, <1>10 DEF Next

-----------------------------------------------------------------------------
(* Type correctness                                                        *)

Base == CreamOK /\ RowsOK /\ QueriesOK /\ RequestsOK /\ OutOK

\* The initial state
LEMMA BaseInit ==
  ASSUME Init
  PROVE  Base
<1> USE DEF Init
<1>1. CreamOK
  BY DEF CreamOK
<1>2. RowsOK
  BY DEF RowsOK, CommandSteps, Statuses
<1>3. QueriesOK
  BY DEF QueriesOK, ActorSteps, Ending, Actors
<1>4. RequestsOK
  <2>1. \A r \in Requests : pool[r] = 0 /\ Readable(r) \in {0, 1}
    BY DEF Readable
  <2>2. \A j \in Jobs : token[j] \in [n : {0, 1}, there : BOOLEAN]
    OBVIOUS
  <2>3. \A j \in Jobs : <<j, "reschedule">> \in Requests /\ file[<<j, "reschedule">>] = "none"
    BY DEF Requests
  <2>4. \A r \in Requests : pool[r] + Readable(r) <= recycles + 1
    BY <2>1
  <2> QED
    BY <2>2, <2>3, <2>4, CountsAssumption DEF RequestsOK
<1>5. OutOK
  BY DEF OutOK, LoggerSteps
<1> QED
  BY <1>1, <1>2, <1>3, <1>4, <1>5 DEF Base

\* Every step
LEMMA BaseNext ==
  ASSUME Base, Next \/ UNCHANGED vars
  PROVE  Base' /\ Grows /\ Counted
<1>1. CreamOK' /\ Grows
  BY CreamNext DEF Base
<1>2. RowsOK'
  BY <1>1, RowsNext DEF Base
<1>3. QueriesOK'
  BY <1>1, QueriesNext DEF Base
<1>4. RequestsOK'
  BY RequestsNext DEF Base
<1>5. OutOK' /\ Counted
  BY OutNext DEF Base
<1> QED
  BY <1>1, <1>2, <1>3, <1>4, <1>5 DEF Base

\* The type invariant is a consequence.
LEMMA BaseTypes ==
  ASSUME Base
  PROVE  TypeOK
<1>1. pool \in [Requests -> 0 .. MaxRecycles + 1]
  <2>1. ASSUME NEW r \in Requests PROVE pool[r] \in 0 .. MaxRecycles + 1
    <3>1. Readable(r) \in {0, 1}
      BY DEF Readable
    <3>2. /\ pool[r] \in Nat /\ recycles \in Nat /\ recycles <= MaxRecycles
          /\ pool[r] + Readable(r) <= recycles + 1
      BY DEF Base, RequestsOK
    <3> QED
      BY <3>1, <3>2, CountsAssumption
  <2> QED
    BY <2>1 DEF Base, RequestsOK
<1>2. lastid \in 1 .. Len(events) + 1 /\ floor \in 0 .. Len(events)
  BY LenProperties DEF Base, QueriesOK, CreamOK
<1>3. cream \in [Jobs -> Seq([st : {"REGISTERED", "IDLE", "RUNNING"} \cup Final, token : Nat])]
  BY DEF Base, CreamOK, CreamJobs, CreamStates
<1>4. /\ up \in {"down", "init", "up"}
      /\ file \in [Requests -> {"new", "old", "none"}]
      /\ sub \in [Jobs -> CommandSteps]
      /\ kind \in [Jobs -> {"submit", "reschedule"}]
      /\ reg \in [Jobs -> Nat] /\ db \in [Jobs -> Statuses]
      /\ cid \in [Jobs -> Nat] /\ tk \in [Jobs -> Nat]
  BY DEF Base, RequestsOK, RowsOK
<1>5. /\ apc \in [Actors -> ActorSteps]
      /\ todo \in [Actors -> SUBSET (Jobs \X Nat)]
      /\ resched \in Actors \cup Jobs \cup {Nobody}
      /\ events \in Seq(Jobs \X Nat \X Final)
  BY DEF Base, QueriesOK, CreamOK
<1>6. /\ proxy \in Int \cup {NoProxy}
      /\ lpc \in [Loggers -> LoggerSteps]
      /\ resub \in [Jobs -> Nat] /\ aborted \in [Jobs -> Nat]
  BY DEF Base, OutOK
<1> QED
  BY <1>1, <1>2, <1>3, <1>4, <1>5, <1>6 DEF TypeOK, CommandSteps, ActorSteps, LoggerSteps

\* The types of IceJob.tla hold whatever ICE, CREAM and the replanner do,
\* crashes and moves of old/ back to new/ included: no more commands of a
\* request wait in the pool than its file has been new, and no query passes
\* the end of the events.
THEOREM TypeCorrect == Spec => []TypeOK
<1>1. Init => Base
  BY BaseInit
<1>2. Base /\ [Next]_vars => Base'
  BY BaseNext
<1>3. Base => TypeOK
  BY BaseTypes
<1> QED
  BY <1>1, <1>2, <1>3, PTL DEF Spec

-----------------------------------------------------------------------------
(* No event is lost                                                        *)

SameRow(j) == cid'[j] = cid[j] /\ tk'[j] = tk[j] /\ (db'[j] = "none" <=> db[j] = "none")

NoRow(j) == db'[j] = "none" /\ cid'[j] = 0 /\ tk'[j] = 0

\* What a removal does to a row
LEMMA RemoveRow ==
  ASSUME RowsOK, NEW x, RemoveJob(x), NEW i \in Jobs
  PROVE  SameRow(i) \/ NoRow(i)
<1>1. CASE i = x
  BY <1>1 DEF RemoveJob, RowsOK, NoRow
<1>2. CASE i # x
  BY <1>2 DEF RemoveJob, RowsOK, SameRow
<1> QED
  BY <1>1, <1>2

\* What an update does to a row, whatever is updated
LEMMA UpdateRow ==
  ASSUME RowsOK, NEW x, NEW st, st # "none", Update(x, st), NEW i \in Jobs
  PROVE  db'[i] = "none" <=> db[i] = "none"
BY DEF Update, RowsOK

\* The row of a job stays, goes, is created or gets a CREAM id.
LEMMA RowSteps ==
  ASSUME Base, Next \/ UNCHANGED vars, NEW i \in Jobs
  PROVE  SameRow(i) \/ NoRow(i) \/ CreateJob(i) \/ Record(i)
<1> USE DEF Base
<1>1. CASE UNCHANGED rowVars
  BY <1>1 DEF rowVars, SameRow
<1>2. ASSUME NEW j \in Jobs, Command(j) PROVE SameRow(i) \/ NoRow(i) \/ CreateJob(i) \/ Record(i)
  <2>1. CASE Reschedule(j) \/ Lookup(j) \/ Remove(j)
    <3>1. RemoveJob(j) \/ UNCHANGED rowVars
      BY <2>1 DEF Reschedule, Lookup, Remove
    <3> QED
      BY <1>1, <3>1, RemoveRow
  <2>2. CASE CreateJob(j)
    BY <2>2 DEF CreateJob, RowsOK, SameRow
  <2>3. CASE Record(j)
    <3>1. CASE i = j
      BY <2>3, <3>1
    <3>2. CASE i # j
      BY <2>3, <3>2 DEF Record, Update, RowsOK, SameRow
    <3> QED
      BY <3>1, <3>2
  <2>4. CASE Started(j)
    BY <2>4, UpdateRow DEF Started, SameRow
  <2>5. CASE \E w \in {"submit", "reschedule"} : TakeCommand(<<j, w>>)
    BY <1>1, <2>5 DEF TakeCommand
  <2>6. CASE \/ Release(j) \/ Count(j) \/ Delegate(j)
             \/ SetBetterProxy(j) \/ Register(j) \/ RegisterTimesOut(j)
             \/ Redelegate(j) \/ SubmitFails(j) \/ BlackListed(j) \/ Start(j) \/ StartFails(j)
             \/ GiveBack(j) \/ Uncount(j) \/ PurgeRequest(j)
    BY <1>1, <2>6 DEF Release, Count, Delegate, SetBetterProxy,
       Register, RegisterTimesOut, Redelegate,
       SubmitFails, BlackListed, Start, StartFails, GiveBack, Uncount, PurgeRequest
  <2> QED
    BY <1>2, <2>1, <2>2, <2>3, <2>4, <2>5, <2>6 DEF Command
<1>3. ASSUME NEW a \in Actors, EndJob(a) PROVE SameRow(i) \/ NoRow(i)
  <2>1. CASE UpdateStatus(a)
    <3>1. cur[a][3] # "none" /\ Update(cur[a][1], cur[a][3]) /\ UNCHANGED <<cid, tk>>
      BY <2>1 DEF UpdateStatus, QueriesOK, Actors, Terminal
    <3> QED
      BY <3>1, UpdateRow DEF SameRow
  <2>2. CASE RemoveEnded(a)
    BY <2>2, RemoveRow DEF RemoveEnded
  <2>3. CASE UncountJob(a) \/ Resubmit(a) \/ PurgeJob(a)
    BY <2>3, <1>1 DEF UncountJob, Resubmit, PurgeJob, rowVars, SameRow
  <2> QED
    BY <1>3, <2>1, <2>2, <2>3 DEF EndJob
<1>4. ASSUME NEW l \in Loggers, Logging(l) PROVE SameRow(i) \/ NoRow(i)
  <2>1. CASE RemoveAborted(l)
    BY <2>1, RemoveRow DEF RemoveAborted
  <2>2. CASE \/ TakeJobs(l) \/ UncountAborted(l) \/ JobsLogged(l)
             \/ \E j \in Jobs : \E k \in 0 .. Len(cream[j]) : LogAbort(l, j, k)
    BY <2>2 DEF TakeJobs, UncountAborted, JobsLogged, LogAbort, rowVars, SameRow
  <2> QED
    BY <1>4, <2>1, <2>2 DEF Logging
<1>5. ASSUME NEW q \in Queries, Query(q) PROVE SameRow(i)
  BY <1>5, QueryFrame DEF rowVars, SameRow
<1>6. CASE MainLoop \/ World \/ Recovery \/ Crash \/ UNCHANGED vars
  BY <1>1, <1>6, MainLoopFrame, WorldFrame, RecoveryFrame DEF Crash, vars
<1> QED
  BY <1>2, <1>3, <1>4, <1>5, <1>6 DEF Next

\* A token only ever moves because of the replanner.
LEMMA TokenSteps ==
  ASSUME Base, Next \/ UNCHANGED vars, NEW i \in Jobs
  PROVE  token'[i].n = token[i].n \/ (token[i].n = 0 /\ token'[i].n = 1)
<1> USE DEF Base
<1>1. CASE token' = token
  BY <1>1
<1>2. ASSUME NEW j \in Jobs, Replan(j)
      PROVE  token'[i].n = token[i].n \/ (token[i].n = 0 /\ token'[i].n = 1)
  BY <1>2 DEF Replan, RequestsOK
<1>3. ASSUME NEW j \in Jobs, NEW k, CreamRun(j, k) PROVE token'[i].n = token[i].n
  <2>1. PICK b : token' = [token EXCEPT ![j].there = b]
    BY <1>3 DEF CreamRun
  <2> QED
    BY <2>1 DEF RequestsOK
<1>4. CASE World
  BY <1>1, <1>2, <1>3, <1>4 DEF World, Cancel, CreamPurge, CreamEnd
<1>5. ASSUME NEW j \in Jobs, Command(j) PROVE token' = token
  BY <1>5, CommandFrame
<1> QED
  BY <1>1, <1>4, <1>5, CreamFrame DEF creamVars

\* A reschedule command belongs to a moved token; so does a row with a token.
Tokens ==
  \A j \in Jobs :
    /\ kind[j] = "reschedule" => token[j].n = 1
    /\ tk[j] \in {0, 1}
    /\ tk[j] = 1 => token[j].n = 1

\* The job whose CREAM id is about to be recorded has not been started.
Recording ==
  \A j \in Jobs : sub[j] = "record" => reg[j] > 0 /\ cream[j][reg[j]].st = "REGISTERED"

\* The events of a CREAM job need no attention any more.
Settled(j, k) == InDb(j) /\ cid[j] = k => token[j].n # tk[j]

\* What a query has been given and not yet dealt with, it still has.
Seen ==
  \A q \in Queries : apc[q] \notin {"idle", "query"} =>
    \A i \in 1 .. upto[q] : i > floor =>
      \/ <<events[i][1], events[i][2]>> \in todo[q]
      \/ /\ apc[q] \in {"update", "count", "remove"}
         /\ cur[q][1] = events[i][1] /\ cur[q][2] = events[i][2]
      \/ Settled(events[i][1], events[i][2])

EventInv == Base /\ Tokens /\ Recording /\ Seen /\ NoEventLost

\* The kind of a command changes when it is taken from the pool.
LEMMA KindSteps ==
  ASSUME Base, Next \/ UNCHANGED vars, NEW i \in Jobs, kind'[i] # kind[i]
  PROVE  token[i].n = 1 \/ kind'[i] = "submit"
<1>1. ASSUME NEW j \in Jobs, Command(j) PROVE token[i].n = 1 \/ kind'[i] = "submit"
  <2>1. CASE \E w \in {"submit", "reschedule"} : TakeCommand(<<j, w>>)
    <3>1. PICK w \in {"submit", "reschedule"} : TakeCommand(<<j, w>>)
      BY <2>1
    <3>2. kind' = [kind EXCEPT ![j] = w] /\ pool[<<j, w>>] > 0
      BY <3>1 DEF TakeCommand
    <3>3. i = j /\ kind'[i] = w
      BY <3>2 DEF Base, RowsOK
    <3>4. CASE w = "reschedule"
      BY <3>2, <3>3, <3>4 DEF Base, RequestsOK
    <3> QED
      BY <3>3, <3>4
  <2>2. CASE \/ Reschedule(j) \/ Release(j) \/ Lookup(j) \/ CreateJob(j) \/ Count(j)
             \/ Delegate(j)
             \/ SetBetterProxy(j) \/ Register(j) \/ RegisterTimesOut(j) \/ Redelegate(j)
    BY <2>2 DEF Reschedule, Release, Lookup, CreateJob, Count, Delegate, SetBetterProxy, Register,
       RegisterTimesOut, Redelegate
  <2>3. CASE \/ SubmitFails(j) \/ BlackListed(j) \/ Record(j) \/ Start(j) \/ StartFails(j)
             \/ Started(j) \/ GiveBack(j) \/ Uncount(j) \/ Remove(j) \/ PurgeRequest(j)
    BY <2>3 DEF SubmitFails, BlackListed, Record, Start, StartFails, Started, GiveBack,
       Uncount, Remove, PurgeRequest
  <2> QED
    BY <1>1, <2>1, <2>2, <2>3 DEF Command
<1>2. CASE UNCHANGED subVars
  BY <1>2 DEF subVars
<1>3. ASSUME NEW q \in Queries, Query(q) PROVE UNCHANGED subVars
  BY <1>3, QueryFrame
<1>4. ASSUME NEW a \in Actors, EndJob(a) PROVE UNCHANGED subVars
  BY <1>4, EndJobFrame
<1>5. ASSUME NEW l \in Loggers, Logging(l) PROVE UNCHANGED subVars
  BY <1>5, LoggingFrame
<1>6. CASE MainLoop \/ World \/ Recovery \/ UNCHANGED vars
  BY <1>2, <1>6, MainLoopFrame, WorldFrame, RecoveryFrame DEF vars
<1>7. CASE Crash
  BY <1>7 DEF Crash
<1> QED
  BY <1>1, <1>2, <1>3, <1>4, <1>5, <1>6, <1>7 DEF Next

\* Every step keeps the tokens.
LEMMA TokensNext ==
  ASSUME Base, Tokens, Next \/ UNCHANGED vars
  PROVE  Tokens'
<1> SUFFICES ASSUME NEW j \in Jobs
             PROVE  /\ kind'[j] = "reschedule" => token'[j].n = 1
                    /\ tk'[j] \in {0, 1}
                    /\ tk'[j] = 1 => token'[j].n = 1
  BY DEF Tokens
<1>1. token[j].n = 1 => token'[j].n = 1
  BY TokenSteps
<1>2. kind'[j] = "reschedule" => token[j].n = 1
  BY KindSteps DEF Tokens
<1>3. CASE SameRow(j)
  BY <1>1, <1>2, <1>3 DEF SameRow, Tokens
<1>4. CASE NoRow(j)
  BY <1>1, <1>2, <1>4 DEF NoRow
<1>5. CASE CreateJob(j)
  <2>1. tk'[j] = IF kind[j] = "submit" THEN 0 ELSE 1
    BY <1>5 DEF CreateJob, Base, RowsOK
  <2>2. kind[j] # "submit" => kind[j] = "reschedule"
    BY DEF Base, RowsOK
  <2> QED
    BY <1>1, <1>2, <2>1, <2>2 DEF Tokens
<1>6. CASE Record(j)
  BY <1>1, <1>2, <1>6 DEF Record, Tokens
<1> QED
  BY <1>3, <1>4, <1>5, <1>6, RowSteps

\* How the state of a job on CREAM changes
StateStep(i, k) ==
  \/ cream'[i][k].st = cream[i][k].st
  \/ /\ Start(i) /\ reg[i] = k
     /\ cream[i][k].st = "REGISTERED" /\ cream'[i][k].st = "IDLE"
  \/ /\ Cancel(i) /\ cid[i] = k
     /\ cream[i][k].st \notin Final /\ cream'[i][k].st = "CANCELLED"
  \/ /\ cream[i][k].st \in {"IDLE", "RUNNING"}
     /\ cream'[i][k].st \in {"RUNNING", "DONE_OK", "FAILED"}
  \/ cream[i][k].st \in Terminal /\ cream'[i][k].st = "PURGED"

\* One job's state at a time
LEMMA OneState ==
  ASSUME CreamOK, NEW j \in Jobs, NEW h \in 1 .. Len(cream[j]), NEW x \in CreamStates,
         SetState(j, h, x), NEW i \in Jobs, NEW k \in 1 .. Len(cream[i])
  PROVE  cream'[i][k] = cream[i][k] \/ (i = j /\ k = h /\ cream'[i][k].st = x)
<1>1. Changed(j, h, x)
  BY SetStateFacts
<1> QED
  BY <1>1 DEF Changed

\* No job on CREAM changes its state in another way.
LEMMA StateSteps ==
  ASSUME Base, Next \/ UNCHANGED vars, NEW i \in Jobs, NEW k \in 1 .. Len(cream[i])
  PROVE  StateStep(i, k)
<1>0. CreamOK /\ RowsOK
  BY DEF Base
<1>1. CASE cream' = cream
  BY <1>1 DEF StateStep
<1>2. ASSUME NEW j \in Jobs, Command(j) PROVE StateStep(i, k)
  <2>1. CASE Register(j) \/ RegisterTimesOut(j)
    <3>1. NewCreamJob(j)
      BY <2>1 DEF Register, RegisterTimesOut
    <3>2. /\ \A b \in Jobs \ {j} : cream'[b] = cream[b]
          /\ \A h \in 1 .. Len(cream[j]) : cream'[j][h] = cream[j][h]
      BY <1>0, <3>1, NewJobFacts
    <3> QED
      BY <3>2 DEF StateStep
  <2>2. CASE Start(j)
    <3>1. reg[j] \in 1 .. Len(cream[j])
      BY <1>0, <2>2, LenProperties DEF Start, Startable, RowsOK, CreamOK
    <3>2. SetState(j, reg[j], "IDLE") /\ cream[j][reg[j]].st = "REGISTERED"
      BY <2>2 DEF Start, Startable, SetState
    <3>3. "IDLE" \in CreamStates
      BY DEF CreamStates
    <3> QED
      BY <1>0, <2>2, <3>1, <3>2, <3>3, OneState DEF StateStep
  <2> QED
    BY <1>1, <1>2, <2>1, <2>2, CommandOnCream
<1>3. ASSUME World PROVE StateStep(i, k)
  <2>1. PICK j \in Jobs :
          \/ Cancel(j)
          \/ Replan(j)
          \/ \E h \in 1 .. Len(cream[j]) :
               CreamRun(j, h) \/ CreamPurge(j, h) \/ \E st \in {"DONE_OK", "FAILED"} : CreamEnd(j, h, st)
    BY <1>3 DEF World
  <2> USE DEF CreamStates, Final, Terminal
  <2>2. CASE Cancel(j)
    <3>1. cid[j] \in 1 .. Len(cream[j])
      BY <1>0, <2>2, LenProperties DEF Cancel, RowsOK, CreamOK
    <3>2. SetState(j, cid[j], "CANCELLED") /\ cream[j][cid[j]].st \notin Final
      BY <2>2 DEF Cancel, SetState
    <3>3. "CANCELLED" \in CreamStates
      OBVIOUS
    <3> HIDE DEF CreamStates, Final, Terminal
    <3> QED
      BY <1>0, <2>2, <3>1, <3>2, <3>3, OneState DEF StateStep
  <2>3. CASE Replan(j)
    BY <2>3, <1>1 DEF Replan
  <2>4. ASSUME NEW h \in 1 .. Len(cream[j]), CreamRun(j, h) PROVE StateStep(i, k)
    <3>1. PICK x \in {"RUNNING", "FAILED"} : SetState(j, h, x) /\ cream[j][h].st = "IDLE"
      BY <2>4 DEF CreamRun, SetState
    <3>2. x \in CreamStates
      OBVIOUS
    <3> HIDE DEF CreamStates, Final, Terminal
    <3>3. cream'[i][k] = cream[i][k] \/ (i = j /\ k = h /\ cream'[i][k].st = x)
      BY <1>0, <3>1, <3>2, OneState
    <3> QED
      BY <3>1, <3>3 DEF StateStep
  <2>5. ASSUME NEW h \in 1 .. Len(cream[j]), CreamPurge(j, h) PROVE StateStep(i, k)
    <3>1. SetState(j, h, "PURGED") /\ cream[j][h].st \in Terminal
      BY <2>5 DEF CreamPurge, SetState
    <3>2. "PURGED" \in CreamStates
      OBVIOUS
    <3> HIDE DEF CreamStates, Final, Terminal
    <3>3. cream'[i][k] = cream[i][k] \/ (i = j /\ k = h /\ cream'[i][k].st = "PURGED")
      BY <1>0, <3>1, <3>2, OneState
    <3> QED
      BY <3>1, <3>3 DEF StateStep
  <2>6. ASSUME NEW h \in 1 .. Len(cream[j]), NEW st \in {"DONE_OK", "FAILED"}, CreamEnd(j, h, st)
        PROVE  StateStep(i, k)
    <3>1. SetState(j, h, st) /\ cream[j][h].st \in {"IDLE", "RUNNING"}
      BY <2>6 DEF CreamEnd, SetState
    <3>2. st \in CreamStates
      OBVIOUS
    <3> HIDE DEF CreamStates, Final, Terminal
    <3>3. cream'[i][k] = cream[i][k] \/ (i = j /\ k = h /\ cream'[i][k].st = st)
      BY <1>0, <3>1, <3>2, OneState
    <3> QED
      BY <3>1, <3>3 DEF StateStep
  <2> QED
    BY <2>1, <2>2, <2>3, <2>4, <2>5, <2>6
<1> QED
  BY <1>1, <1>2, <1>3, CreamFrame DEF creamVars

\* Where a command is after a step
LEMMA SubSteps ==
  ASSUME Base, Next \/ UNCHANGED vars, NEW i \in Jobs
  PROVE  \/ Command(i)
         \/ sub'[i] = sub[i] /\ reg'[i] = reg[i] /\ kind'[i] = kind[i]
         \/ Crash /\ sub'[i] = "idle"
<1>1. ASSUME NEW j \in Jobs, Command(j), j # i
      PROVE  sub'[i] = sub[i] /\ reg'[i] = reg[i] /\ kind'[i] = kind[i]
  <2>0. /\ sub \in [Jobs -> CommandSteps]
        /\ kind \in [Jobs -> {"submit", "reschedule"}] /\ reg \in [Jobs -> Nat]
    BY DEF Base, RowsOK
  <2>1. CASE \E w \in {"submit", "reschedule"} : TakeCommand(<<j, w>>)
    BY <1>1, <2>0, <2>1 DEF TakeCommand, Goto
  <2>2. CASE \/ Reschedule(j) \/ Release(j) \/ Lookup(j) \/ CreateJob(j) \/ Count(j)
             \/ Delegate(j)
             \/ SetBetterProxy(j) \/ Register(j) \/ RegisterTimesOut(j) \/ Redelegate(j)
    BY <1>1, <2>0, <2>2 DEF Reschedule, Release, Lookup, CreateJob, Count, Delegate, SetBetterProxy,
       Register,
       RegisterTimesOut, Redelegate, Goto
  <2>3. CASE \/ SubmitFails(j) \/ BlackListed(j) \/ Record(j) \/ Start(j) \/ StartFails(j)
             \/ Started(j) \/ GiveBack(j) \/ Uncount(j) \/ Remove(j) \/ PurgeRequest(j)
    BY <1>1, <2>0, <2>3 DEF SubmitFails, BlackListed, Record, Start, StartFails, Started, GiveBack,
       Uncount, Remove, PurgeRequest, Goto
  <2> QED
    BY <1>1, <2>1, <2>2, <2>3 DEF Command
<1>2. CASE UNCHANGED subVars
  BY <1>2 DEF subVars
<1>3. ASSUME NEW q \in Queries, Query(q) PROVE UNCHANGED subVars
  BY <1>3, QueryFrame
<1>4. ASSUME NEW a \in Actors, EndJob(a) PROVE UNCHANGED subVars
  BY <1>4, EndJobFrame
<1>5. ASSUME NEW l \in Loggers, Logging(l) PROVE UNCHANGED subVars
  BY <1>5, LoggingFrame
<1>6. CASE MainLoop \/ World \/ Recovery \/ UNCHANGED vars
  BY <1>2, <1>6, MainLoopFrame, WorldFrame, RecoveryFrame DEF vars
<1>7. CASE Crash
  BY <1>7 DEF Crash
<1> QED
  BY <1>1, <1>2, <1>3, <1>4, <1>5, <1>6, <1>7 DEF Next

\* Every step keeps the recorded job unstarted.
LEMMA RecordingNext ==
  ASSUME Base, Recording, Next \/ UNCHANGED vars
  PROVE  Recording'
<1> SUFFICES ASSUME NEW j \in Jobs, sub'[j] = "record"
             PROVE  reg'[j] > 0 /\ cream'[j][reg'[j]].st = "REGISTERED"
  BY DEF Recording
<1>0. Len(cream[j]) \in Nat /\ reg[j] \in 0 .. Len(cream[j])
  BY LenProperties DEF Base, CreamOK, RowsOK
<1>1. CASE sub'[j] = sub[j] /\ reg'[j] = reg[j]
  <2>1. reg[j] > 0 /\ cream[j][reg[j]].st = "REGISTERED"
    BY <1>1 DEF Recording
  <2>2. reg[j] \in 1 .. Len(cream[j])
    BY <1>0, <2>1
  <2>3. StateStep(j, reg[j])
    BY <2>2, StateSteps
  <2>4. ~ Start(j) /\ ~ Cancel(j)
    BY <1>1 DEF Start, Cancel
  <2> QED
    BY <1>1, <2>1, <2>3, <2>4 DEF StateStep, Terminal
<1>2. CASE Register(j)
  <2>1. NewCreamJob(j) /\ reg' = [reg EXCEPT ![j] = Len(cream[j]) + 1]
    BY <1>2 DEF Register
  <2>2. cream'[j][Len(cream[j]) + 1].st = "REGISTERED"
    BY <2>1, NewJobFacts DEF Base
  <2>3. reg'[j] = Len(cream[j]) + 1
    BY <2>1 DEF Base, RowsOK
  <2> QED
    BY <1>0, <2>2, <2>3
<1>3. CASE Command(j) /\ ~ Register(j)
  <2>1. sub'[j] # "record"
    <3>0. sub \in [Jobs -> CommandSteps]
      BY DEF Base, RowsOK
    <3>1. CASE \E w \in {"submit", "reschedule"} : TakeCommand(<<j, w>>)
      BY <3>0, <3>1 DEF TakeCommand, Goto
    <3>2. CASE \/ Reschedule(j) \/ Release(j) \/ Lookup(j) \/ CreateJob(j) \/ Count(j)
               \/ Delegate(j) \/ SetBetterProxy(j) \/ RegisterTimesOut(j) \/ Redelegate(j)
      BY <3>0, <3>2 DEF Reschedule, Release, Lookup, CreateJob, Count, Delegate, SetBetterProxy,
         RegisterTimesOut, Redelegate, Goto
    <3>3. CASE \/ SubmitFails(j) \/ BlackListed(j) \/ Record(j) \/ Start(j) \/ StartFails(j)
               \/ Started(j) \/ GiveBack(j) \/ Uncount(j) \/ Remove(j) \/ PurgeRequest(j)
      BY <3>0, <3>3 DEF SubmitFails, BlackListed, Record, Start, StartFails, Started, GiveBack,
         Uncount, Remove, PurgeRequest, Goto
    <3> QED
      BY <1>3, <3>1, <3>2, <3>3 DEF Command
  <2> QED
    BY <2>1
<1> QED
  BY <1>1, <1>2, <1>3, SubSteps

\* What needs no attention never does again.
LEMMA SettledStays ==
  ASSUME Base, Tokens, Recording, Next \/ UNCHANGED vars,
         NEW e \in 1 .. Len(events), Settled(events[e][1], events[e][2])
  PROVE  Settled(events[e][1], events[e][2])'
<1> DEFINE j == events[e][1]  k == events[e][2]
<1>1. j \in Jobs /\ k \in Nat /\ k > 0 /\ cream[j][k].st \in Final
  <2>1. events[e] \in Jobs \X Nat \X Final
    BY ElementOfSeq DEF Base, CreamOK
  <2>2. k \in 1 .. Len(cream[j]) /\ cream[j][k].st \in Final
    BY DEF Base, CreamOK
  <2> QED
    BY <2>1, <2>2
<1>2. events'[e] = events[e]
  BY BaseNext DEF Grows
<1>3. Settled(j, k)
  OBVIOUS
<1> HIDE DEF j, k
<1> SUFFICES ASSUME db'[j] # "none", cid'[j] = k
             PROVE  token'[j].n # tk'[j]
  BY <1>2 DEF Settled, InDb, j, k
<1>4. CASE SameRow(j)
  <2>1. token[j].n # tk[j] /\ tk'[j] = tk[j]
    BY <1>3, <1>4 DEF SameRow, Settled, InDb
  <2>2. token[j].n \in {0, 1} /\ tk[j] \in {0, 1} /\ (tk[j] = 1 => token[j].n = 1)
    BY <1>1 DEF Tokens, Base, RequestsOK
  <2>3. token[j].n = 1 => token'[j].n = 1
    BY <1>1, TokenSteps
  <2> QED
    BY <2>1, <2>2, <2>3
<1>5. CASE NoRow(j)
  BY <1>5 DEF NoRow
<1>6. CASE CreateJob(j)
  <2>1. cid'[j] = 0
    BY <1>1, <1>6 DEF CreateJob, Base, RowsOK
  <2> QED
    BY <1>1, <2>1
<1>7. CASE Record(j)
  <2>1. db[j] # "none"
    BY <1>1, <1>7 DEF Record, Update, Base, RowsOK
  <2>2. cid'[j] = reg[j]
    BY <1>1, <1>7, <2>1 DEF Record, InDb, Base, RowsOK
  <2>3. cream[j][reg[j]].st = "REGISTERED"
    BY <1>1, <1>7 DEF Record, Recording
  <2> QED
    BY <1>1, <2>2, <2>3 DEF Final, Terminal
<1> QED
  BY <1>1, <1>4, <1>5, <1>6, <1>7, RowSteps

\* Where a query is after a step
LEMMA QuerySteps ==
  ASSUME Base, Next \/ UNCHANGED vars, NEW q \in Queries
  PROVE  \/ /\ apc'[q] = apc[q] /\ todo'[q] = todo[q]
            /\ upto'[q] = upto[q] /\ cur'[q] = cur[q]
         \/ Query(q) \/ EndJob(q)
         \/ Crash /\ apc'[q] = "idle"
<1>0. /\ q \in Actors /\ q # "init" /\ "init" \in Actors
      /\ apc \in [Actors -> ActorSteps] /\ todo \in [Actors -> SUBSET (Jobs \X Nat)]
      /\ upto \in [Actors -> Nat] /\ cur \in [Actors -> Tasks \cup {Nobody}]
  BY NamesAssumption DEF Actors, Base, QueriesOK
<1> DEFINE Same == /\ apc'[q] = apc[q] /\ todo'[q] = todo[q]
                   /\ upto'[q] = upto[q] /\ cur'[q] = cur[q]
<1>1. CASE UNCHANGED <<apc, todo, upto, cur>>
  BY <1>1
<1>2. ASSUME NEW p \in Queries, Query(p), p # q PROVE Same
  <2>1. p \in Actors
    BY DEF Actors
  <2>2. CASE Poll(p) \/ QueryFails(p) \/ QueryWithoutProxy(p) \/ SetEventId(p)
    BY <1>0, <1>2, <2>1, <2>2 DEF Poll, QueryFails, QueryWithoutProxy, SetEventId
  <2>3. CASE QueryEvents(p)
    BY <1>0, <1>2, <2>1, <2>3 DEF QueryEvents
  <2>4. CASE \E j \in Jobs : \E k \in 1 .. Len(cream[j]) : NextJob(p, j, k)
    <3>1. PICK j \in Jobs : \E k \in 1 .. Len(cream[j]) : NextJob(p, j, k)
      BY <2>4
    <3>2. PICK k \in 1 .. Len(cream[j]) : NextJob(p, j, k)
      BY <3>1
    <3>3. /\ \E x : apc' = [apc EXCEPT ![p] = x] \/ apc' = apc
          /\ \E x : todo' = [todo EXCEPT ![p] = x]
          /\ \E x : cur' = [cur EXCEPT ![p] = x] \/ cur' = cur
          /\ upto' = upto
      BY <3>2 DEF NextJob
    <3> QED
      BY <1>0, <1>2, <2>1, <3>3
  <2> QED
    BY <1>2, <2>2, <2>3, <2>4 DEF Query
<1>3. ASSUME NEW a \in Actors, EndJob(a), a # q PROVE Same
  <2>1. UNCHANGED <<todo, upto>>
    BY <1>3, EndJobFrame
  <2>2. /\ \E x : apc' = [apc EXCEPT ![a] = x]
        /\ \E x : cur' = [cur EXCEPT ![a] = x] \/ cur' = cur
    BY <1>3 DEF EndJob, UpdateStatus, UncountJob, RemoveEnded, Resubmit, PurgeJob, Done
  <2> QED
    BY <1>0, <1>3, <2>1, <2>2
<1>4. ASSUME Recovery PROVE Same
  <2>1. /\ \E x : apc' = [apc EXCEPT !["init"] = x]
        /\ \E x : todo' = [todo EXCEPT !["init"] = x] \/ todo' = todo
        /\ \E x : cur' = [cur EXCEPT !["init"] = x] \/ cur' = cur
        /\ upto' = upto
    BY <1>4 DEF Recovery, Restart, InitDone, InitJob
  <2> QED
    BY <1>0, <2>1
<1>5. ASSUME NEW j \in Jobs, Command(j) PROVE Same
  BY <1>1, <1>5, CommandFrame
<1>6. ASSUME NEW l \in Loggers, Logging(l) PROVE Same
  BY <1>1, <1>6, LoggingFrame DEF queryVars
<1>7. CASE MainLoop \/ World \/ UNCHANGED vars
  BY <1>1, <1>7, MainLoopFrame, WorldFrame DEF queryVars, vars
<1>8. CASE Crash
  BY <1>0, <1>8 DEF Crash
<1> HIDE DEF Same
<1>9. Same \/ Query(q) \/ EndJob(q) \/ (Crash /\ apc'[q] = "idle")
  BY <1>2, <1>3, <1>4, <1>5, <1>6, <1>7, <1>8 DEF Next, Same
<1> QED
  BY <1>9 DEF Same

\* The event id moves when a query ends.
LEMMA LastIdSteps ==
  ASSUME Next \/ UNCHANGED vars
  PROVE  lastid' = lastid \/ \E q \in Queries : SetEventId(q)
<1>1. ASSUME NEW q \in Queries, Query(q) PROVE lastid' = lastid \/ SetEventId(q)
  <2>1. CASE Poll(q) \/ QueryFails(q) \/ QueryWithoutProxy(q)
    BY <2>1 DEF Poll, QueryFails, QueryWithoutProxy
  <2>2. CASE QueryEvents(q)
    BY <2>2 DEF QueryEvents
  <2>3. CASE \E j \in Jobs : \E k \in 1 .. Len(cream[j]) : NextJob(q, j, k)
    BY <2>3 DEF NextJob
  <2> QED
    BY <1>1, <2>1, <2>2, <2>3 DEF Query
<1>2. ASSUME NEW a \in Actors, EndJob(a) PROVE lastid' = lastid
  BY <1>2, EndJobFrame
<1>3. ASSUME NEW j \in Jobs, Command(j) PROVE lastid' = lastid
  BY <1>3, CommandFrame
<1>4. ASSUME NEW l \in Loggers, Logging(l) PROVE lastid' = lastid
  BY <1>4, LoggingFrame DEF queryVars
<1>5. CASE MainLoop \/ World \/ Recovery \/ Crash \/ UNCHANGED vars
  BY <1>5, MainLoopFrame, WorldFrame, RecoveryFrame DEF queryVars, vars, Crash
<1> QED
  BY <1>1, <1>2, <1>3, <1>4, <1>5 DEF Next

\* What a query still has to do with an event
Handles(q, e) ==
  \/ <<events[e][1], events[e][2]>> \in todo[q]
  \/ /\ apc[q] \in {"update", "count", "remove"}
     /\ cur[q][1] = events[e][1] /\ cur[q][2] = events[e][2]
  \/ Settled(events[e][1], events[e][2])

\* A query's own steps
LEMMA SeenQuery ==
  ASSUME EventInv, NEW q \in Queries, Query(q), apc'[q] \notin {"idle", "query"},
         NEW e \in 1 .. upto'[q], e > floor
  PROVE  Handles(q, e)'
<1>0. /\ q \in Actors /\ UNCHANGED <<rowVars, cream, events, token>>
      /\ apc \in [Actors -> ActorSteps] /\ todo \in [Actors -> SUBSET (Jobs \X Nat)]
      /\ upto \in [Actors -> Nat] /\ cur \in [Actors -> Tasks \cup {Nobody}]
  BY QueryFrame DEF Actors, EventInv, Base, QueriesOK, creamVars
<1>1. \A i : Settled(events[i][1], events[i][2])' <=> Settled(events[i][1], events[i][2])
  BY <1>0 DEF Settled, InDb, rowVars
<1>2. CASE Poll(q) \/ QueryFails(q) \/ QueryWithoutProxy(q) \/ SetEventId(q)
  BY <1>0, <1>2 DEF Poll, QueryFails, QueryWithoutProxy, SetEventId
<1>3. CASE QueryEvents(q)
  <2>1. PICK n \in EventsFrom(FirstEvent) :
          /\ todo' = [todo EXCEPT ![q] = {<<events[i][1], events[i][2]>> : i \in FirstEvent .. n}]
          /\ upto' = [upto EXCEPT ![q] = n]
    BY <1>0, <1>3 DEF QueryEvents
  <2>2. /\ todo'[q] = {<<events[i][1], events[i][2]>> : i \in FirstEvent .. n}
        /\ upto'[q] = n /\ n \in Nat
    BY <1>0, <2>1, LenProperties DEF EventsFrom, EventInv, Base, CreamOK
  <2>3. lastid \in Nat \ {0} /\ floor \in Nat
    BY DEF EventInv, Base, QueriesOK
  <2>4. CASE e \in FirstEvent .. n
    BY <1>0, <2>2, <2>4 DEF Handles
  <2>5. CASE e \in 1 .. lastid - 1
    <3>1. Settled(events[e][1], events[e][2])
      BY <2>5 DEF EventInv, NoEventLost, Settled
    <3> QED
      BY <3>1, <1>1 DEF Handles
  <2>6. e \in FirstEvent .. n \/ e \in 1 .. lastid - 1
    BY <2>2, <2>3 DEF FirstEvent
  <2> QED
    BY <2>4, <2>5, <2>6
<1>4. ASSUME NEW j \in Jobs, NEW k \in 1 .. Len(cream[j]), NextJob(q, j, k) PROVE Handles(q, e)'
  <2>1. /\ upto' = upto /\ todo'[q] = todo[q] \ {<<j, k>>} /\ apc[q] = "next"
    BY <1>0, <1>4 DEF NextJob
  <2>2. Handles(q, e)
    BY <2>1 DEF EventInv, Seen, Handles
  <2>3. CASE Settled(events[e][1], events[e][2])
    BY <1>1, <2>3 DEF Handles
  <2>4. CASE <<events[e][1], events[e][2]>> \in todo[q] /\ <<events[e][1], events[e][2]>> # <<j, k>>
    BY <1>0, <2>1, <2>4 DEF Handles
  <2>5. CASE <<events[e][1], events[e][2]>> = <<j, k>>
    <3>1. events[e][1] = j /\ events[e][2] = k
      BY <2>5
    <3>2. CASE Ignored(j, k)
      <4>1. Settled(j, k)
        BY <3>2, LenProperties DEF Ignored, Settled
      <4> QED
        BY <3>1, <4>1, <1>1 DEF Handles
    <3>3. CASE ~ Ignored(j, k)
      <4>1. /\ cur'[q][1] = j /\ cur'[q][2] = k
            /\ apc'[q] \in {"count", "update"}
        BY <1>0, <1>4, <3>3 DEF NextJob
      <4> QED
        BY <1>0, <3>1, <4>1 DEF Handles
    <3> QED
      BY <3>2, <3>3
  <2> QED
    BY <2>1, <2>2, <2>3, <2>4, <2>5 DEF Handles
<1> QED
  BY <1>2, <1>3, <1>4 DEF Query

\* The steps of resubmit_or_purge_job() in a query
LEMMA SeenEndJob ==
  ASSUME EventInv, NEW q \in Queries, EndJob(q), NEW e \in 1 .. upto[q], e > floor
  PROVE  Handles(q, e)'
<1>0. /\ q \in Actors /\ UNCHANGED <<todo, upto, cream, events, token>>
      /\ apc \in [Actors -> ActorSteps] /\ cur \in [Actors -> Tasks \cup {Nobody}]
  BY EndJobFrame DEF Actors, EventInv, Base, QueriesOK, creamVars
<1>1. apc[q] \in Ending
  BY DEF EndJob, UpdateStatus, UncountJob, RemoveEnded, Resubmit, PurgeJob, Ending
<1>2. Handles(q, e) /\ e \in 1 .. Len(events)
  <2>1. Handles(q, e)
    BY <1>1 DEF EventInv, Seen, Handles, Ending
  <2>2. upto[q] \in Nat /\ upto[q] <= Len(events) /\ Len(events) \in Nat /\ floor \in Nat
    BY <1>0, LenProperties DEF EventInv, Base, QueriesOK, CreamOK
  <2> QED
    BY <2>1, <2>2
<1>3. CASE Settled(events[e][1], events[e][2])
  <2>1. Next
    BY <1>0 DEF Next
  <2>2. Settled(events[e][1], events[e][2])'
    BY <1>2, <1>3, <2>1, SettledStays DEF EventInv
  <2> QED
    BY <2>2 DEF Handles
<1>4. CASE <<events[e][1], events[e][2]>> \in todo[q]
  BY <1>0, <1>4 DEF Handles
<1>5. CASE /\ apc[q] \in {"update", "count", "remove"}
           /\ cur[q][1] = events[e][1] /\ cur[q][2] = events[e][2]
  <2>1. CASE UpdateStatus(q) \/ UncountJob(q)
    <3>1. cur' = cur /\ apc'[q] \in {"count", "remove"}
      BY <1>0, <2>1 DEF UpdateStatus, UncountJob
    <3> QED
      BY <1>0, <1>5, <3>1 DEF Handles
  <2>2. CASE RemoveEnded(q)
    <3>1. RemoveJob(cur[q][1]) /\ cur[q][1] \in Jobs
      BY <1>0, <1>1, <2>2 DEF RemoveEnded, EventInv, Base, QueriesOK, Tasks
    <3>2. db'[events[e][1]] = "none"
      BY <1>5, <3>1 DEF RemoveJob, EventInv, Base, RowsOK
    <3>3. Settled(events[e][1], events[e][2])'
      BY <1>0, <3>2 DEF Settled, InDb
    <3> QED
      BY <3>3 DEF Handles
  <2>3. CASE Resubmit(q) \/ PurgeJob(q)
    BY <1>5, <2>3 DEF Resubmit, PurgeJob
  <2> QED
    BY <2>1, <2>2, <2>3 DEF EndJob
<1> QED
  BY <1>2, <1>3, <1>4, <1>5 DEF Handles

\* A query does not change the time ICE was started.
LEMMA QueryFloor ==
  ASSUME NEW q \in Queries, Query(q)
  PROVE  floor' = floor
BY DEF Query, Poll, QueryEvents, QueryFails, QueryWithoutProxy, SetEventId, NextJob

\* Only a restart does, and a later start hides more events.
LEMMA FloorRises ==
  ASSUME Base, Next \/ UNCHANGED vars
  PROVE  floor <= floor'
<1>0. floor \in Nat /\ Len(events) \in Nat
  BY LenProperties DEF Base, QueriesOK, CreamOK
<1>1. CASE Restart
  <2>1. floor' \in floor .. Len(events) \/ floor' = floor
    BY <1>1 DEF Restart
  <2> QED
    BY <1>0, <2>1
<1>2. CASE InitDone \/ Crash
  BY <1>0, <1>2 DEF InitDone, Crash
<1>3. CASE \E j \in Jobs : \E k \in 0 .. Len(cream[j]) : InitJob(j, k)
  BY <1>0, <1>3 DEF InitJob
<1>4. ASSUME NEW q \in Queries, Query(q) PROVE floor' = floor
  BY <1>4, QueryFloor
<1>5. ASSUME NEW a \in Actors, EndJob(a) PROVE floor' = floor
  BY <1>5, EndJobFrame
<1>6. ASSUME NEW j \in Jobs, Command(j) PROVE floor' = floor
  BY <1>6, CommandFrame
<1>7. ASSUME NEW l \in Loggers, Logging(l) PROVE floor' = floor
  BY <1>7, LoggingFrame DEF queryVars
<1>8. CASE MainLoop \/ World \/ UNCHANGED vars
  BY <1>0, <1>8, MainLoopFrame, WorldFrame DEF queryVars, vars
<1> QED
  BY <1>0, <1>1, <1>2, <1>3, <1>4, <1>5, <1>6, <1>7, <1>8 DEF Next, Recovery

\* Every step
LEMMA SeenNext ==
  ASSUME EventInv, Next \/ UNCHANGED vars
  PROVE  Seen' /\ NoEventLost'
<1>0. Base /\ Tokens /\ Recording
  BY DEF EventInv
<1>1. Base' /\ Grows
  BY <1>0, BaseNext
<1>2. ASSUME NEW q \in Queries, apc'[q] \notin {"idle", "query"}, NEW e \in 1 .. upto'[q], e > floor'
      PROVE  Handles(q, e)'
  <2>1. CASE /\ apc'[q] = apc[q] /\ todo'[q] = todo[q]
             /\ upto'[q] = upto[q] /\ cur'[q] = cur[q]
    <3>0. e > floor /\ q \in Actors /\ e \in 1 .. upto[q]
      <4>1. /\ floor \in Nat /\ floor' \in Nat /\ floor <= floor'
            /\ q \in Actors /\ upto[q] \in Nat
        BY <1>0, <1>1, FloorRises DEF Base, QueriesOK, Actors
      <4> QED
        BY <1>2, <2>1, <4>1
    <3>1. Handles(q, e)
      BY <1>2, <2>1, <3>0 DEF EventInv, Seen, Handles
    <3>2. e \in 1 .. Len(events) /\ events'[e] = events[e]
      <4>1. q \in Actors /\ e \in 1 .. upto[q]
        BY <3>0
      <4> QED
        BY <1>0, <1>1, <4>1, EventsGrow DEF Base
    <3>3. CASE Settled(events[e][1], events[e][2])
      <4>1. Settled(events[e][1], events[e][2])'
        BY <1>0, <3>2, <3>3, SettledStays
      <4> QED
        BY <4>1 DEF Handles
    <3> QED
      BY <2>1, <3>1, <3>2, <3>3 DEF Handles
  <2>2. CASE Query(q)
    <3>1. floor' = floor
      BY <2>2, QueryFloor
    <3> QED
      BY <1>2, <2>2, <3>1, SeenQuery
  <2>3. CASE EndJob(q)
    <3>1. upto' = upto /\ floor' = floor
      BY <2>3, EndJobFrame DEF Actors
    <3> QED
      BY <1>2, <2>3, <3>1, SeenEndJob
  <2> QED
    BY <1>0, <1>2, <2>1, <2>2, <2>3, QuerySteps
<1>3. Seen'
  BY <1>2 DEF Seen, Handles
<1>4. ASSUME NEW e \in 1 .. lastid' - 1, e > floor'
      PROVE  Settled(events[e][1], events[e][2])'
  <2>1. Settled(events[e][1], events[e][2]) /\ e \in 1 .. Len(events)
    <3>0. /\ lastid \in Nat /\ Len(events) \in Nat /\ lastid <= Len(events) + 1
          /\ lastid' \in Nat /\ floor \in Nat /\ floor' \in Nat /\ floor <= floor'
      BY <1>0, <1>1, FloorRises, LenProperties DEF Base, QueriesOK, CreamOK
    <3>3. e \in Nat /\ e > floor
      BY <1>4, <3>0
    <3>1. CASE lastid' = lastid
      <4>1. e \in 1 .. lastid - 1 /\ e \in 1 .. Len(events)
        BY <3>0, <3>1
      <4>2. Settled(events[e][1], events[e][2])
        BY <3>3, <4>1 DEF EventInv, NoEventLost, Settled
      <4> QED
        BY <4>1, <4>2
    <3>2. ASSUME NEW q \in Queries, SetEventId(q)
          PROVE  Settled(events[e][1], events[e][2]) /\ e \in 1 .. Len(events)
      <4>1. apc[q] = "next" /\ todo[q] = {} /\ lastid' = upto[q] + 1
        BY <3>2 DEF SetEventId
      <4>2. upto[q] \in Nat /\ upto[q] <= Len(events)
        BY <1>0 DEF Base, QueriesOK, Actors
      <4>3. e \in 1 .. upto[q] /\ e \in 1 .. Len(events)
        BY <3>0, <4>1, <4>2
      <4>4. Settled(events[e][1], events[e][2])
        BY <3>3, <4>1, <4>3 DEF EventInv, Seen
      <4> QED
        BY <4>3, <4>4
    <3> QED
      BY <3>1, <3>2, LastIdSteps
  <2> QED
    BY <1>0, <2>1, SettledStays
<1>5. NoEventLost'
  BY <1>4 DEF NoEventLost, Settled
<1> QED
  BY <1>3, <1>5

\* ICE never moves its event id past an event it has not dealt with, whatever
\* the interleaving of queries, commands, reschedules and crashes: when the id
\* has passed the end of a CREAM job, no row of the database still waits for
\* that job, unless the job has been rescheduled (set_event_id at the end of
\* iceCommandEventQuery).  The events of more than ten minutes before a
\* restart are excepted as long as no event id had been stored: such a query
\* asks for none of them (thisEventID == 0, m_start_time).
THEOREM EventsAreKept == Spec => []NoEventLost
<1>1. Init => EventInv
  <2> SUFFICES ASSUME Init PROVE EventInv
    OBVIOUS
  <2>1. Base
    BY BaseInit
  <2>2. Tokens /\ Recording
    BY DEF Init, Tokens, Recording
  <2>3. Seen /\ NoEventLost
    BY DEF Init, Seen, NoEventLost, Actors
  <2> QED
    BY <2>1, <2>2, <2>3 DEF EventInv
<1>2. EventInv /\ [Next]_vars => EventInv'
  <2> SUFFICES ASSUME EventInv, Next \/ UNCHANGED vars PROVE EventInv'
    OBVIOUS
  <2>1. Base' /\ Tokens' /\ Recording'
    BY BaseNext, TokensNext, RecordingNext DEF EventInv
  <2>2. Seen' /\ NoEventLost'
    BY SeenNext
  <2> QED
    BY <2>1, <2>2 DEF EventInv
<1>3. EventInv => NoEventLost
  BY DEF EventInv
<1> QED
  BY <1>1, <1>2, <1>3, PTL DEF Spec

-----------------------------------------------------------------------------
(* Until ICE crashes, no job is forgotten                                  *)

Alive == up = "up" /\ apc["init"] = "idle" /\ crashes = 0

\* A crash is counted.
LEMMA CrashSteps ==
  ASSUME Next \/ UNCHANGED vars
  PROVE  crashes' = crashes \/ Crash
<1>1. ASSUME NEW q \in Queries, Query(q) PROVE crashes' = crashes
  BY <1>1, QueryFrame
<1>2. ASSUME NEW a \in Actors, EndJob(a) PROVE crashes' = crashes
  BY <1>2, EndJobFrame
<1>3. ASSUME NEW j \in Jobs, Command(j) PROVE crashes' = crashes
  BY <1>3, CommandFrame
<1>4. ASSUME NEW l \in Loggers, Logging(l) PROVE crashes' = crashes
  BY <1>4, LoggingFrame
<1>5. CASE MainLoop \/ World \/ Recovery \/ UNCHANGED vars
  BY <1>5, MainLoopFrame, WorldFrame, RecoveryFrame DEF vars
<1> QED
  BY <1>1, <1>2, <1>3, <1>4, <1>5 DEF Next

\* Without a crash there is no recovery either.
LEMMA StaysAlive ==
  ASSUME crashes' = 0, Base, Alive, Next \/ UNCHANGED vars
  PROVE  /\ Alive'
         /\ \/ MainLoop \/ World \/ UNCHANGED vars
            \/ \E j \in Jobs : Command(j)
            \/ \E q \in Queries : Query(q) \/ EndJob(q)
            \/ \E l \in Loggers : Logging(l)
<1>0. "init" \in Actors /\ "init" \notin Queries /\ apc \in [Actors -> ActorSteps]
  BY NamesAssumption DEF Actors, Base, QueriesOK
<1>1. ~ Crash
  BY DEF Crash, Alive
<1>2. ~ Recovery
  BY DEF Recovery, Restart, InitDone, InitJob, Alive
<1>3. ~ EndJob("init")
  BY DEF EndJob, UpdateStatus, UncountJob, RemoveEnded, Resubmit, PurgeJob, Alive
<1>4. \/ MainLoop \/ World \/ UNCHANGED vars
      \/ \E j \in Jobs : Command(j)
      \/ \E q \in Queries : Query(q) \/ EndJob(q)
      \/ \E l \in Loggers : Logging(l)
  BY <1>1, <1>2, <1>3 DEF Next, Actors
<1>5. ASSUME UNCHANGED <<up, apc, crashes>> PROVE Alive'
  BY <1>5 DEF Alive
<1>6. ASSUME NEW q \in Queries, Query(q) PROVE Alive'
  <2>1. UNCHANGED <<up, crashes>> /\ q # "init"
    BY <1>0, <1>6, QueryFrame
  <2>2. apc'["init"] = apc["init"]
    <3>1. CASE Poll(q) \/ QueryFails(q) \/ QueryWithoutProxy(q) \/ SetEventId(q)
      BY <1>0, <2>1, <3>1 DEF Poll, QueryFails, QueryWithoutProxy, SetEventId
    <3>2. CASE QueryEvents(q)
      BY <1>0, <2>1, <3>2 DEF QueryEvents
    <3>3. CASE \E j \in Jobs : \E k \in 1 .. Len(cream[j]) : NextJob(q, j, k)
      <4>1. \E x : apc' = [apc EXCEPT ![q] = x] \/ apc' = apc
        BY <3>3 DEF NextJob
      <4> QED
        BY <1>0, <2>1, <4>1
    <3> QED
      BY <1>6, <3>1, <3>2, <3>3 DEF Query
  <2> QED
    BY <2>1, <2>2 DEF Alive
<1>7. ASSUME NEW q \in Queries, EndJob(q) PROVE Alive'
  <2>1. UNCHANGED <<up, crashes>> /\ q # "init"
    BY <1>0, <1>7, EndJobFrame DEF Actors
  <2>2. \E x : apc' = [apc EXCEPT ![q] = x]
    BY <1>7 DEF EndJob, UpdateStatus, UncountJob, RemoveEnded, Resubmit, PurgeJob, Done
  <2> QED
    BY <1>0, <2>1, <2>2 DEF Alive
<1>8. ASSUME NEW j \in Jobs, Command(j) PROVE Alive'
  BY <1>5, <1>8, CommandFrame
<1>9. ASSUME NEW l \in Loggers, Logging(l) PROVE Alive'
  BY <1>5, <1>9, LoggingFrame DEF queryVars
<1>10. CASE MainLoop \/ World \/ UNCHANGED vars
  BY <1>5, <1>10, MainLoopFrame, WorldFrame DEF queryVars, vars
<1> QED
  BY <1>4, <1>6, <1>7, <1>8, <1>9, <1>10

\* CREAM has purged a job of it.
PurgedOnCream(j) == \E k \in 1 .. Len(cream[j]) : cream[j][k].st = "PURGED"

\* The outcome is known, or a query is about to make it known.
Gone(j) ==
  \/ Outcomes(j) > 0
  \/ PurgedOnCream(j)
  \/ \E q \in Queries : apc[q] = "resubmit" /\ cur[q][1] = j

Waiting(j) == file[<<j, "submit">>] # "none" \/ pool[<<j, "submit">>] > 0

\* A command that is past the creation of the row and has not given the job back
HasRow == {"count", "delegate", "set", "register", "record", "start", "started", "purge"}

\* Where a command is tells what stands for its job.
Remembered(j) ==
  /\ sub[j] \in HasRow => InDb(j) \/ Gone(j)
  /\ sub[j] \in {"uncount", "remove"} => Outcomes(j) > 0
  /\ sub[j] \in {"idle", "reschedule"} => InDb(j) \/ Gone(j) \/ Waiting(j)

\* A query knows why it removes a job.
Ends(q) ==
  /\ apc[q] \in {"update", "count", "remove"} => cur[q][3] \in Final
  /\ apc[q] \in {"count", "remove"} /\ cur[q][3] = "PURGED" => PurgedOnCream(cur[q][1])
  /\ apc[q] = "purge" => Outcomes(cur[q][1]) > 0

\* So does a thread of the logging pool.
Aborts(l) == lpc[l] = "remove" => lcur[l] \in Jobs /\ aborted[lcur[l]] > 0

MemoryInv ==
  /\ Base
  /\ Alive
  /\ \A j \in Jobs : Remembered(j)
  /\ \A q \in Queries : Ends(q)
  /\ \A l \in Loggers : Aborts(l)

\* A known outcome stays known.
LEMMA OutcomesStay ==
  ASSUME OutOK, OutOK', Counted, NEW j \in Jobs, Outcomes(j) > 0
  PROVE  Outcomes(j)' > 0
<1> DEFINE b == IF j \in ended THEN 1 ELSE 0
           c == IF j \in ended' THEN 1 ELSE 0
<1>1. b \in Nat /\ c \in Nat /\ b <= c
  BY DEF Counted
<1>2. /\ resub[j] \in Nat /\ aborted[j] \in Nat /\ resub'[j] \in Nat /\ aborted'[j] \in Nat
      /\ resub[j] <= resub'[j] /\ aborted[j] <= aborted'[j]
  BY DEF OutOK, Counted
<1>3. resub[j] + aborted[j] + b > 0
  BY DEF Outcomes
<1>4. Outcomes(j)' = resub'[j] + aborted'[j] + c
  BY DEF Outcomes
<1> HIDE DEF b, c
<1> QED
  BY <1>1, <1>2, <1>3, <1>4

\* What counts as an outcome
LEMMA OutcomeKnown ==
  ASSUME OutOK', NEW j \in Jobs,
         resub'[j] + aborted'[j] > 0 \/ aborted'[j] > 0 \/ j \in ended'
  PROVE  Outcomes(j)' > 0
<1> DEFINE c == IF j \in ended' THEN 1 ELSE 0
<1>1. c \in Nat /\ (j \in ended' => c = 1)
  OBVIOUS
<1>2. resub'[j] \in Nat /\ aborted'[j] \in Nat
  BY DEF OutOK
<1>3. Outcomes(j)' = resub'[j] + aborted'[j] + c
  BY DEF Outcomes
<1> HIDE DEF c
<1> QED
  BY <1>1, <1>2, <1>3

\* A purge stays a purge.
LEMMA PurgeStays ==
  ASSUME CreamOK, CreamOK', Grows, NEW j \in Jobs, PurgedOnCream(j)
  PROVE  PurgedOnCream(j)'
<1>1. PICK k \in 1 .. Len(cream[j]) : cream[j][k].st = "PURGED"
  BY DEF PurgedOnCream
<1>2. k \in 1 .. Len(cream'[j])
  <2> DEFINE m == Len(cream[j])  n == Len(cream'[j])
  <2>1. m \in Nat /\ n \in Nat /\ m <= n
    BY LenProperties DEF CreamOK, Grows
  <2>2. k \in 1 .. m
    OBVIOUS
  <2> HIDE DEF m, n
  <2>3. k \in 1 .. n
    BY <2>1, <2>2
  <2> QED
    BY <2>3 DEF n
<1>3. cream'[j][k].st = "PURGED"
  BY <1>1 DEF Grows
<1> QED
  BY <1>2, <1>3 DEF PurgedOnCream

\* What is gone stays gone.
LEMMA GoneStays ==
  ASSUME Base, Next \/ UNCHANGED vars, ~ Crash, NEW j \in Jobs, Gone(j)
  PROVE  Gone(j)'
<1>0. Base' /\ Grows /\ Counted
  BY BaseNext
<1>1. CASE Outcomes(j) > 0
  BY <1>0, <1>1, OutcomesStay DEF Gone, Base
<1>2. CASE PurgedOnCream(j)
  BY <1>0, <1>2, PurgeStays DEF Gone, Base
<1>3. ASSUME NEW q \in Queries, apc[q] = "resubmit", cur[q][1] = j PROVE Gone(j)'
  <2>1. CASE apc'[q] = apc[q] /\ cur'[q] = cur[q]
    BY <1>3, <2>1 DEF Gone
  <2>2. CASE EndJob(q)
    <3>1. Resubmit(q)
      BY <1>3, <2>2 DEF EndJob, UpdateStatus, UncountJob, RemoveEnded, PurgeJob
    <3>2. resub'[j] + aborted'[j] > 0
      BY <1>3, <3>1, ResubmitCounts DEF Resubmit, Base
    <3> QED
      BY <1>0, <3>2, OutcomeKnown DEF Gone, Base
  <2>3. ~ Query(q)
    BY <1>3 DEF Query, Poll, QueryEvents, QueryFails, QueryWithoutProxy, SetEventId, NextJob
  <2> QED
    BY <2>1, <2>2, <2>3, QuerySteps
<1> QED
  BY <1>1, <1>2, <1>3 DEF Gone

\* A row only goes when the outcome is known or a command goes on with the job.
LEMMA RowGoes ==
  ASSUME crashes' = 0, MemoryInv, Next \/ UNCHANGED vars,
         NEW j \in Jobs, InDb(j), ~ InDb(j)'
  PROVE  Gone(j)' \/ sub'[j] \in {"release", "create"}
<1>0. Base /\ Base' /\ Grows /\ Counted
  BY BaseNext DEF MemoryInv
<1>1. /\ ~ Crash
      /\ \/ MainLoop \/ World \/ UNCHANGED vars
         \/ \E i \in Jobs : Command(i)
         \/ \E q \in Queries : Query(q) \/ EndJob(q)
         \/ \E l \in Loggers : Logging(l)
  BY StaysAlive DEF MemoryInv, Crash, Alive
<1>2. ~ UNCHANGED rowVars
  BY DEF rowVars, InDb
<1>3. ASSUME NEW st, NEW x, Update(x, st), st # "none" PROVE FALSE
  BY <1>0, <1>3, UpdateRow DEF InDb, Base
<1>4. ASSUME NEW x, RemoveJob(x) PROVE x = j
  BY <1>0, <1>4 DEF RemoveJob, InDb, Base, RowsOK
<1>5. ASSUME NEW i \in Jobs, Command(i) PROVE Gone(j)' \/ sub'[j] \in {"release", "create"}
  <2>0. sub \in [Jobs -> CommandSteps]
    BY <1>0 DEF Base, RowsOK
  <2>1. CASE Reschedule(i) \/ Lookup(i)
    <3>1. RemoveJob(i) /\ (Goto(i, "release") \/ Goto(i, "create"))
      BY <1>2, <2>1 DEF Reschedule, Lookup
    <3> QED
      BY <1>4, <2>0, <3>1 DEF Goto
  <2>2. CASE Remove(i)
    <3>1. i = j /\ sub[j] = "remove"
      BY <1>4, <2>2 DEF Remove
    <3>2. Gone(j)
      BY <3>1 DEF MemoryInv, Remembered, Gone
    <3> QED
      BY <1>0, <1>1, <3>2, GoneStays
  <2>3. CASE CreateJob(i)
    BY <1>0, <2>3 DEF CreateJob, InDb, Base, RowsOK
  <2>4. CASE Record(i) \/ Started(i)
    BY <1>3, <2>4 DEF Record, Started
  <2>5. CASE \E w \in {"submit", "reschedule"} : TakeCommand(<<i, w>>)
    BY <1>2, <2>5 DEF TakeCommand
  <2>6. CASE \/ Release(i) \/ Count(i) \/ Delegate(i)
             \/ SetBetterProxy(i) \/ Register(i) \/ RegisterTimesOut(i)
             \/ Redelegate(i) \/ SubmitFails(i) \/ BlackListed(i) \/ Start(i) \/ StartFails(i)
             \/ GiveBack(i) \/ Uncount(i) \/ PurgeRequest(i)
    BY <1>2, <2>6 DEF Release, Count, Delegate, SetBetterProxy,
       Register, RegisterTimesOut, Redelegate,
       SubmitFails, BlackListed, Start, StartFails, GiveBack, Uncount, PurgeRequest
  <2> QED
    BY <1>5, <2>1, <2>2, <2>3, <2>4, <2>5, <2>6 DEF Command
<1>6. ASSUME NEW q \in Queries, EndJob(q) PROVE Gone(j)'
  <2>0. q \in Actors
    BY DEF Actors
  <2>1. CASE UpdateStatus(q)
    <3>1. cur[q][3] # "none" /\ Update(cur[q][1], cur[q][3])
      BY <1>0, <2>1 DEF UpdateStatus, Base, QueriesOK, Terminal
    <3> QED
      BY <1>3, <3>1
  <2>2. CASE RemoveEnded(q)
    <3>1. cur[q][1] = j /\ apc[q] = "remove"
      BY <1>4, <2>2 DEF RemoveEnded
    <3>2. cur[q][3] \in Final /\ (cur[q][3] = "PURGED" => PurgedOnCream(j))
      BY <3>1 DEF MemoryInv, Ends
    <3>3. CASE cur[q][3] = "PURGED"
      <4>1. Gone(j)
        BY <3>2, <3>3 DEF Gone
      <4> QED
        BY <1>0, <1>1, <4>1, GoneStays
    <3>4. CASE cur[q][3] \in {"DONE_OK", "CANCELLED"}
      <4>1. j \in ended'
        BY <2>2, <3>1, <3>4 DEF RemoveEnded
      <4> QED
        BY <1>0, <4>1, OutcomeKnown DEF Gone, Base
    <3>5. CASE cur[q][3] = "FAILED"
      <4>1. apc'[q] = "resubmit" /\ cur'[q] = cur[q]
        BY <1>0, <2>0, <2>2, <3>5 DEF RemoveEnded, Base, QueriesOK
      <4> QED
        BY <3>1, <4>1 DEF Gone
    <3> QED
      BY <3>2, <3>3, <3>4, <3>5 DEF Final, Terminal
  <2>3. CASE UncountJob(q) \/ Resubmit(q) \/ PurgeJob(q)
    BY <1>2, <2>3 DEF UncountJob, Resubmit, PurgeJob
  <2> QED
    BY <1>6, <2>1, <2>2, <2>3 DEF EndJob
<1>7. ASSUME NEW l \in Loggers, Logging(l) PROVE Gone(j)'
  <2>1. CASE RemoveAborted(l)
    <3>1. lcur[l] = j /\ lpc[l] = "remove"
      BY <1>4, <2>1 DEF RemoveAborted
    <3>2. aborted[j] > 0
      BY <3>1 DEF MemoryInv, Aborts
    <3>3. aborted'[j] = aborted[j]
      BY <2>1 DEF RemoveAborted, outVars
    <3> QED
      BY <1>0, <3>2, <3>3, OutcomeKnown DEF Gone, Base
  <2>2. CASE \/ TakeJobs(l) \/ UncountAborted(l) \/ JobsLogged(l)
             \/ \E i \in Jobs : \E k \in 0 .. Len(cream[i]) : LogAbort(l, i, k)
    BY <1>2, <2>2 DEF TakeJobs, UncountAborted, JobsLogged, LogAbort
  <2> QED
    BY <1>7, <2>1, <2>2 DEF Logging
<1>8. ASSUME NEW q \in Queries, Query(q) PROVE FALSE
  BY <1>2, <1>8, QueryFrame
<1>9. ASSUME MainLoop \/ World \/ UNCHANGED vars PROVE FALSE
  BY <1>2, <1>9, MainLoopFrame, WorldFrame DEF vars
<1> QED
  BY <1>1, <1>5, <1>6, <1>7, <1>8, <1>9

\* A request that waits goes on waiting until its command is taken, or is
\* rejected, which is an outcome.
LEMMA WaitingSteps ==
  ASSUME crashes' = 0, MemoryInv, Next \/ UNCHANGED vars, NEW j \in Jobs, Waiting(j),
         ~ Command(j)
  PROVE  Waiting(j)' \/ Outcomes(j)' > 0
<1> DEFINE s == <<j, "submit">>
<1>0. Base /\ Base' /\ s \in Requests
  BY BaseNext DEF MemoryInv, Requests
<1>1. \/ MainLoop \/ World \/ UNCHANGED vars
      \/ \E i \in Jobs : Command(i)
      \/ \E q \in Queries : Query(q) \/ EndJob(q)
      \/ \E l \in Loggers : Logging(l)
  BY StaysAlive DEF MemoryInv
<1>2. /\ file \in [Requests -> {"new", "old", "none"}] /\ pool \in [Requests -> Nat]
  BY <1>0 DEF Base, RequestsOK
<1>3. Waiting(j) <=> file[s] # "none" \/ pool[s] > 0
  BY DEF Waiting
<1>4. Waiting(j)' <=> file'[s] # "none" \/ pool'[s] > 0
  BY DEF Waiting
<1> HIDE DEF s
<1>5. ASSUME file'[s] = file[s], pool'[s] = pool[s] PROVE Waiting(j)'
  BY <1>3, <1>4, <1>5
<1>6. ASSUME MainLoop PROVE Waiting(j)' \/ Outcomes(j)' > 0
  <2>1. ASSUME NEW r \in Requests, ReadRequest(r) PROVE Waiting(j)'
    <3>1. /\ file' = [file EXCEPT ![r] = "old"] /\ pool' = [pool EXCEPT ![r] = @ + 1]
      BY <2>1 DEF ReadRequest
    <3>2. CASE r = s
      BY <1>0, <1>2, <1>4, <3>1, <3>2
    <3>3. CASE r # s
      BY <1>0, <1>2, <1>5, <3>1, <3>3
    <3> QED
      BY <3>2, <3>3
  <2>2. ASSUME NEW r \in Requests, PostponeRequest(r) PROVE Waiting(j)'
    <3>1. /\ file' = [file EXCEPT ![r] = "old"] /\ pool' = pool
      BY <2>2 DEF PostponeRequest
    <3>2. CASE r = s
      BY <1>0, <1>2, <1>4, <3>1, <3>2
    <3>3. CASE r # s
      BY <1>0, <1>2, <1>5, <3>1, <3>3
    <3> QED
      BY <3>2, <3>3
  <2>3. ASSUME NEW r \in Requests, RejectRequest(r) PROVE Waiting(j)' \/ Outcomes(j)' > 0
    <3>1. /\ file' = [file EXCEPT ![r] = "none"] /\ pool' = pool
          /\ aborted' = [aborted EXCEPT ![r[1]] = @ + 1]
      BY <2>3 DEF RejectRequest
    <3>2. CASE r = s
      <4>1. r[1] = j
        BY <3>2 DEF s
      <4>2. aborted'[j] > 0
        BY <1>0, <3>1, <4>1, AbortCounts DEF Base
      <4> QED
        BY <1>0, <4>2, OutcomeKnown DEF Base
    <3>3. CASE r # s
      BY <1>0, <1>2, <1>5, <3>1, <3>3
    <3> QED
      BY <3>2, <3>3
  <2>4. ASSUME Recycle PROVE Waiting(j)'
    <3>1. /\ file' = [r \in Requests |-> IF file[r] = "old" THEN "new" ELSE file[r]]
          /\ pool' = pool
      BY <2>4 DEF Recycle
    <3> QED
      BY <1>0, <1>3, <1>4, <3>1
  <2> QED
    BY <1>6, <2>1, <2>2, <2>3, <2>4 DEF MainLoop
<1>7. ASSUME NEW i \in Jobs, Command(i) PROVE Waiting(j)'
  <2>0. i # j
    BY <1>7
  <2>1. ASSUME NEW w \in {"submit", "reschedule"}, TakeCommand(<<i, w>>) PROVE Waiting(j)'
    <3>1. file' = file /\ pool' = [pool EXCEPT ![<<i, w>>] = @ - 1] /\ <<i, w>> # s
      BY <2>0, <2>1 DEF TakeCommand, s
    <3> QED
      BY <1>0, <1>2, <1>5, <3>1
  <2>2. CASE PurgeRequest(i)
    <3>1. pool' = pool /\ \E x : file' = [file EXCEPT ![<<i, kind[i]>>] = x]
      BY <2>2 DEF PurgeRequest
    <3>2. <<i, kind[i]>> # s
      BY <2>0 DEF s
    <3> QED
      BY <1>0, <1>2, <1>5, <3>1, <3>2
  <2>3. CASE \/ Reschedule(i) \/ Release(i) \/ Lookup(i) \/ CreateJob(i) \/ Count(i)
             \/ Delegate(i)
             \/ SetBetterProxy(i) \/ Register(i) \/ RegisterTimesOut(i) \/ Redelegate(i)
    BY <1>5, <2>3 DEF Reschedule, Release, Lookup, CreateJob, Count, Delegate, SetBetterProxy,
       Register,
       RegisterTimesOut, Redelegate, dirVars
  <2>4. CASE \/ SubmitFails(i) \/ BlackListed(i) \/ Record(i) \/ Start(i) \/ StartFails(i)
             \/ Started(i) \/ GiveBack(i) \/ Uncount(i) \/ Remove(i)
    BY <1>5, <2>4 DEF SubmitFails, BlackListed, Record, Start, StartFails, Started, GiveBack,
       Uncount, Remove, dirVars
  <2> QED
    BY <1>7, <2>1, <2>2, <2>3, <2>4 DEF Command
<1>8. ASSUME NEW q \in Queries, Query(q) \/ EndJob(q) PROVE Waiting(j)'
  BY <1>5, <1>8, QueryFrame, EndJobFrame DEF dirVars, Actors
<1>9. ASSUME NEW l \in Loggers, Logging(l) PROVE Waiting(j)'
  BY <1>5, <1>9, LoggingFrame DEF dirVars
<1>10. ASSUME World PROVE Waiting(j)'
  <2>1. pool' = pool
    BY <1>10, WorldFrame
  <2>2. file' = file \/ \E i \in Jobs : file' = [file EXCEPT ![<<i, "reschedule">>] = "new"]
    BY <1>10 DEF World, Cancel, Replan, CreamRun, CreamPurge, CreamEnd, dirVars
  <2>3. \A i \in Jobs : <<i, "reschedule">> # s
    BY DEF s
  <2> QED
    BY <1>0, <1>2, <1>5, <2>1, <2>2, <2>3
<1>11. CASE UNCHANGED vars
  BY <1>5, <1>11 DEF vars, dirVars
<1> QED
  BY <1>1, <1>6, <1>7, <1>8, <1>9, <1>10, <1>11

\* Every step remembers every job.
LEMMA RememberedNext ==
  ASSUME crashes' = 0, MemoryInv, Next \/ UNCHANGED vars, NEW j \in Jobs
  PROVE  Remembered(j)'
<1>0. Base /\ Base' /\ Counted /\ ~ Crash
  BY BaseNext DEF MemoryInv, Crash, Alive
<1>1. Remembered(j)
  BY DEF MemoryInv
<1>2. ASSUME InDb(j) \/ Gone(j) PROVE InDb(j)' \/ Gone(j)' \/ sub'[j] \in {"release", "create"}
  BY <1>0, <1>2, RowGoes, GoneStays
<1>3. ASSUME Outcomes(j) > 0 PROVE Outcomes(j)' > 0
  BY <1>0, <1>3, OutcomesStay DEF Base
<1>4. CASE ~ Command(j)
  <2>1. sub'[j] = sub[j]
    BY <1>0, <1>4, SubSteps
  <2>2. CASE sub[j] \in HasRow
    <3>1. InDb(j)' \/ Gone(j)'
      BY <1>1, <1>2, <2>1, <2>2 DEF Remembered, HasRow
    <3> QED
      BY <2>1, <2>2, <3>1 DEF Remembered, HasRow
  <2>3. CASE sub[j] \in {"uncount", "remove"}
    <3>1. Outcomes(j)' > 0
      BY <1>1, <1>3, <2>3 DEF Remembered
    <3> QED
      BY <2>1, <2>3, <3>1 DEF Remembered, HasRow
  <2>4. CASE sub[j] \in {"idle", "reschedule"}
    <3>1. CASE InDb(j) \/ Gone(j)
      <4>1. InDb(j)' \/ Gone(j)'
        BY <1>2, <2>1, <2>4, <3>1
      <4> QED
        BY <2>1, <2>4, <4>1 DEF Remembered, HasRow
    <3>2. CASE Waiting(j)
      <4>1. Waiting(j)' \/ Outcomes(j)' > 0
        BY <1>4, <3>2, WaitingSteps
      <4> QED
        BY <2>1, <2>4, <4>1 DEF Remembered, HasRow, Gone
    <3> QED
      BY <1>1, <2>4, <3>1, <3>2 DEF Remembered
  <2>5. CASE sub[j] \notin HasRow \cup {"uncount", "remove", "idle", "reschedule"}
    BY <2>1, <2>5 DEF Remembered
  <2> QED
    BY <2>2, <2>3, <2>4, <2>5
<1>5. ASSUME Command(j) PROVE Remembered(j)'
  <2>0. sub \in [Jobs -> CommandSteps] /\ <<j, "submit">> \in Requests
    BY <1>0 DEF Base, RowsOK, Requests
  <2>1. ASSUME sub[j] \in HasRow, sub'[j] \in HasRow PROVE Remembered(j)'
    <3>1. InDb(j)' \/ Gone(j)'
      BY <1>1, <1>2, <2>1 DEF Remembered, HasRow
    <3> QED
      BY <2>1, <3>1 DEF Remembered, HasRow
  <2>2. ASSUME sub'[j] \in {"lookup", "release", "create", "fail"} PROVE Remembered(j)'
    BY <2>2 DEF Remembered, HasRow
  <2>3. ASSUME NEW w \in {"submit", "reschedule"}, TakeCommand(<<j, w>>) PROVE Remembered(j)'
    <3>1. /\ sub[j] = "idle" /\ sub'[j] = (IF w = "submit" THEN "lookup" ELSE "reschedule")
          /\ file' = file /\ pool' = [pool EXCEPT ![<<j, w>>] = @ - 1]
      BY <2>0, <2>3 DEF TakeCommand, Goto
    <3>2. CASE w = "reschedule"
      <4>1. Waiting(j)' <=> Waiting(j)
        <5>1. pool'[<<j, "submit">>] = pool[<<j, "submit">>]
          BY <1>0, <2>0, <3>1, <3>2 DEF Base, RequestsOK
        <5> QED
          BY <3>1, <5>1 DEF Waiting
      <4>2. InDb(j)' \/ Gone(j)' \/ Waiting(j)'
        BY <1>1, <1>2, <3>1, <3>2, <4>1 DEF Remembered
      <4> QED
        BY <3>1, <3>2, <4>2 DEF Remembered, HasRow
    <3> QED
      BY <2>2, <3>1, <3>2
  <2>4. CASE Reschedule(j)
    <3>1. CASE Goto(j, "release")
      BY <2>0, <2>2, <3>1 DEF Goto
    <3>2. CASE Goto(j, "idle")
      <4>1. /\ sub[j] = "reschedule" /\ sub'[j] = "idle" /\ file' = file /\ pool' = pool
        BY <2>0, <2>4, <3>2 DEF Reschedule, Goto, dirVars
      <4>2. Waiting(j)' <=> Waiting(j)
        BY <4>1 DEF Waiting
      <4>3. InDb(j)' \/ Gone(j)' \/ Waiting(j)'
        BY <1>1, <1>2, <4>1, <4>2 DEF Remembered
      <4> QED
        BY <4>1, <4>3 DEF Remembered, HasRow
    <3> QED
      BY <2>4, <3>1, <3>2 DEF Reschedule
  <2>5. CASE Lookup(j)
    <3>1. \/ sub'[j] = "create"
          \/ sub'[j] \in {"start", "purge"} /\ db[j] # "none" /\ db' = db
      BY <2>0, <2>5 DEF Lookup, Goto, rowVars
    <3> QED
      BY <2>2, <3>1 DEF Remembered, HasRow, InDb
  <2>6. CASE CreateJob(j)
    <3>1. sub'[j] = "count" /\ db'[j] = "UNKNOWN"
      BY <1>0, <2>0, <2>6 DEF CreateJob, Goto, Base, RowsOK
    <3> QED
      BY <3>1 DEF Remembered, InDb
  <2>7. CASE \/ Count(j) \/ Delegate(j)
             \/ SetBetterProxy(j) \/ Register(j) \/ RegisterTimesOut(j) \/ Redelegate(j)
             \/ Record(j) \/ Start(j) \/ Started(j)
    <3>1. sub[j] \in HasRow /\ (sub'[j] \in HasRow \/ sub'[j] = "fail")
      BY <2>0, <2>7 DEF Count, Delegate, SetBetterProxy,
         Register, RegisterTimesOut, Redelegate, Record,
         Start, Started, Goto, HasRow
    <3> QED
      BY <2>1, <2>2, <3>1
  <2>8. CASE Release(j) \/ SubmitFails(j) \/ StartFails(j)
    BY <2>0, <2>2, <2>8 DEF Release, SubmitFails, StartFails, Goto
  <2>9. CASE BlackListed(j)
    <3>1. sub'[j] = "purge" /\ aborted' = [aborted EXCEPT ![j] = @ + 1]
      BY <2>0, <2>9 DEF BlackListed, Goto
    <3>2. aborted'[j] > 0
      BY <1>0, <3>1, AbortCounts DEF Base
    <3>3. Gone(j)'
      BY <1>0, <3>2, OutcomeKnown DEF Gone, Base
    <3> QED
      BY <3>1, <3>3 DEF Remembered
  <2>10. CASE GiveBack(j)
    <3>1. sub'[j] = "uncount" /\ ResubmitJob(j)
      BY <2>0, <2>10 DEF GiveBack, Goto
    <3>2. Outcomes(j)' > 0
      BY <1>0, <3>1, ResubmitCounts, OutcomeKnown DEF Base
    <3> QED
      BY <3>1, <3>2 DEF Remembered, HasRow
  <2>11. CASE Uncount(j) \/ Remove(j)
    <3>1. sub[j] \in {"uncount", "remove"} /\ sub'[j] \in {"remove", "purge"}
      BY <2>0, <2>11 DEF Uncount, Remove, Goto
    <3>2. Outcomes(j)' > 0
      BY <1>1, <1>3, <3>1 DEF Remembered
    <3> QED
      BY <3>1, <3>2 DEF Remembered, Gone
  <2>12. CASE PurgeRequest(j)
    <3>1. sub[j] = "purge" /\ sub'[j] = "idle"
      BY <2>0, <2>12 DEF PurgeRequest, Goto
    <3>2. InDb(j)' \/ Gone(j)'
      BY <1>1, <1>2, <3>1 DEF Remembered, HasRow
    <3> QED
      BY <3>1, <3>2 DEF Remembered, HasRow
  <2> QED
    BY <1>5, <2>3, <2>4, <2>5, <2>6, <2>7, <2>8, <2>9, <2>10, <2>11, <2>12 DEF Command
<1> QED
  BY <1>4, <1>5

\* Every step keeps the reasons of the queries.
LEMMA EndsNext ==
  ASSUME crashes' = 0, MemoryInv, Next \/ UNCHANGED vars, NEW q \in Queries
  PROVE  Ends(q)'
<1>0. /\ Base /\ Base' /\ Grows /\ Counted /\ ~ Crash
      /\ q \in Actors /\ apc \in [Actors -> ActorSteps] /\ cur \in [Actors -> Tasks \cup {Nobody}]
  <2>1. Base /\ ~ Crash
    BY DEF MemoryInv, Crash, Alive
  <2>2. Base' /\ Grows /\ Counted
    BY <2>1, BaseNext
  <2> QED
    BY <2>1, <2>2 DEF Actors, Base, QueriesOK
<1>1. Ends(q)
  BY DEF MemoryInv
<1>2. CASE apc'[q] \notin Ending
  BY <1>2 DEF Ends, Ending
<1>3. ASSUME apc[q] \in Ending, cur'[q] = cur[q], apc'[q] = apc[q] PROVE Ends(q)'
  <2>1. PICK j \in Jobs : j = cur[q][1]
    BY <1>0, <1>3 DEF Base, QueriesOK, Tasks
  <2>2. PurgedOnCream(j) => PurgedOnCream(j)'
    BY <1>0, PurgeStays DEF Base
  <2>3. Outcomes(j) > 0 => Outcomes(j)' > 0
    BY <1>0, OutcomesStay DEF Base
  <2>4. cur'[q][1] = j /\ cur'[q][3] = cur[q][3]
    BY <1>3, <2>1
  <2>5. /\ apc[q] \in {"update", "count", "remove"} => cur[q][3] \in Final
        /\ apc[q] \in {"count", "remove"} /\ cur[q][3] = "PURGED" => PurgedOnCream(j)
        /\ apc[q] = "purge" => Outcomes(j) > 0
    BY <1>1, <2>1 DEF Ends
  <2>6. /\ apc'[q] \in {"update", "count", "remove"} => cur'[q][3] \in Final
        /\ apc'[q] \in {"count", "remove"} /\ cur'[q][3] = "PURGED" => PurgedOnCream(j)'
        /\ apc'[q] = "purge" => Outcomes(j)' > 0
    BY <1>3, <2>2, <2>3, <2>4, <2>5
  <2> QED
    BY <2>4, <2>6 DEF Ends, PurgedOnCream, Outcomes
<1>4. ASSUME Query(q) PROVE Ends(q)'
  <2>1. CASE Poll(q) \/ QueryFails(q) \/ QueryWithoutProxy(q) \/ SetEventId(q)
    BY <1>0, <1>2, <2>1 DEF Poll, QueryFails, QueryWithoutProxy, SetEventId, Ending
  <2>2. CASE QueryEvents(q)
    BY <1>0, <1>2, <2>2 DEF QueryEvents, Ending
  <2>3. ASSUME NEW j \in Jobs, NEW k \in 1 .. Len(cream[j]), NextJob(q, j, k) PROVE Ends(q)'
    <3>1. CASE UNCHANGED apc
      <4>1. apc'[q] = "next"
        BY <2>3, <3>1 DEF NextJob
      <4> QED
        BY <4>1, <1>2 DEF Ending
    <3>2. CASE /\ cur' = [cur EXCEPT ![q] = <<j, k, LastEvent(j, k, upto[q])>>]
               /\ apc' = [apc EXCEPT ![q] = IF LastEvent(j, k, upto[q]) = "PURGED" THEN "count" ELSE "update"]
      <4> DEFINE st == LastEvent(j, k, upto[q])
      <4>1. cream' = cream
        BY <2>3 DEF NextJob, creamVars
      <4>2. PICK i \in 1 .. upto[q] : events[i][1] = j /\ events[i][2] = k
        <5>1. <<j, k>> \in todo[q]
          BY <2>3 DEF NextJob
        <5>2. \A p \in todo[q] : \E i \in 1 .. upto[q] : events[i][1] = p[1] /\ events[i][2] = p[2]
          BY <1>0 DEF Base, QueriesOK
        <5> QED
          BY <5>1, <5>2
      <4>3. upto[q] \in Nat /\ upto[q] <= Len(events) /\ Len(events) \in Nat
        BY <1>0, LenProperties DEF Base, QueriesOK, CreamOK
      <4>4. PICK h \in 1 .. upto[q] : /\ events[h][1] = j /\ events[h][2] = k
                                      /\ events[h][3] = st /\ st \in Final
        <5>1. CreamOK
          BY <1>0 DEF Base
        <5> QED
          BY <5>1, <4>2, <4>3, LastEventFacts
      <4> HIDE DEF st
      <4>5. h \in 1 .. Len(events)
        BY <4>3
      <4>6. st = "PURGED" => cream[j][k].st = "PURGED"
        BY <1>0, <4>4, <4>5 DEF Base, CreamOK
      <4>7. st = "PURGED" => PurgedOnCream(j)'
        BY <4>1, <4>6 DEF PurgedOnCream
      <4>8. cur'[q][1] = j /\ cur'[q][3] = st /\ apc'[q] \in {"count", "update"}
        BY <1>0, <3>2 DEF st
      <4>9. PurgedOnCream(cur[q][1])' <=> PurgedOnCream(j)'
        BY <4>8 DEF PurgedOnCream
      <4> QED
        BY <4>4, <4>7, <4>8, <4>9 DEF Ends
    <3> QED
      BY <2>3, <3>1, <3>2 DEF NextJob
  <2> QED
    BY <1>4, <2>1, <2>2, <2>3 DEF Query
<1>5. ASSUME EndJob(q) PROVE Ends(q)'
  <2>0. PICK j \in Jobs : j = cur[q][1]
    <3>1. apc[q] \in Ending
      BY <1>5 DEF EndJob, UpdateStatus, UncountJob, RemoveEnded, Resubmit, PurgeJob, Ending
    <3> QED
      BY <1>0, <3>1 DEF Base, QueriesOK, Tasks
  <2>1. CASE UpdateStatus(q) \/ UncountJob(q)
    <3>1. /\ cur' = cur /\ cream' = cream /\ apc[q] \in {"update", "count"}
          /\ apc'[q] \in {"count", "remove"}
          /\ apc[q] = "update" => cur[q][3] \in Terminal
      BY <1>0, <2>1 DEF UpdateStatus, UncountJob, creamVars, Base, QueriesOK
    <3> QED
      BY <1>1, <3>1 DEF Ends, PurgedOnCream, Terminal
  <2>2. CASE RemoveEnded(q)
    <3>1. CASE cur[q][3] = "PURGED"
      <4>1. apc'[q] = "next"
        BY <1>0, <2>2, <3>1 DEF RemoveEnded, Done
      <4> QED
        BY <4>1, <1>2 DEF Ending
    <3>2. CASE cur[q][3] = "FAILED"
      <4>1. apc'[q] = "resubmit"
        BY <1>0, <2>2, <3>2 DEF RemoveEnded
      <4> QED
        BY <4>1 DEF Ends
    <3>3. CASE cur[q][3] \in {"DONE_OK", "CANCELLED"}
      <4>1. apc'[q] = "purge" /\ cur'[q] = cur[q] /\ j \in ended'
        BY <1>0, <2>0, <2>2, <3>3 DEF RemoveEnded
      <4>2. Outcomes(j)' > 0
        BY <1>0, <4>1, OutcomeKnown DEF Base
      <4> QED
        BY <2>0, <4>1, <4>2 DEF Ends, Outcomes
    <3>4. cur[q][3] \in Final
      BY <1>1, <2>2 DEF Ends, RemoveEnded
    <3> QED
      BY <3>1, <3>2, <3>3, <3>4 DEF Final, Terminal
  <2>3. CASE Resubmit(q)
    <3>1. apc'[q] = "purge" /\ cur'[q] = cur[q] /\ ResubmitJob(j)
      BY <1>0, <2>0, <2>3 DEF Resubmit
    <3>2. Outcomes(j)' > 0
      BY <1>0, <3>1, ResubmitCounts, OutcomeKnown DEF Base
    <3> QED
      BY <2>0, <3>1, <3>2 DEF Ends, Outcomes
  <2>4. CASE PurgeJob(q)
    <3>1. apc'[q] = "next"
      BY <1>0, <2>4 DEF PurgeJob, Done
    <3> QED
      BY <3>1, <1>2 DEF Ending
  <2> QED
    BY <1>5, <2>1, <2>2, <2>3, <2>4 DEF EndJob
<1> QED
  BY <1>0, <1>2, <1>3, <1>4, <1>5, QuerySteps

\* Every step keeps the reasons of the logging threads.
LEMMA AbortsNext ==
  ASSUME crashes' = 0, MemoryInv, Next \/ UNCHANGED vars, NEW l \in Loggers
  PROVE  Aborts(l)'
<1>0. /\ Base /\ Base' /\ Counted /\ Aborts(l)
      /\ lpc \in [Loggers -> LoggerSteps] /\ lcur \in [Loggers -> Jobs \cup {Nobody}]
      /\ aborted \in [Jobs -> Nat] /\ aborted' \in [Jobs -> Nat]
      /\ \A j \in Jobs : aborted[j] <= aborted'[j]
  BY BaseNext DEF MemoryInv, Base, OutOK, Counted
<1>1. \/ MainLoop \/ World \/ UNCHANGED vars
      \/ \E j \in Jobs : Command(j)
      \/ \E q \in Queries : Query(q) \/ EndJob(q)
      \/ \E m \in Loggers : Logging(m)
  BY StaysAlive DEF MemoryInv
<1>2. CASE lpc'[l] = lpc[l] /\ lcur'[l] = lcur[l]
  BY <1>0, <1>2 DEF Aborts
<1>3. CASE UNCHANGED logVars
  BY <1>2, <1>3 DEF logVars
<1>4. ASSUME NEW m \in Loggers, Logging(m) PROVE Aborts(l)'
  <2>1. ASSUME NEW x, NEW y, lpc' = [lpc EXCEPT ![m] = x], lcur' = [lcur EXCEPT ![m] = y] \/ lcur' = lcur,
               m # l \/ x # "remove"
        PROVE  Aborts(l)'
    <3>1. CASE m # l
      BY <1>0, <1>2, <2>1, <3>1
    <3>2. CASE m = l
      BY <1>0, <2>1, <3>2 DEF Aborts
    <3> QED
      BY <3>1, <3>2
  <2>2. CASE TakeJobs(m) \/ RemoveAborted(m) \/ UncountAborted(m) \/ JobsLogged(m)
    <3>1. \E x \in {"check", "count", "idle"} : lpc' = [lpc EXCEPT ![m] = x]
      BY <2>2 DEF TakeJobs, RemoveAborted, UncountAborted, JobsLogged
    <3>2. lcur' = lcur \/ \E y : lcur' = [lcur EXCEPT ![m] = y]
      BY <2>2 DEF TakeJobs, RemoveAborted, UncountAborted, JobsLogged
    <3> QED
      BY <2>1, <3>1, <3>2
  <2>3. ASSUME NEW j \in Jobs, NEW k \in 0 .. Len(cream[j]), LogAbort(m, j, k) PROVE Aborts(l)'
    <3>1. CASE UNCHANGED <<lpc, lcur>>
      BY <1>2, <3>1
    <3>2. CASE /\ aborted' = [aborted EXCEPT ![j] = @ + 1]
               /\ lcur' = [lcur EXCEPT ![m] = j]
               /\ lpc' = [lpc EXCEPT ![m] = "remove"]
      <4>1. CASE m # l
        BY <2>1, <3>2, <4>1
      <4>2. CASE m = l
        <5>1. lcur'[l] = j /\ aborted'[j] > 0
          BY <1>0, <3>2, <4>2, AbortCounts DEF Base
        <5> QED
          BY <5>1 DEF Aborts
      <4> QED
        BY <4>1, <4>2
    <3> QED
      BY <2>3, <3>1, <3>2 DEF LogAbort
  <2> QED
    BY <1>4, <2>2, <2>3 DEF Logging
<1>5. ASSUME NEW q \in Queries, Query(q) \/ EndJob(q) PROVE UNCHANGED <<lpc, lcur>>
  BY <1>5, QueryFrame, EndJobFrame DEF logVars, Actors
<1>6. ASSUME NEW j \in Jobs, Command(j) PROVE UNCHANGED <<lpc, lcur>>
  BY <1>6, CommandFrame DEF logVars
<1>7. ASSUME MainLoop \/ World \/ UNCHANGED vars PROVE UNCHANGED <<lpc, lcur>>
  BY <1>7, MainLoopFrame, WorldFrame DEF logVars, vars
<1> QED
  BY <1>1, <1>2, <1>4, <1>5, <1>6, <1>7

\* Until ICE crashes, a job given to it is never forgotten: from the request
\* to the outcome there is always a file, a queued command, a command, a row or
\* a thread that stands for it, unless CREAM purges the job before ICE sees how
\* it ended.  This holds for any number of moves of old/ back to new/, lost
\* answers, cancellations, reschedules and expired proxies.
THEOREM JobsAreRemembered == Spec => [](crashes = 0 => NotForgotten)
<1> DEFINE Inv == Base /\ crashes \in Nat /\ (crashes = 0 => MemoryInv)
<1>1. Init => MemoryInv
  <2> SUFFICES ASSUME Init PROVE MemoryInv
    OBVIOUS
  <2>1. Base /\ Alive
    BY BaseInit DEF Init, Alive, Actors
  <2>2. ASSUME NEW j \in Jobs PROVE Remembered(j)
    <3>1. <<j, "submit">> \in Requests
      BY DEF Requests
    <3>2. sub[j] = "idle" /\ file[<<j, "submit">>] = "new"
      BY <3>1 DEF Init
    <3> QED
      BY <3>2 DEF Remembered, HasRow, Waiting
  <2>3. ASSUME NEW q \in Queries PROVE Ends(q)
    BY DEF Init, Ends, Actors
  <2>4. ASSUME NEW l \in Loggers PROVE Aborts(l)
    BY DEF Init, Aborts
  <2> QED
    BY <2>1, <2>2, <2>3, <2>4 DEF MemoryInv
<1>2. MemoryInv /\ [Next]_vars /\ crashes' = 0 => MemoryInv'
  <2> SUFFICES ASSUME MemoryInv, crashes' = 0, Next \/ UNCHANGED vars PROVE MemoryInv'
    OBVIOUS
  <2>1. Base' /\ Alive'
    BY BaseNext, StaysAlive DEF MemoryInv
  <2>2. ASSUME NEW j \in Jobs PROVE Remembered(j)'
    BY RememberedNext
  <2>3. ASSUME NEW q \in Queries PROVE Ends(q)'
    BY EndsNext
  <2>4. ASSUME NEW l \in Loggers PROVE Aborts(l)'
    BY AbortsNext
  <2> QED
    BY <2>1, <2>2, <2>3, <2>4 DEF MemoryInv
<1>3. MemoryInv => NotForgotten
  <2> SUFFICES ASSUME MemoryInv, NEW j \in Jobs, sub[j] = "idle"
               PROVE  \/ Outcomes(j) > 0
                      \/ InDb(j) \/ Leaving(j)
                      \/ \E w \in {"submit", "reschedule"} :
                           file[<<j, w>>] # "none" \/ pool[<<j, w>>] > 0
                      \/ \E k \in 1 .. Len(cream[j]) : cream[j][k].st = "PURGED"
    BY DEF NotForgotten
  <2>1. InDb(j) \/ Gone(j) \/ Waiting(j)
    BY DEF MemoryInv, Remembered
  <2>2. ASSUME NEW q \in Queries, apc[q] = "resubmit", cur[q][1] = j PROVE Leaving(j)
    <3>1. q \in Actors /\ cur[q] \in Tasks
      BY <2>2 DEF MemoryInv, Base, QueriesOK, Ending, Actors
    <3>2. cur[q] # Nobody
      BY <3>1, NobodyAssumption DEF Tasks
    <3> QED
      BY <2>2, <3>1, <3>2 DEF Leaving
  <2> QED
    BY <2>1, <2>2 DEF Gone, Waiting, PurgedOnCream
<1>4. Init => Inv
  BY <1>1, BaseInit DEF Init
<1>5. Inv /\ [Next]_vars => Inv'
  <2> SUFFICES ASSUME Inv, Next \/ UNCHANGED vars PROVE Inv'
    OBVIOUS
  <2>1. Base'
    BY BaseNext
  <2>2. crashes' = crashes \/ crashes' = crashes + 1
    BY CrashSteps DEF Crash
  <2>3. ASSUME crashes' = 0 PROVE MemoryInv'
    <3>1. MemoryInv
      BY <2>2, <2>3
    <3> QED
      BY <1>2, <2>3, <3>1
  <2> QED
    BY <2>1, <2>2, <2>3
<1>6. Inv => (crashes = 0 => NotForgotten)
  BY <1>3
<1> QED
  BY <1>4, <1>5, <1>6, PTL DEF Spec

-----------------------------------------------------------------------------
(* Queries and reschedules                                                 *)

\* The submit request of a job has not been taken up yet.
Unread(j) == file[<<j, "submit">>] = "new" \/ pool[<<j, "submit">>] > 0

\* A move of old/ back to new/ is counted.
LEMMA RecycleSteps ==
  ASSUME Next \/ UNCHANGED vars
  PROVE  recycles' = recycles \/ Recycle
<1>1. ASSUME NEW q \in Queries, Query(q) PROVE recycles' = recycles
  BY <1>1, QueryFrame DEF dirVars
<1>2. ASSUME NEW a \in Actors, EndJob(a) PROVE recycles' = recycles
  BY <1>2, EndJobFrame DEF dirVars
<1>3. ASSUME NEW j \in Jobs, Command(j) PROVE recycles' = recycles
  BY <1>3, CommandFrame
<1>4. ASSUME NEW l \in Loggers, Logging(l) PROVE recycles' = recycles
  BY <1>4, LoggingFrame DEF dirVars
<1>5. CASE World \/ Recovery \/ Crash \/ UNCHANGED vars
  BY <1>5, WorldFrame, RecoveryFrame DEF vars, dirVars, Crash
<1>6. CASE MainLoop
  BY <1>6 DEF MainLoop, ReadRequest, PostponeRequest, RejectRequest
<1> QED
  BY <1>1, <1>2, <1>3, <1>4, <1>5, <1>6 DEF Next

\* Without crashes and moves back, a submit request is taken up once.
LEMMA UnreadSteps ==
  ASSUME Base, Alive, crashes' = 0, recycles = 0, recycles' = 0, Next \/ UNCHANGED vars,
         NEW j \in Jobs, Unread(j)'
  PROVE  Unread(j) /\ ~ TakeCommand(<<j, "submit">>)
<1> DEFINE s == <<j, "submit">>
<1>0. s \in Requests
  BY DEF Requests
<1>1. \/ MainLoop \/ World \/ UNCHANGED vars
      \/ \E i \in Jobs : Command(i)
      \/ \E q \in Queries : Query(q) \/ EndJob(q)
      \/ \E l \in Loggers : Logging(l)
  BY StaysAlive
<1>2. /\ file \in [Requests -> {"new", "old", "none"}] /\ pool \in [Requests -> Nat]
      /\ (file[s] = "new" => pool[s] = 0) /\ pool[s] <= 1
  <2>1. /\ file \in [Requests -> {"new", "old", "none"}] /\ pool \in [Requests -> Nat]
        /\ pool[s] + Readable(s) <= 1 /\ pool[s] \in Nat
    BY <1>0 DEF Base, RequestsOK
  <2>2. Readable(s) \in {0, 1} /\ (file[s] = "new" => Readable(s) = 1)
    BY DEF Readable
  <2> QED
    BY <2>1, <2>2
<1>3. Unread(j) <=> file[s] = "new" \/ pool[s] > 0
  BY DEF Unread
<1>4. file'[s] = "new" \/ pool'[s] > 0
  BY DEF Unread
<1>5. ~ Recycle
  BY DEF Recycle
<1>6. TakeCommand(s) => FALSE
  <2>1. TakeCommand(s) => file' = file /\ pool[s] > 0 /\ pool' = [pool EXCEPT ![s] = @ - 1]
    BY DEF TakeCommand
  <2> HIDE DEF s
  <2> QED
    BY <1>0, <1>2, <1>4, <2>1
<1> HIDE DEF s
<1>7. CASE file'[s] = file[s] /\ pool'[s] = pool[s]
  BY <1>3, <1>4, <1>6, <1>7 DEF s
<1>8. ASSUME MainLoop PROVE Unread(j)
  <2>1. ASSUME NEW r \in Requests, ReadRequest(r) PROVE Unread(j)
    <3>1. /\ file' = [file EXCEPT ![r] = "old"] /\ pool' = [pool EXCEPT ![r] = @ + 1]
          /\ file[r] = "new"
      BY <2>1 DEF ReadRequest
    <3> QED
      BY <1>0, <1>2, <1>3, <1>4, <3>1
  <2>2. ASSUME NEW r \in Requests, PostponeRequest(r) \/ RejectRequest(r) PROVE Unread(j)
    <3>1. /\ \E x : file' = [file EXCEPT ![r] = x]
          /\ pool' = pool /\ file[r] = "new"
      BY <2>2 DEF PostponeRequest, RejectRequest
    <3> QED
      BY <1>0, <1>2, <1>3, <1>4, <3>1
  <2> QED
    BY <1>5, <1>8, <2>1, <2>2 DEF MainLoop
<1>9. ASSUME NEW i \in Jobs, Command(i) PROVE Unread(j)
  <2>1. ASSUME NEW w \in {"submit", "reschedule"}, TakeCommand(<<i, w>>) PROVE Unread(j)
    <3>1. file' = file /\ \E x : pool' = [pool EXCEPT ![<<i, w>>] = x]
      BY <2>1 DEF TakeCommand
    <3>2. <<i, w>> # s
      BY <1>6, <2>1
    <3> QED
      BY <1>0, <1>2, <1>3, <1>4, <3>1, <3>2
  <2>2. CASE PurgeRequest(i)
    <3>1. /\ pool' = pool
          /\ file' = [file EXCEPT ![<<i, kind[i]>>] = IF @ = "old" THEN "none" ELSE @]
      BY <2>2 DEF PurgeRequest
    <3> QED
      BY <1>0, <1>2, <1>3, <1>4, <3>1
  <2>3. CASE \/ Reschedule(i) \/ Release(i) \/ Lookup(i) \/ CreateJob(i) \/ Count(i)
             \/ Delegate(i)
             \/ SetBetterProxy(i) \/ Register(i) \/ RegisterTimesOut(i) \/ Redelegate(i)
    BY <1>7, <2>3 DEF Reschedule, Release, Lookup, CreateJob, Count, Delegate, SetBetterProxy,
       Register,
       RegisterTimesOut, Redelegate, dirVars
  <2>4. CASE \/ SubmitFails(i) \/ BlackListed(i) \/ Record(i) \/ Start(i) \/ StartFails(i)
             \/ Started(i) \/ GiveBack(i) \/ Uncount(i) \/ Remove(i)
    BY <1>7, <2>4 DEF SubmitFails, BlackListed, Record, Start, StartFails, Started, GiveBack,
       Uncount, Remove, dirVars
  <2> QED
    BY <1>9, <2>1, <2>2, <2>3, <2>4 DEF Command
<1>10. ASSUME NEW q \in Queries, Query(q) \/ EndJob(q) PROVE Unread(j)
  BY <1>7, <1>10, QueryFrame, EndJobFrame DEF dirVars, Actors
<1>11. ASSUME NEW l \in Loggers, Logging(l) PROVE Unread(j)
  BY <1>7, <1>11, LoggingFrame DEF dirVars
<1>12. ASSUME World PROVE Unread(j)
  <2>1. pool' = pool
    BY <1>12, WorldFrame
  <2>2. file' = file \/ \E i \in Jobs : file' = [file EXCEPT ![<<i, "reschedule">>] = "new"]
    BY <1>12 DEF World, Cancel, Replan, CreamRun, CreamPurge, CreamEnd, dirVars
  <2>3. \A i \in Jobs : <<i, "reschedule">> # s
    BY DEF s
  <2> QED
    BY <1>0, <1>2, <1>7, <2>1, <2>2, <2>3
<1>13. CASE UNCHANGED vars
  BY <1>7, <1>13 DEF vars, dirVars
<1> QED
  BY <1>1, <1>6, <1>8, <1>9, <1>10, <1>11, <1>12, <1>13 DEF s

\* s_reschedule_mutex is taken when it is free, and released by its holder.
LEMMA MutexSteps ==
  ASSUME Base, Alive, crashes' = 0, Next \/ UNCHANGED vars, resched' # resched
  PROVE  \/ resched = Nobody
         \/ \E j \in Jobs : Release(j)
         \/ \E q \in Queries : EndJob(q) /\ apc[q] \in Ending
<1>1. \/ MainLoop \/ World \/ UNCHANGED vars
      \/ \E i \in Jobs : Command(i)
      \/ \E q \in Queries : Query(q) \/ EndJob(q)
      \/ \E l \in Loggers : Logging(l)
  BY StaysAlive
<1>2. ASSUME NEW j \in Jobs, Command(j) PROVE resched = Nobody \/ Release(j)
  <2>1. CASE \E w \in {"submit", "reschedule"} : TakeCommand(<<j, w>>)
    BY <2>1 DEF TakeCommand, queryVars
  <2>2. CASE \/ Reschedule(j) \/ Lookup(j) \/ CreateJob(j) \/ Count(j)
             \/ Delegate(j)
             \/ SetBetterProxy(j) \/ Register(j) \/ RegisterTimesOut(j) \/ Redelegate(j)
    BY <2>2 DEF Reschedule, Lookup, CreateJob, Count, Delegate, SetBetterProxy, Register,
       RegisterTimesOut, Redelegate, queryVars
  <2>3. CASE \/ SubmitFails(j) \/ BlackListed(j) \/ Record(j) \/ Start(j) \/ StartFails(j)
             \/ Started(j) \/ GiveBack(j) \/ Uncount(j) \/ Remove(j) \/ PurgeRequest(j)
    BY <2>3 DEF SubmitFails, BlackListed, Record, Start, StartFails, Started, GiveBack,
       Uncount, Remove, PurgeRequest, queryVars
  <2> QED
    BY <1>2, <2>1, <2>2, <2>3 DEF Command
<1>3. ASSUME NEW q \in Queries, Query(q) PROVE resched = Nobody
  BY <1>3 DEF Query, Poll, QueryEvents, QueryFails, QueryWithoutProxy, SetEventId, NextJob
<1>4. ASSUME NEW q \in Queries, EndJob(q) PROVE apc[q] \in Ending
  BY <1>4 DEF EndJob, UpdateStatus, UncountJob, RemoveEnded, Resubmit, PurgeJob, Ending
<1>5. ASSUME NEW l \in Loggers, Logging(l) PROVE FALSE
  BY <1>5, LoggingFrame DEF queryVars
<1>6. ASSUME MainLoop \/ World \/ UNCHANGED vars PROVE FALSE
  BY <1>6, MainLoopFrame, WorldFrame DEF queryVars, vars
<1> QED
  BY <1>1, <1>2, <1>3, <1>4, <1>5, <1>6

\* A command before the creation of the row, and one before it has a CREAM id
Without == {"release", "lookup", "create"}

Unrecorded == {"count", "delegate", "set", "register", "record"}

\* A command starts with a job that ICE does not have, or takes it from the
\* database under the mutex.
Fresh(j) ==
  /\ Unread(j) => Len(cream[j]) = 0 /\ db[j] = "none" /\ sub[j] = "idle"
  /\ token[j].n = 1 => ~ Unread(j)
  /\ sub[j] \in Without => db[j] = "none"
  /\ sub[j] \in Unrecorded => cid[j] = 0
  /\ db[j] = "none" => cid[j] = 0
  /\ sub[j] = "release" => resched = j

\* A query that ends a job holds the mutex, and the row is the one it looked at.
Holds(q) ==
  /\ apc[q] \in Ending => resched = q
  /\ apc[q] \in {"update", "count", "remove"} =>
       /\ Len(cream[cur[q][1]]) > 0
       /\ sub[cur[q][1]] \notin Without \cup Unrecorded
       /\ InDb(cur[q][1]) => cid[cur[q][1]] = cur[q][2]

CopyInv ==
  /\ Base
  /\ Alive
  /\ recycles = 0
  /\ \A j \in Jobs : Fresh(j)
  /\ \A q \in Queries : Holds(q)

\* Only a step of the command itself leads to one of these places.
LEMMA CommandLeadsTo ==
  ASSUME Base, Alive, crashes' = 0, Next \/ UNCHANGED vars, NEW j \in Jobs
  PROVE  /\ sub'[j] \in Without /\ sub[j] \notin Without =>
              TakeCommand(<<j, "submit">>) \/ (Reschedule(j) /\ RemoveJob(j) /\ resched' = j)
         /\ sub'[j] \in Unrecorded /\ sub[j] \notin Unrecorded => CreateJob(j)
         /\ sub'[j] = "release" /\ sub[j] # "release" => Reschedule(j) /\ resched' = j
         /\ sub'[j] # sub[j] /\ sub[j] = "idle" =>
              TakeCommand(<<j, "submit">>) \/ TakeCommand(<<j, "reschedule">>)
         /\ sub[j] = "record" /\ Record(j) => sub'[j] = "start"
         /\ Release(j) => sub'[j] = "lookup" /\ sub[j] = "release"
<1>0. sub \in [Jobs -> CommandSteps]
  BY DEF Base, RowsOK
<1>1. ~ Crash
  BY DEF Crash, Alive
<1>2. CASE Command(j)
  <2> USE DEF Without, Unrecorded, Goto
  <2>1. CASE TakeCommand(<<j, "submit">>) \/ TakeCommand(<<j, "reschedule">>)
    BY <1>0, <2>1 DEF TakeCommand, Record, Release
  <2>2. CASE Reschedule(j) \/ Release(j) \/ Lookup(j) \/ CreateJob(j)
    BY <1>0, <2>2 DEF Reschedule, Release, Lookup, CreateJob, Record
  <2>3. CASE \/ Count(j) \/ Delegate(j)
             \/ SetBetterProxy(j) \/ Register(j) \/ RegisterTimesOut(j) \/ Redelegate(j)
             \/ SubmitFails(j) \/ BlackListed(j)
    BY <1>0, <2>3 DEF Count, Delegate, SetBetterProxy,
       Register, RegisterTimesOut, Redelegate, SubmitFails,
       BlackListed, Record, Release
  <2>4. CASE \/ Record(j) \/ Start(j) \/ StartFails(j) \/ Started(j) \/ GiveBack(j)
             \/ Uncount(j) \/ Remove(j) \/ PurgeRequest(j)
    BY <1>0, <2>4 DEF Record, Start, StartFails, Started, GiveBack, Uncount, Remove,
       PurgeRequest, Release
  <2> QED
    BY <1>2, <2>1, <2>2, <2>3, <2>4 DEF Command
<1>3. CASE ~ Command(j)
  <2>1. sub'[j] = sub[j]
    BY <1>1, <1>3, SubSteps
  <2>2. ~ Record(j) /\ ~ Release(j)
    BY <1>3 DEF Command
  <2> QED
    BY <2>1, <2>2
<1> QED
  BY <1>2, <1>3

\* A grid job gets a new CREAM job only from its own command.
LEMMA LenSteps ==
  ASSUME Base, Next \/ UNCHANGED vars, NEW i \in Jobs
  PROVE  Len(cream'[i]) = Len(cream[i]) \/ Register(i) \/ RegisterTimesOut(i)
<1>0. CreamOK /\ RowsOK
  BY DEF Base
<1>1. CASE cream' = cream
  BY <1>1
<1>2. ASSUME NEW j \in Jobs, NEW k \in 1 .. Len(cream[j]), NEW x \in CreamStates, SetState(j, k, x)
      PROVE  Len(cream'[i]) = Len(cream[i])
  <2>1. Changed(j, k, x)
    BY <1>0, <1>2, SetStateFacts
  <2> QED
    BY <2>1 DEF Changed
<1>3. ASSUME NEW j \in Jobs, Command(j)
      PROVE  Len(cream'[i]) = Len(cream[i]) \/ Register(i) \/ RegisterTimesOut(i)
  <2>1. CASE Register(j) \/ RegisterTimesOut(j)
    <3>1. NewCreamJob(j)
      BY <2>1 DEF Register, RegisterTimesOut
    <3>2. \A b \in Jobs \ {j} : cream'[b] = cream[b]
      BY <1>0, <3>1, NewJobFacts
    <3> QED
      BY <2>1, <3>2
  <2>2. CASE Start(j)
    <3>1. reg[j] \in 1 .. Len(cream[j])
      BY <1>0, <2>2, LenProperties DEF Start, Startable, RowsOK, CreamOK
    <3>2. SetState(j, reg[j], "IDLE") /\ "IDLE" \in CreamStates
      BY <2>2 DEF Start, SetState, CreamStates
    <3> QED
      BY <1>2, <3>1, <3>2
  <2> QED
    BY <1>1, <1>3, <2>1, <2>2, CommandOnCream
<1>4. ASSUME World PROVE Len(cream'[i]) = Len(cream[i])
  <2>1. PICK j \in Jobs :
          \/ Cancel(j)
          \/ Replan(j)
          \/ \E h \in 1 .. Len(cream[j]) :
               CreamRun(j, h) \/ CreamPurge(j, h) \/ \E st \in {"DONE_OK", "FAILED"} : CreamEnd(j, h, st)
    BY <1>4 DEF World
  <2>2. CASE Cancel(j)
    <3>1. cid[j] \in 1 .. Len(cream[j])
      BY <1>0, <2>2, LenProperties DEF Cancel, RowsOK, CreamOK
    <3>2. SetState(j, cid[j], "CANCELLED") /\ "CANCELLED" \in CreamStates
      BY <2>2 DEF Cancel, SetState, CreamStates, Final, Terminal
    <3> QED
      BY <1>2, <3>1, <3>2
  <2>3. CASE Replan(j)
    BY <1>1, <2>3 DEF Replan
  <2>4. ASSUME NEW h \in 1 .. Len(cream[j]),
               CreamRun(j, h) \/ CreamPurge(j, h) \/ \E st \in {"DONE_OK", "FAILED"} : CreamEnd(j, h, st)
        PROVE  Len(cream'[i]) = Len(cream[i])
    <3>1. \E x \in CreamStates : SetState(j, h, x)
      BY <2>4 DEF CreamRun, CreamPurge, CreamEnd, SetState, CreamStates, Final, Terminal
    <3> QED
      BY <1>2, <3>1
  <2> QED
    BY <2>1, <2>2, <2>3, <2>4
<1> QED
  BY <1>1, <1>3, <1>4, CreamFrame DEF creamVars

\* A token moves because of the replanner.
LEMMA ReplanSteps ==
  ASSUME Base, Next \/ UNCHANGED vars, NEW i \in Jobs, token'[i].n # token[i].n
  PROVE  Replan(i)
<1>1. ASSUME NEW j \in Jobs, Replan(j) PROVE j = i
  BY <1>1 DEF Replan, Base, RequestsOK
<1>2. ASSUME NEW j \in Jobs, NEW k, CreamRun(j, k) PROVE FALSE
  <2>1. PICK b : token' = [token EXCEPT ![j].there = b]
    BY <1>2 DEF CreamRun
  <2> QED
    BY <2>1 DEF Base, RequestsOK
<1>3. token' # token
  OBVIOUS
<1>4. CASE World
  BY <1>1, <1>2, <1>3, <1>4 DEF World, Cancel, CreamPurge, CreamEnd
<1>5. ASSUME NEW j \in Jobs, Command(j) PROVE FALSE
  BY <1>3, <1>5, CommandFrame
<1> QED
  BY <1>3, <1>4, <1>5, CreamFrame DEF creamVars

\* Every step keeps the commands apart from what the queries look at.
LEMMA FreshNext ==
  ASSUME CopyInv, crashes' = 0, recycles' = 0, Next \/ UNCHANGED vars, NEW j \in Jobs
  PROVE  Fresh(j)'
<1>0. Base /\ Base' /\ Alive /\ recycles = 0 /\ Fresh(j)
  BY BaseNext DEF CopyInv
<1>1. SameRow(j) \/ NoRow(j) \/ CreateJob(j) \/ Record(j)
  BY <1>0, RowSteps
<1>2. CreateJob(j) => sub[j] = "create" /\ sub'[j] = "count" /\ cid'[j] = 0 /\ db'[j] # "none"
  BY <1>0 DEF CreateJob, Goto, Base, RowsOK
<1>3. Record(j) => /\ sub[j] = "record" /\ sub'[j] = "start"
                   /\ db'[j] = "none" => db[j] = "none" /\ cid'[j] = cid[j]
  BY <1>0 DEF Record, Goto, Update, InDb, Base, RowsOK
<1>4. ASSUME Unread(j)' PROVE Len(cream'[j]) = 0 /\ db'[j] = "none" /\ sub'[j] = "idle" /\ token'[j].n # 1
  <2>1. Unread(j) /\ ~ TakeCommand(<<j, "submit">>)
    BY <1>0, <1>4, UnreadSteps
  <2>2. Len(cream[j]) = 0 /\ db[j] = "none" /\ sub[j] = "idle" /\ token[j].n # 1
    BY <1>0, <2>1 DEF Fresh
  <2>3. ~ TakeCommand(<<j, "reschedule">>)
    <3>1. pool[<<j, "reschedule">>] = 0
      BY <1>0, <2>2 DEF Base, RequestsOK
    <3> QED
      BY <3>1 DEF TakeCommand
  <2>4. sub'[j] = "idle"
    BY <1>0, <2>1, <2>2, <2>3, CommandLeadsTo
  <2>5. db'[j] = "none"
    BY <1>1, <1>2, <1>3, <2>2 DEF SameRow, NoRow
  <2>6. Len(cream'[j]) = 0
    BY <1>0, <2>2, LenSteps DEF Register, RegisterTimesOut
  <2>7. token'[j].n # 1
    BY <1>0, <2>2, ReplanSteps DEF Replan
  <2> QED
    BY <2>4, <2>5, <2>6, <2>7
<1>5. ASSUME sub'[j] \in Without PROVE db'[j] = "none"
  <2>1. CASE sub[j] \in Without
    <3>1. db[j] = "none"
      BY <1>0, <2>1 DEF Fresh
    <3>2. ~ CreateJob(j) /\ ~ Record(j)
      BY <1>2, <1>3, <1>5 DEF Without
    <3> QED
      BY <1>1, <3>1, <3>2 DEF SameRow, NoRow
  <2>2. CASE TakeCommand(<<j, "submit">>)
    <3>1. pool[<<j, "submit">>] > 0 /\ db' = db
      BY <2>2 DEF TakeCommand, rowVars
    <3> QED
      BY <1>0, <3>1 DEF Fresh, Unread
  <2>3. CASE RemoveJob(j)
    BY <1>0, <2>3 DEF RemoveJob, Base, RowsOK
  <2> QED
    BY <1>0, <1>5, <2>1, <2>2, <2>3, CommandLeadsTo
<1>6. ASSUME sub'[j] \in Unrecorded PROVE cid'[j] = 0
  <2>1. CASE sub[j] \in Unrecorded
    <3>1. cid[j] = 0
      BY <1>0, <2>1 DEF Fresh
    <3>2. ~ Record(j)
      BY <1>3, <1>6 DEF Unrecorded
    <3> QED
      BY <1>1, <1>2, <3>1, <3>2 DEF SameRow, NoRow
  <2>2. CASE CreateJob(j)
    BY <1>2, <2>2
  <2> QED
    BY <1>0, <1>6, <2>1, <2>2, CommandLeadsTo
<1>7. ASSUME db'[j] = "none" PROVE cid'[j] = 0
  <2>1. db[j] = "none" => cid[j] = 0
    BY <1>0 DEF Fresh
  <2> QED
    BY <1>1, <1>2, <1>3, <1>7, <2>1 DEF SameRow, NoRow
<1>8. ASSUME sub'[j] = "release" PROVE resched' = j
  <2>1. CASE sub[j] # "release"
    BY <1>0, <1>8, <2>1, CommandLeadsTo
  <2>2. CASE sub[j] = "release"
    <3>1. resched = j /\ j # Nobody /\ j \notin Queries
      BY <1>0, <2>2, NamesAssumption DEF Fresh
    <3>2. ASSUME NEW i \in Jobs, Release(i) PROVE FALSE
      <4>1. Fresh(i) /\ sub[i] = "release"
        BY <3>2 DEF CopyInv, Release
      <4>2. i = j
        BY <3>1, <4>1 DEF Fresh
      <4> QED
        BY <1>0, <1>8, <3>2, <4>2, CommandLeadsTo
    <3>3. ASSUME NEW q \in Queries, apc[q] \in Ending PROVE FALSE
      BY <3>1, <3>3 DEF CopyInv, Holds
    <3>4. resched' = resched
      BY <1>0, <3>1, <3>2, <3>3, MutexSteps
    <3> QED
      BY <3>1, <3>4
  <2> QED
    BY <2>1, <2>2
<1> QED
  BY <1>4, <1>5, <1>6, <1>7, <1>8 DEF Fresh

\* Every step keeps the mutex with the query and the row as it saw it.
LEMMA HoldsNext ==
  ASSUME CopyInv, crashes' = 0, recycles' = 0, Next \/ UNCHANGED vars, NEW q \in Queries
  PROVE  Holds(q)'
<1>0. Base /\ Base' /\ Grows /\ Alive /\ ~ Crash
  BY BaseNext DEF CopyInv, Crash, Alive
<1>1. /\ q \in Actors /\ q # Nobody /\ q \notin Jobs
      /\ apc \in [Actors -> ActorSteps] /\ cur \in [Actors -> Tasks \cup {Nobody}]
  BY <1>0, NamesAssumption DEF Actors, Base, QueriesOK
<1>2. ASSUME apc'[q] \in Ending PROVE resched' = q
  <2>1. CASE apc[q] \in Ending
    <3>1. resched = q
      BY <2>1 DEF CopyInv, Holds
    <3>2. ASSUME NEW j \in Jobs, Release(j) PROVE FALSE
      BY <1>1, <3>1, <3>2 DEF CopyInv, Fresh, Release
    <3>3. ASSUME NEW p \in Queries, EndJob(p), apc[p] \in Ending PROVE resched' = resched
      <4>1. p = q
        BY <3>1, <3>3 DEF CopyInv, Holds
      <4>2. Done(q) => apc'[q] = "next"
        BY <1>1 DEF Done
      <4>3. ~ Done(q)
        BY <1>2, <4>2 DEF Ending
      <4> QED
        BY <3>3, <4>1, <4>3 DEF EndJob, UpdateStatus, UncountJob, RemoveEnded, Resubmit, PurgeJob
    <3> QED
      BY <1>0, <1>1, <3>1, <3>2, <3>3, MutexSteps
  <2>2. CASE apc[q] \notin Ending
    <3>1. ~ EndJob(q)
      BY <2>2 DEF EndJob, UpdateStatus, UncountJob, RemoveEnded, Resubmit, PurgeJob, Ending
    <3>2. Query(q)
      BY <1>0, <1>2, <2>2, <3>1, QuerySteps
    <3>3. CASE Poll(q) \/ QueryFails(q) \/ QueryWithoutProxy(q) \/ SetEventId(q)
      BY <1>1, <1>2, <3>3 DEF Poll, QueryFails, QueryWithoutProxy, SetEventId, Ending
    <3>4. CASE QueryEvents(q)
      BY <1>1, <1>2, <3>4 DEF QueryEvents, Ending
    <3>5. CASE \E j \in Jobs : \E k \in 1 .. Len(cream[j]) : NextJob(q, j, k)
      <4>1. apc' = apc \/ resched' = q
        BY <3>5 DEF NextJob
      <4> QED
        BY <1>2, <2>2, <4>1
    <3> QED
      BY <3>2, <3>3, <3>4, <3>5 DEF Query
  <2> QED
    BY <2>1, <2>2
<1>3. ASSUME NEW j \in Jobs, NEW k, Len(cream[j]) > 0, sub[j] \notin Without \cup Unrecorded,
             InDb(j) => cid[j] = k, resched # Nobody
      PROVE  /\ Len(cream'[j]) > 0 /\ sub'[j] \notin Without \cup Unrecorded
             /\ db'[j] # "none" => cid'[j] = k
  <2>1. Len(cream'[j]) > 0
    BY <1>0, <1>3, LenProperties DEF Base, CreamOK, Grows
  <2>2. ~ TakeCommand(<<j, "submit">>)
    BY <1>3 DEF CopyInv, Fresh, Unread, TakeCommand
  <2>3. ~ Reschedule(j) /\ ~ CreateJob(j) /\ ~ Record(j)
    BY <1>3 DEF Reschedule, CreateJob, Record, Without, Unrecorded
  <2>4. sub'[j] \notin Without \cup Unrecorded
    BY <1>0, <1>3, <2>2, <2>3, CommandLeadsTo
  <2>5. SameRow(j) \/ NoRow(j)
    BY <1>0, <2>3, RowSteps
  <2>6. db'[j] # "none" => cid'[j] = k
    BY <1>3, <2>5 DEF SameRow, NoRow, InDb
  <2> QED
    BY <2>1, <2>4, <2>6
<1> DEFINE R == {"update", "count", "remove"}
<1>4. ASSUME apc'[q] \in R
      PROVE  /\ Len(cream'[cur'[q][1]]) > 0
             /\ sub'[cur'[q][1]] \notin Without \cup Unrecorded
             /\ db'[cur'[q][1]] # "none" => cid'[cur'[q][1]] = cur'[q][2]
  <2>1. CASE apc[q] \in R /\ cur'[q] = cur[q]
    <3>1. PICK j \in Jobs : j = cur[q][1]
      BY <1>0, <1>1, <2>1 DEF Base, QueriesOK, Tasks, Ending
    <3>2. /\ Len(cream[j]) > 0 /\ sub[j] \notin Without \cup Unrecorded
          /\ InDb(j) => cid[j] = cur[q][2]
          /\ resched = q
      BY <2>1, <3>1 DEF CopyInv, Holds, Ending
    <3>3. /\ Len(cream'[j]) > 0 /\ sub'[j] \notin Without \cup Unrecorded
          /\ db'[j] # "none" => cid'[j] = cur[q][2]
      <4>1. PICK k : k = cur[q][2]
        OBVIOUS
      <4> QED
        BY <1>1, <1>3, <3>2, <4>1
    <3> QED
      BY <2>1, <3>1, <3>3
  <2>2. CASE EndJob(q)
    <3>1. CASE UpdateStatus(q) \/ UncountJob(q)
      BY <2>1, <3>1 DEF UpdateStatus, UncountJob
    <3>2. CASE RemoveEnded(q) \/ Resubmit(q) \/ PurgeJob(q)
      <4>1. \E x \in {"next", "resubmit", "purge"} : apc' = [apc EXCEPT ![q] = x]
        BY <3>2 DEF RemoveEnded, Resubmit, PurgeJob, Done
      <4> QED
        BY <1>1, <1>4, <4>1
    <3> QED
      BY <2>2, <3>1, <3>2 DEF EndJob
  <2>3. ASSUME Query(q), apc[q] \notin R
        PROVE  /\ Len(cream'[cur'[q][1]]) > 0
               /\ sub'[cur'[q][1]] \notin Without \cup Unrecorded
               /\ db'[cur'[q][1]] # "none" => cid'[cur'[q][1]] = cur'[q][2]
    <3>0. UNCHANGED <<sub, db, cid, cream>>
      BY <2>3, QueryFrame DEF subVars, rowVars, creamVars
    <3>1. CASE Poll(q) \/ QueryFails(q) \/ QueryWithoutProxy(q) \/ SetEventId(q)
      BY <1>1, <1>4, <3>1 DEF Poll, QueryFails, QueryWithoutProxy, SetEventId
    <3>2. CASE QueryEvents(q)
      BY <1>1, <1>4, <3>2 DEF QueryEvents
    <3>3. ASSUME NEW j \in Jobs, NEW k \in 1 .. Len(cream[j]), NextJob(q, j, k)
          PROVE  /\ Len(cream'[cur'[q][1]]) > 0
                 /\ sub'[cur'[q][1]] \notin Without \cup Unrecorded
                 /\ db'[cur'[q][1]] # "none" => cid'[cur'[q][1]] = cur'[q][2]
      <4>1. ~ Ignored(j, k) /\ cur'[q][1] = j /\ cur'[q][2] = k
        BY <1>1, <1>4, <2>3, <3>3 DEF NextJob
      <4>2. db[j] # "none" /\ cid[j] = k
        BY <4>1 DEF Ignored, InDb
      <4>3. k > 0 /\ Len(cream[j]) > 0 /\ k # 0
        BY <1>0, LenProperties DEF Base, CreamOK
      <4>4. sub[j] \notin Without \cup Unrecorded
        BY <4>2, <4>3 DEF CopyInv, Fresh
      <4> QED
        BY <3>0, <4>1, <4>2, <4>3, <4>4
    <3> QED
      BY <2>3, <3>1, <3>2, <3>3 DEF Query
  <2>4. CASE apc'[q] = apc[q] /\ cur'[q] = cur[q]
    BY <1>4, <2>1, <2>4
  <2>5. CASE Query(q) /\ apc[q] \in R
    BY <2>5 DEF Query, Poll, QueryEvents, QueryFails, QueryWithoutProxy, SetEventId, NextJob
  <2> QED
    BY <1>0, <2>2, <2>3, <2>4, <2>5, QuerySteps
<1> QED
  BY <1>2, <1>4 DEF Holds, InDb

\* The invariant holds at the start,
LEMMA CopyInit ==
  ASSUME Init
  PROVE  CopyInv
<1>1. Base /\ Alive /\ recycles = 0
  BY BaseInit DEF Init, Alive, Actors
<1>2. ASSUME NEW j \in Jobs PROVE Fresh(j)
  <2>1. Len(cream[j]) = 0 /\ db[j] = "none" /\ sub[j] = "idle" /\ token[j].n = 0 /\ cid[j] = 0
    BY DEF Init
  <2> QED
    BY <2>1 DEF Fresh, Without, Unrecorded
<1>3. ASSUME NEW q \in Queries PROVE Holds(q)
  BY DEF Init, Holds, Actors, Ending
<1> QED
  BY <1>1, <1>2, <1>3 DEF CopyInv

\* and every step keeps it.
LEMMA CopyNext ==
  ASSUME CopyInv, crashes' = 0, recycles' = 0, Next \/ UNCHANGED vars
  PROVE  CopyInv'
<1>1. Base' /\ Alive'
  BY BaseNext, StaysAlive DEF CopyInv
<1>2. ASSUME NEW j \in Jobs PROVE Fresh(j)'
  BY FreshNext
<1>3. ASSUME NEW q \in Queries PROVE Holds(q)'
  BY HoldsNext
<1> QED
  BY <1>1, <1>2, <1>3 DEF CopyInv

\* Until ICE crashes, and as long as old/ has not been moved back, a query that
\* has looked at a job never updates, releases or removes the row of a later
\* copy of it, whatever the replanner, the logging pool and the other queries
\* do: s_reschedule_mutex keeps the reschedule command out.
THEOREM QueriesActOnCurrentCopy == Spec => [](crashes = 0 => CurrentCopy)
<1> DEFINE Inv == Base /\ crashes \in Nat /\ (crashes = 0 /\ recycles = 0 => CopyInv)
<1>1. Init => CopyInv
  BY CopyInit
<1>2. CopyInv /\ [Next]_vars /\ crashes' = 0 /\ recycles' = 0 => CopyInv'
  BY CopyNext
<1>3. ASSUME CopyInv PROVE CurrentCopy
  BY <1>3 DEF CopyInv, Holds, CurrentCopy
<1>4. Init => Inv
  BY <1>1, BaseInit DEF Init
<1>5. Inv /\ [Next]_vars => Inv'
  <2> SUFFICES ASSUME Inv, Next \/ UNCHANGED vars PROVE Inv'
    OBVIOUS
  <2>1. Base'
    BY BaseNext
  <2>2. crashes' = crashes \/ crashes' = crashes + 1
    BY CrashSteps DEF Crash
  <2>3. recycles \in Nat /\ (recycles' = recycles \/ recycles' = recycles + 1)
    BY RecycleSteps DEF Recycle, Base, RequestsOK
  <2>4. ASSUME crashes' = 0, recycles' = 0 PROVE CopyInv'
    <3>1. CopyInv
      BY <2>2, <2>3, <2>4
    <3> QED
      BY <1>2, <2>4, <3>1
  <2> QED
    BY <2>1, <2>2, <2>4
<1>6. Inv => (crashes = 0 => CurrentCopy)
  <2>1. recycles # 0 => CurrentCopy
    BY DEF CurrentCopy
  <2> QED
    BY <1>3, <2>1
<1> QED
  BY <1>4, <1>5, <1>6, PTL DEF Spec

-----------------------------------------------------------------------------
(* A job is given back once, or it ends                                    *)

\* The state of the only copy of a job on CREAM
Stands(j) == IF Len(cream[j]) = 0 THEN "none" ELSE cream[j][1].st

Unstarted == {"none", "REGISTERED"}

\* Neither the workload manager nor the user has been told how the job ended.
Untold(j) == resub[j] = 0 /\ j \notin ended

Unregistered == {"lookup", "create", "count", "delegate", "set", "register"}

\* A job is given back by its command, before it is started, or by a query,
\* after it has ended; the row leaves the database with it.
Single(j) ==
  /\ Len(cream[j]) <= 1
  /\ token[j].n = 0 /\ sub[j] \notin {"reschedule", "release"}
  /\ Unread(j) \/ sub[j] \in Unregistered \cup {"record", "start", "fail"} => Untold(j)
  /\ sub[j] \in Unregistered => Stands(j) = "none"
  /\ sub[j] \in {"record", "start", "fail", "uncount", "remove"} => Stands(j) \in Unstarted
  /\ InDb(j) /\ Stands(j) \notin Unstarted => Untold(j)
  /\ sub[j] \in {"idle", "started", "purge"} /\ InDb(j) => Stands(j) # "REGISTERED"
  /\ resub[j] + (IF j \in ended THEN 1 ELSE 0) <= 1
  /\ resub[j] > 0 => Stands(j) \notin {"IDLE", "RUNNING"}

\* A query ends a job that has ended on CREAM and of which nothing was told.
Closes(q) ==
  /\ apc[q] \in {"update", "count", "remove", "resubmit"} =>
       Untold(cur[q][1]) /\ Stands(cur[q][1]) \in Final
  /\ apc[q] = "resubmit" => ~ InDb(cur[q][1])

OnceInv ==
  /\ CopyInv
  /\ \A j \in Jobs : Single(j)
  /\ \A q \in Queries : Closes(q)

\* A job is told of by its own command or by a query that ends it.
LEMMA ToldSteps ==
  ASSUME Base, Alive, crashes' = 0, Next \/ UNCHANGED vars, NEW j \in Jobs
  PROVE  \/ resub'[j] = resub[j] /\ (j \in ended' <=> j \in ended)
         \/ GiveBack(j)
         \/ \E q \in Queries : (Resubmit(q) \/ RemoveEnded(q)) /\ cur[q][1] = j
<1> DEFINE Same == resub'[j] = resub[j] /\ (j \in ended' <=> j \in ended)
<1>0. resub \in [Jobs -> Nat]
  BY DEF Base, OutOK
<1>1. \/ MainLoop \/ World \/ UNCHANGED vars
      \/ \E i \in Jobs : Command(i)
      \/ \E q \in Queries : Query(q) \/ EndJob(q)
      \/ \E l \in Loggers : Logging(l)
  BY StaysAlive
<1>2. ASSUME NEW x, ResubmitJob(x), x # j PROVE resub'[j] = resub[j]
  BY <1>0, <1>2 DEF ResubmitJob
<1>3. ASSUME NEW i \in Jobs, Command(i) PROVE Same \/ GiveBack(j)
  <2>1. ended' = ended
    BY <1>3, CommandFrame
  <2>2. CASE GiveBack(i)
    <3>1. ResubmitJob(i)
      BY <2>2 DEF GiveBack
    <3> QED
      BY <1>2, <2>1, <2>2, <3>1
  <2>3. CASE \E w \in {"submit", "reschedule"} : TakeCommand(<<i, w>>)
    BY <2>1, <2>3 DEF TakeCommand, outVars
  <2>4. CASE \/ Reschedule(i) \/ Release(i) \/ Lookup(i) \/ CreateJob(i) \/ Count(i)
             \/ Delegate(i)
             \/ SetBetterProxy(i) \/ Register(i) \/ RegisterTimesOut(i) \/ Redelegate(i)
    BY <2>1, <2>4 DEF Reschedule, Release, Lookup, CreateJob, Count, Delegate, SetBetterProxy,
       Register,
       RegisterTimesOut, Redelegate, outVars
  <2>5. CASE \/ SubmitFails(i) \/ BlackListed(i) \/ Record(i) \/ Start(i) \/ StartFails(i)
             \/ Started(i) \/ Uncount(i) \/ Remove(i) \/ PurgeRequest(i)
    BY <2>1, <2>5 DEF SubmitFails, BlackListed, Record, Start, StartFails, Started,
       Uncount, Remove, PurgeRequest, outVars
  <2> QED
    BY <1>3, <2>2, <2>3, <2>4, <2>5 DEF Command
<1>4. ASSUME NEW q \in Queries, EndJob(q)
      PROVE  Same \/ ((Resubmit(q) \/ RemoveEnded(q)) /\ cur[q][1] = j)
  <2>1. CASE UpdateStatus(q) \/ UncountJob(q) \/ PurgeJob(q)
    BY <2>1 DEF UpdateStatus, UncountJob, PurgeJob, outVars
  <2>2. CASE Resubmit(q)
    <3>1. ResubmitJob(cur[q][1]) /\ ended' = ended
      BY <2>2 DEF Resubmit
    <3> QED
      BY <1>2, <2>2, <3>1
  <2>3. CASE RemoveEnded(q)
    <3>1. resub' = resub /\ (ended' = ended \/ ended' = ended \cup {cur[q][1]})
      BY <2>3 DEF RemoveEnded
    <3> QED
      BY <2>3, <3>1
  <2> QED
    BY <1>4, <2>1, <2>2, <2>3 DEF EndJob
<1>5. ASSUME NEW q \in Queries, Query(q) PROVE Same
  BY <1>5, QueryFrame DEF outVars
<1>6. ASSUME NEW l \in Loggers, Logging(l) PROVE Same
  BY <1>6, LoggingFrame
<1>7. ASSUME MainLoop \/ World \/ UNCHANGED vars PROVE Same
  BY <1>7, MainLoopFrame, WorldFrame DEF vars, outVars
<1> HIDE DEF Same
<1>8. \/ Same \/ GiveBack(j)
      \/ \E q \in Queries : (Resubmit(q) \/ RemoveEnded(q)) /\ cur[q][1] = j
  BY <1>1, <1>3, <1>4, <1>5, <1>6, <1>7
<1> QED
  BY <1>8 DEF Same

\* How the only copy of a job goes on
LEMMA StandsSteps ==
  ASSUME Base, LostReplies = FALSE, Next \/ UNCHANGED vars, NEW j \in Jobs, Len(cream[j]) <= 1,
         sub[j] = "register" => Len(cream[j]) = 0
  PROVE  /\ Len(cream'[j]) <= 1
         /\ \/ Stands(j)' = Stands(j)
            \/ Register(j) /\ Stands(j) = "none" /\ Stands(j)' = "REGISTERED"
            \/ Start(j) /\ Stands(j) = "REGISTERED" /\ Stands(j)' = "IDLE"
            \/ /\ Cancel(j) /\ cid[j] > 0
               /\ Stands(j) \notin Final \cup {"none"} /\ Stands(j)' = "CANCELLED"
            \/ Stands(j) \in {"IDLE", "RUNNING"} /\ Stands(j)' \in {"RUNNING", "DONE_OK", "FAILED"}
            \/ Stands(j) \in Terminal /\ Stands(j)' = "PURGED"
<1>0. Len(cream[j]) \in {0, 1}
  <2>1. PICK n \in Nat : n = Len(cream[j])
    BY LenProperties DEF Base, CreamOK
  <2>2. n <= 1
    BY <2>1
  <2>3. n = 0 \/ n = 1
    BY <2>2
  <2> QED
    BY <2>1, <2>3
<1>1. CASE Register(j)
  <2>1. Len(cream[j]) = 0 /\ NewCreamJob(j)
    BY <1>1 DEF Register
  <2>2. Len(cream'[j]) = 1 /\ cream'[j][1].st = "REGISTERED"
    <3>1. /\ Len(cream'[j]) = Len(cream[j]) + 1
          /\ cream'[j][Len(cream[j]) + 1].st = "REGISTERED"
      BY <2>1, NewJobFacts DEF Base
    <3>2. Len(cream[j]) + 1 = 1
      BY <2>1
    <3> QED
      BY <3>1, <3>2
  <2>3. Stands(j)' = "REGISTERED" /\ Stands(j) = "none"
    BY <2>1, <2>2 DEF Stands
  <2> QED
    BY <1>1, <2>2, <2>3
<1>2. CASE ~ Register(j)
  <2>1. Len(cream'[j]) = Len(cream[j])
    BY <1>2, LenSteps DEF RegisterTimesOut
  <2>2. CASE Len(cream[j]) = 0
    BY <2>1, <2>2 DEF Stands
  <2>3. CASE Len(cream[j]) = 1
    <3>1. StateStep(j, 1)
      BY <2>3, StateSteps
    <3>2. Stands(j) = cream[j][1].st /\ Stands(j)' = cream'[j][1].st
      BY <2>1, <2>3 DEF Stands
    <3>3. cream[j][1].st # "none"
      <4>1. cream[j] \in Seq(CreamJobs) /\ 1 \in 1 .. Len(cream[j])
        BY <2>3 DEF Base, CreamOK
      <4>2. cream[j][1] \in CreamJobs
        BY <4>1, ElementOfSeq
      <4> QED
        BY <4>2 DEF CreamJobs, CreamStates, Final, Terminal
    <3>4. Cancel(j) => cid[j] > 0
      BY DEF Cancel
    <3> QED
      BY <1>0, <2>1, <3>1, <3>2, <3>3, <3>4 DEF StateStep
  <2> QED
    BY <1>0, <2>1, <2>2, <2>3
<1> QED
  BY <1>1, <1>2

\* The way of a command that no answer is lost to
Moves(j) ==
  \/ sub'[j] = sub[j] /\ ~ Register(j) /\ ~ Start(j) /\ ~ GiveBack(j)
  \/ sub[j] = "idle" /\ sub'[j] = "lookup" /\ Unread(j)
  \/ /\ sub[j] \in Unregistered /\ sub'[j] \in Unregistered \cup {"fail", "purge"}
     /\ ~ Register(j)
  \/ Register(j) /\ sub[j] = "register" /\ sub'[j] = "record"
  \/ sub[j] \in {"record", "start"} /\ sub'[j] \in {"start", "fail"} /\ ~ Start(j)
  \/ Start(j) /\ sub[j] = "start" /\ sub'[j] = "started"
  \/ sub[j] = "started" /\ sub'[j] = "purge"
  \/ GiveBack(j) /\ sub[j] = "fail" /\ sub'[j] = "uncount"
  \/ sub[j] = "uncount" /\ sub'[j] = "remove"
  \/ sub[j] = "remove" /\ sub'[j] = "purge" /\ db'[j] = "none"
  \/ sub[j] = "purge" /\ sub'[j] = "idle"

\* A command of a job that is not rescheduled goes this way.
LEMMA CommandMoves ==
  ASSUME CopyInv, LostReplies = FALSE, crashes' = 0, Next \/ UNCHANGED vars, NEW j \in Jobs,
         token[j].n = 0, sub[j] \notin {"reschedule", "release"}
  PROVE  Moves(j)
<1>0. /\ Base /\ sub \in [Jobs -> CommandSteps] /\ db \in [Jobs -> Statuses]
      /\ sub[j] \in Without => db[j] = "none"
  BY DEF CopyInv, Base, RowsOK, Fresh
<1>1. ~ Crash /\ (Register(j) => sub[j] = "register" /\ sub'[j] = "record")
  BY <1>0 DEF Crash, CopyInv, Alive, Register, Goto
<1>2. CASE ~ Command(j)
  <2>1. sub'[j] = sub[j]
    BY <1>0, <1>1, <1>2, SubSteps
  <2> QED
    BY <1>2, <2>1 DEF Moves, Command
<1>3. CASE Command(j)
  <2> USE DEF Goto, Moves, Unregistered
  <2>1. CASE TakeCommand(<<j, "submit">>)
    BY <1>0, <2>1 DEF TakeCommand, Unread
  <2>2. ~ TakeCommand(<<j, "reschedule">>)
    <3>1. pool[<<j, "reschedule">>] = 0
      BY <1>0 DEF Base, RequestsOK
    <3> QED
      BY <3>1 DEF TakeCommand
  <2>3. CASE Reschedule(j) \/ Release(j) \/ RegisterTimesOut(j)
    BY <2>3 DEF Reschedule, Release, RegisterTimesOut
  <2>4. CASE Lookup(j)
    <3>1. sub[j] = "lookup" /\ db[j] = "none"
      BY <1>0, <2>4 DEF Lookup, Without
    <3>2. sub' = [sub EXCEPT ![j] = "create"]
      BY <2>4, <3>1 DEF Lookup
    <3> QED
      BY <1>0, <1>1, <3>1, <3>2
  <2>5. CASE \/ CreateJob(j) \/ Count(j) \/ Delegate(j)
             \/ SetBetterProxy(j) \/ Redelegate(j) \/ SubmitFails(j) \/ BlackListed(j)
    BY <1>0, <1>1, <2>5 DEF CreateJob, Count, Delegate, SetBetterProxy,
       Redelegate, SubmitFails, BlackListed
  <2>6. CASE Register(j)
    <3>1. sub[j] = "register" /\ sub' = [sub EXCEPT ![j] = "record"]
      BY <2>6 DEF Register
    <3> QED
      BY <1>0, <2>6, <3>1
  <2>7. CASE Record(j)
    BY <1>0, <2>7 DEF Record, Start
  <2>8. CASE StartFails(j) /\ ~ Start(j)
    BY <1>0, <2>8 DEF StartFails
  <2>9. CASE Start(j)
    <3>1. sub[j] = "start" /\ sub' = [sub EXCEPT ![j] = "started"]
      BY <2>9 DEF Start
    <3> QED
      BY <1>0, <2>9, <3>1
  <2>10. CASE Started(j) \/ Uncount(j) \/ PurgeRequest(j)
    BY <1>0, <2>10 DEF Started, Uncount, PurgeRequest
  <2>11. CASE GiveBack(j)
    <3>1. sub[j] = "fail" /\ sub' = [sub EXCEPT ![j] = "uncount"]
      BY <2>11 DEF GiveBack
    <3> QED
      BY <1>0, <2>11, <3>1
  <2>12. CASE Remove(j)
    <3>1. sub[j] = "remove" /\ sub' = [sub EXCEPT ![j] = "purge"] /\ db' = [db EXCEPT ![j] = "none"]
      BY <2>12 DEF Remove, RemoveJob
    <3> QED
      BY <1>0, <3>1
  <2> HIDE DEF Goto, Moves, Unregistered
  <2> QED
    BY <1>3, <2>1, <2>2, <2>3, <2>4, <2>5, <2>6, <2>7, <2>8, <2>9, <2>10, <2>11, <2>12 DEF Command
<1> QED
  BY <1>2, <1>3

\* A job has a row that was there before, unless its command has just created it.
LEMMA RowAppears ==
  ASSUME Base, Next \/ UNCHANGED vars, NEW j \in Jobs, db'[j] # "none"
  PROVE  InDb(j) \/ sub[j] = "create"
<1>1. SameRow(j) \/ NoRow(j) \/ CreateJob(j) \/ Record(j)
  BY RowSteps
<1>2. Record(j) => InDb(j)
  BY DEF Record, Update, InDb, Base, RowsOK
<1> QED
  BY <1>1, <1>2 DEF SameRow, NoRow, CreateJob, InDb

\* A query that tells of a job finds it ended, and leaves no row of it.
LEMMA QueryTells ==
  ASSUME OnceInv, NEW q \in Queries, Resubmit(q) \/ RemoveEnded(q), NEW j \in Jobs, cur[q][1] = j
  PROVE  /\ Untold(j) /\ Stands(j) \in Final
         /\ db'[j] = "none"
         /\ resub'[j] + (IF j \in ended' THEN 1 ELSE 0) <= 1
         /\ UNCHANGED <<cream, sub, file, pool, token>>
<1>0. /\ resub \in [Jobs -> Nat] /\ db \in [Jobs -> Statuses] /\ q \in Actors
  BY DEF OnceInv, CopyInv, Base, OutOK, RowsOK, Actors
<1>1. Untold(j) /\ Stands(j) \in Final
  BY DEF OnceInv, Closes, Resubmit, RemoveEnded
<1>2. UNCHANGED <<cream, sub, file, pool, token>>
  BY <1>0, EndJobFrame DEF EndJob, creamVars, subVars, dirVars
<1>3. CASE Resubmit(q)
  <2>1. /\ ~ InDb(j) /\ db' = db /\ ended' = ended
        /\ resub' = [resub EXCEPT ![j] = @ + 1] \/ resub' = resub
    BY <1>3 DEF OnceInv, Closes, Resubmit, ResubmitJob, rowVars
  <2>2. resub[j] = 0 /\ j \notin ended'
    BY <1>1, <2>1 DEF Untold
  <2>3. resub'[j] \in {0, 1}
    BY <1>0, <2>1, <2>2
  <2> QED
    BY <1>1, <1>2, <2>1, <2>2, <2>3 DEF InDb
<1>4. CASE RemoveEnded(q)
  <2>1. db' = [db EXCEPT ![j] = "none"] /\ resub' = resub
    BY <1>4 DEF RemoveEnded, RemoveJob
  <2>2. resub'[j] = 0
    BY <1>1, <2>1 DEF Untold
  <2>3. db'[j] = "none"
    BY <1>0, <2>1
  <2> QED
    BY <1>1, <1>2, <2>2, <2>3
<1> QED
  BY <1>3, <1>4

\* A job without a copy
LEMMA EmptyStands ==
  ASSUME Base, NEW j \in Jobs
  PROVE  Stands(j) = "none" <=> Len(cream[j]) = 0
<1>1. CASE Len(cream[j]) = 0
  BY <1>1 DEF Stands
<1>2. CASE Len(cream[j]) # 0
  <2>1. cream[j] \in Seq(CreamJobs)
    BY DEF Base, CreamOK
  <2>2. PICK n \in Nat : n = Len(cream[j])
    BY <2>1, LenProperties
  <2>3. 1 \in 1 .. n
    BY <1>2, <2>2
  <2>4. cream[j][1] \in CreamJobs
    BY <2>1, <2>2, <2>3, ElementOfSeq
  <2>5. cream[j][1].st # "none"
    BY <2>4 DEF CreamJobs, CreamStates, Final, Terminal
  <2> QED
    BY <1>2, <2>5 DEF Stands
<1> QED
  BY <1>1, <1>2

\* The steps that tell nothing of the job
LEMMA SingleUntouched ==
  ASSUME OnceInv, LostReplies = FALSE, crashes' = 0, recycles' = 0, Next \/ UNCHANGED vars,
         NEW j \in Jobs, token'[j].n = 0,
         resub'[j] = resub[j], j \in ended' <=> j \in ended, ~ GiveBack(j)
  PROVE  Single(j)'
<1>0. /\ Base /\ CopyInv /\ Alive /\ recycles = 0 /\ Fresh(j) /\ Single(j)
      /\ sub[j] \in CommandSteps /\ resub[j] \in Nat
  BY DEF OnceInv, CopyInv, Base, RowsOK, OutOK
<1>1. Len(cream[j]) <= 1 /\ (sub[j] = "register" => Len(cream[j]) = 0)
  BY <1>0, EmptyStands DEF Single, Unregistered
<1>2. Moves(j)
  BY <1>0, CommandMoves DEF Single
<1>3. /\ Len(cream'[j]) <= 1
      /\ \/ Stands(j)' = Stands(j)
         \/ Register(j) /\ Stands(j) = "none" /\ Stands(j)' = "REGISTERED"
         \/ Start(j) /\ Stands(j) = "REGISTERED" /\ Stands(j)' = "IDLE"
         \/ /\ Cancel(j) /\ cid[j] > 0
            /\ Stands(j) \notin Final \cup {"none"} /\ Stands(j)' = "CANCELLED"
         \/ Stands(j) \in {"IDLE", "RUNNING"} /\ Stands(j)' \in {"RUNNING", "DONE_OK", "FAILED"}
         \/ Stands(j) \in Terminal /\ Stands(j)' = "PURGED"
  BY <1>0, <1>1, StandsSteps
<1>4. db'[j] # "none" => InDb(j) \/ sub[j] = "create"
  BY <1>0, RowAppears
<1>5. Unread(j)' => Unread(j)
  BY <1>0, UnreadSteps
<1>6. /\ Unread(j) => Stands(j) = "none" /\ sub[j] = "idle"
      /\ db[j] = "none" => cid[j] = 0
  BY <1>0 DEF Fresh, Stands
<1>7. Untold(j)' <=> Untold(j)
  BY DEF Untold
<1>8. Register(j) => sub[j] = "register"
  BY DEF Register
<1>9. Start(j) => sub[j] = "start"
  BY DEF Start
<1>10. Cancel(j) /\ cid[j] > 0 => sub[j] = "idle" /\ InDb(j)
  BY <1>6 DEF Cancel, InDb
<1>11. InDb(j)' => InDb(j) \/ sub[j] = "create"
  BY <1>4 DEF InDb
<1>12. /\ sub[j] \notin {"reschedule", "release"}
       /\ Unread(j) \/ sub[j] \in Unregistered \cup {"record", "start", "fail"} => Untold(j)
       /\ sub[j] \in Unregistered => Stands(j) = "none"
       /\ sub[j] \in {"record", "start", "fail", "uncount", "remove"} => Stands(j) \in Unstarted
       /\ InDb(j) /\ Stands(j) \notin Unstarted => Untold(j)
       /\ sub[j] \in {"idle", "started", "purge"} /\ InDb(j) => Stands(j) # "REGISTERED"
       /\ resub[j] + (IF j \in ended THEN 1 ELSE 0) <= 1
       /\ resub[j] > 0 => Stands(j) \notin {"IDLE", "RUNNING"}
  BY <1>0 DEF Single
<1>13. sub'[j] \notin {"reschedule", "release"}
  BY <1>2, <1>12 DEF Moves, Unregistered
<1>14. Unread(j)' \/ sub'[j] \in Unregistered \cup {"record", "start", "fail"} => Untold(j)'
  BY <1>2, <1>5, <1>7, <1>12 DEF Moves, Unregistered
<1>15. sub'[j] \in Unregistered => Stands(j)' = "none"
  <2>1. sub'[j] \in Unregistered => Stands(j) = "none" /\ ~ Register(j)
    BY <1>2, <1>6, <1>8, <1>12 DEF Moves, Unregistered
  <2> QED
    BY <1>3, <2>1 DEF Terminal, Final
<1>16. sub'[j] \in {"record", "start", "fail", "uncount", "remove"} => Stands(j)' \in Unstarted
  <2>1. sub'[j] \in {"record", "start", "fail", "uncount", "remove"} =>
          Stands(j) \in Unstarted /\ ~ Start(j) /\ ~ (Cancel(j) /\ cid[j] > 0)
    BY <1>2, <1>9, <1>10, <1>12 DEF Moves, Unregistered, Unstarted
  <2> QED
    BY <1>3, <2>1 DEF Terminal, Final, Unstarted
<1>17. InDb(j)' /\ Stands(j)' \notin Unstarted => Untold(j)'
  BY <1>3, <1>7, <1>9, <1>10, <1>11, <1>12 DEF Unstarted, Unregistered, Terminal, Final
<1>18. sub'[j] \in {"idle", "started", "purge"} /\ InDb(j)' => Stands(j)' # "REGISTERED"
  <2>1. sub'[j] \in {"idle", "started", "purge"} => ~ Register(j)
    BY <1>2, <1>8 DEF Moves, Unregistered
  <2>2. sub[j] \in Unregistered => Stands(j) # "REGISTERED"
    BY <1>12
  <2>3. CASE sub[j] \in {"idle", "started", "purge"}
    BY <1>3, <1>11, <1>12, <2>1, <2>3 DEF Terminal
  <2>4. CASE sub[j] \in Unregistered
    BY <1>3, <2>1, <2>2, <2>4 DEF Terminal
  <2>5. CASE sub[j] \notin {"idle", "started", "purge"} \cup Unregistered
    <3>1. sub'[j] \in {"idle", "started", "purge"} => (Start(j) \/ ~ InDb(j)')
      BY <1>2, <2>5 DEF Moves, InDb
    <3>2. Start(j) => Stands(j)' # "REGISTERED"
      <4>1. Start(j) => cream'[j][1].st # "REGISTERED" \/ Len(cream'[j]) = 0
        <5> SUFFICES ASSUME Start(j) PROVE Stands(j)' # "REGISTERED"
          BY DEF Stands
        <5>1. PICK n \in Nat : n = reg[j]
          BY <1>0 DEF Base, RowsOK
        <5>2. n > 0 /\ cream[j][n].st = "REGISTERED" /\ SetState(j, n, "IDLE") /\ n <= Len(cream[j])
          BY <1>0, <5>1, LenProperties DEF Start, Startable, SetState, Base, RowsOK, CreamOK
        <5>3. PICK m \in Nat : m = Len(cream[j])
          BY <1>0, LenProperties DEF Base, CreamOK
        <5>4. n = 1 /\ Len(cream[j]) = 1
          <6>1. n > 0 /\ n <= m /\ m <= 1
            BY <1>1, <5>2, <5>3
          <6>2. n = 1 /\ m = 1
            BY <6>1
          <6> QED
            BY <5>3, <6>2
        <5>5. Changed(j, 1, "IDLE")
          BY <1>0, <5>2, <5>4, SetStateFacts DEF CreamStates, Base
        <5> QED
          BY <5>4, <5>5 DEF Changed, Stands
      <4> QED
        BY <4>1 DEF Stands
    <3> QED
      BY <3>1, <3>2
  <2> QED
    BY <2>3, <2>4, <2>5
<1>19. resub'[j] + (IF j \in ended' THEN 1 ELSE 0) <= 1
  BY <1>12
<1>20. resub'[j] > 0 => Stands(j)' \notin {"IDLE", "RUNNING"}
  <2>1. resub[j] > 0 => ~ Untold(j)
    BY DEF Untold
  <2>2. resub[j] > 0 => ~ Start(j)
    BY <1>9, <1>12, <2>1
  <2> QED
    BY <1>3, <1>12, <2>2 DEF Terminal
<1> QED
  BY <1>3, <1>13, <1>14, <1>15, <1>16, <1>17, <1>18, <1>19, <1>20 DEF Single

\* Every step leaves a job one copy and one outcome.
LEMMA SingleNext ==
  ASSUME OnceInv, LostReplies = FALSE, Replanned = {}, crashes' = 0, recycles' = 0,
         Next \/ UNCHANGED vars, NEW j \in Jobs
  PROVE  Single(j)'
<1>0. /\ Base /\ CopyInv /\ Alive /\ recycles = 0 /\ Fresh(j) /\ Single(j)
      /\ resub \in [Jobs -> Nat] /\ sub \in [Jobs -> CommandSteps]
  BY DEF OnceInv, CopyInv, Base, OutOK, RowsOK
<1>1. token'[j].n = 0
  <2>1. ~ Replan(j)
    BY DEF Replan
  <2> QED
    BY <1>0, <2>1, ReplanSteps DEF Single
<1>2. CASE GiveBack(j)
  <2>1. /\ sub[j] = "fail" /\ sub' = [sub EXCEPT ![j] = "uncount"] /\ ResubmitJob(j)
        /\ UNCHANGED <<cream, db, file, pool, ended>>
    BY <1>2 DEF GiveBack, Goto, creamVars, rowVars, dirVars
  <2>2. sub'[j] = "uncount"
    BY <1>0, <2>1
  <2>3. /\ Len(cream[j]) <= 1 /\ Untold(j) /\ Stands(j) \in Unstarted /\ ~ Unread(j)
    BY <1>0, <2>1 DEF Single, Fresh
  <2>4. resub'[j] \in {0, 1} /\ j \notin ended'
    BY <1>0, <2>1, <2>3 DEF Untold, ResubmitJob
  <2>5. Stands(j)' = Stands(j) /\ ~ Unread(j)' /\ Len(cream'[j]) <= 1
    BY <2>1, <2>3 DEF Stands, Unread
  <2>6. resub'[j] + (IF j \in ended' THEN 1 ELSE 0) <= 1
    BY <2>4
  <2> QED
    BY <1>1, <2>2, <2>3, <2>5, <2>6 DEF Single, Unstarted, Unregistered
<1>3. ASSUME NEW q \in Queries, Resubmit(q) \/ RemoveEnded(q), cur[q][1] = j
      PROVE  Single(j)'
  <2>1. /\ Untold(j) /\ Stands(j) \in Final
        /\ db'[j] = "none"
        /\ resub'[j] + (IF j \in ended' THEN 1 ELSE 0) <= 1
        /\ UNCHANGED <<cream, sub, file, pool, token>>
    BY <1>3, QueryTells
  <2>2. /\ Stands(j)' = Stands(j) /\ (Unread(j)' <=> Unread(j)) /\ sub'[j] = sub[j]
        /\ cream' = cream
    BY <2>1 DEF Stands, Unread
  <2>3. Stands(j) \notin {"none", "REGISTERED", "IDLE", "RUNNING"}
    BY <2>1 DEF Final, Terminal
  <2>4. ~ Unread(j) /\ Len(cream'[j]) <= 1
    BY <1>0, <2>2, <2>3, EmptyStands DEF Fresh, Single
  <2>5. sub[j] \notin Unregistered \cup {"record", "start", "fail", "uncount", "remove"}
    BY <1>0, <2>3 DEF Single, Unstarted
  <2>6. sub'[j] \notin {"reschedule", "release"}
    BY <1>0, <2>2 DEF Single
  <2> QED
    BY <1>1, <2>1, <2>2, <2>3, <2>4, <2>5, <2>6 DEF Single, InDb
<1>4. CASE resub'[j] = resub[j] /\ (j \in ended' <=> j \in ended) /\ ~ GiveBack(j)
  BY <1>1, <1>4, SingleUntouched
<1> QED
  BY <1>0, <1>2, <1>3, <1>4, ToldSteps

\* A query that looks at a job finds that nothing has been told of it.
LEMMA NextJobCloses ==
  ASSUME OnceInv, NEW q \in Queries, NEW j \in Jobs, NEW k \in 1 .. Len(cream[j]),
         NextJob(q, j, k), ~ Ignored(j, k)
  PROVE  Untold(j) /\ Stands(j) \in Final
<1>0. Base /\ CreamOK /\ QueriesOK /\ Single(j) /\ q \in Actors
  BY DEF OnceInv, CopyInv, Base, Actors
<1>1. PICK m \in Nat : m = Len(cream[j])
  BY <1>0, LenProperties DEF CreamOK
<1>2. k = 1 /\ Len(cream[j]) = 1
  <2>1. m <= 1 /\ k \in 1 .. m
    BY <1>0, <1>1 DEF Single
  <2>2. k = 1 /\ m = 1
    BY <2>1
  <2> QED
    BY <1>1, <2>2
<1>3. PICK i \in 1 .. upto[q] : events[i][1] = j /\ events[i][2] = k
  <2>1. <<j, k>> \in todo[q]
    BY DEF NextJob
  <2>2. \E i \in 1 .. upto[q] : events[i][1] = <<j, k>>[1] /\ events[i][2] = <<j, k>>[2]
    BY <1>0, <2>1 DEF QueriesOK
  <2> QED
    BY <2>2
<1>4. i \in 1 .. Len(events)
  BY <1>0, LenProperties DEF QueriesOK, CreamOK
<1>5. cream[j][1].st \in Final
  BY <1>0, <1>2, <1>3, <1>4 DEF CreamOK
<1>6. Stands(j) \in Final
  BY <1>2, <1>5 DEF Stands
<1>7. InDb(j)
  BY DEF Ignored
<1> QED
  BY <1>0, <1>6, <1>7 DEF Single, Unstarted, Final, Terminal

\* Every step leaves it so until the query tells how the job ended.
LEMMA ClosesNext ==
  ASSUME OnceInv, LostReplies = FALSE, crashes' = 0, recycles' = 0,
         Next \/ UNCHANGED vars, NEW q \in Queries
  PROVE  Closes(q)'
<1> DEFINE R == {"update", "count", "remove", "resubmit"}
<1>0. /\ Base /\ CopyInv /\ Alive /\ q \in Actors /\ ~ Crash /\ Closes(q)
      /\ apc \in [Actors -> ActorSteps] /\ cur \in [Actors -> Tasks \cup {Nobody}]
      /\ db \in [Jobs -> Statuses]
  BY DEF OnceInv, CopyInv, Base, QueriesOK, RowsOK, Actors, Crash, Alive
<1>1. ASSUME apc[q] \in R PROVE cur[q][1] \in Jobs
  BY <1>0, <1>1 DEF Base, QueriesOK, Tasks, Ending
<1>2. ASSUME apc[q] \in R, apc'[q] = apc[q], cur'[q] = cur[q], ~ EndJob(q) PROVE Closes(q)'
  <2>1. PICK j \in Jobs : j = cur[q][1]
    BY <1>1, <1>2
  <2>2. /\ Untold(j) /\ Stands(j) \in Final /\ (apc[q] = "resubmit" => ~ InDb(j))
        /\ Single(j) /\ resched = q
    BY <1>0, <1>2, <2>1 DEF OnceInv, Closes, CopyInv, Holds, Ending
  <2>3. Stands(j) \notin {"none", "REGISTERED", "IDLE", "RUNNING"}
    BY <2>2 DEF Final, Terminal
  <2>4. sub[j] \notin Unregistered \cup {"fail", "start"}
    BY <2>2, <2>3 DEF Single, Unstarted
  <2>5. ~ GiveBack(j) /\ ~ Register(j) /\ ~ Start(j)
    BY <2>4 DEF GiveBack, Register, Start, Unregistered
  <2>6. ASSUME NEW p \in Queries, Resubmit(p) \/ RemoveEnded(p) PROVE FALSE
    <3>1. apc[p] \in Ending
      BY <2>6 DEF Resubmit, RemoveEnded, Ending
    <3>2. p = q
      BY <1>0, <2>2, <3>1 DEF CopyInv, Holds
    <3> QED
      BY <1>2, <2>6, <3>2 DEF EndJob
  <2>7. Untold(j)'
    BY <1>0, <2>2, <2>5, <2>6, ToldSteps DEF Untold
  <2>8. Stands(j)' \in Final
    <3>1. Len(cream[j]) <= 1 /\ (sub[j] = "register" => Len(cream[j]) = 0)
      BY <2>2, <2>4 DEF Single, Unregistered
    <3> QED
      BY <1>0, <2>2, <2>3, <2>5, <3>1, StandsSteps DEF Final, Terminal
  <2>9. apc'[q] = "resubmit" => ~ InDb(j)'
    BY <1>0, <1>2, <2>2, <2>4, RowAppears DEF InDb, Unregistered
  <2> QED
    BY <1>2, <2>1, <2>7, <2>8, <2>9 DEF Closes, Untold, Stands, InDb
<1>3. CASE EndJob(q)
  <2>1. UNCHANGED <<cream>>
    BY <1>0, <1>3, EndJobFrame DEF creamVars
  <2>2. CASE UpdateStatus(q) \/ UncountJob(q)
    <3>1. /\ apc[q] \in R /\ UNCHANGED <<cur, resub, ended>>
          /\ \E x \in {"count", "remove"} : apc' = [apc EXCEPT ![q] = x]
      BY <2>2 DEF UpdateStatus, UncountJob, outVars
    <3>2. apc'[q] # "resubmit"
      BY <1>0, <3>1
    <3>3. Untold(cur[q][1]) /\ Stands(cur[q][1]) \in Final
      BY <1>0, <3>1 DEF Closes
    <3> QED
      BY <2>1, <3>1, <3>2, <3>3 DEF Closes, Untold, Stands
  <2>3. CASE RemoveEnded(q)
    <3>1. CASE apc'[q] \in R
      <4>1. PICK j \in Jobs : j = cur[q][1]
        BY <1>1, <2>3 DEF RemoveEnded
      <4>2. Untold(j) /\ Stands(j) \in Final
        BY <1>0, <2>3, <4>1 DEF Closes, RemoveEnded
      <4>3. /\ cur[q][3] = "FAILED" /\ apc'[q] = "resubmit" /\ cur' = cur
        BY <1>0, <2>3, <3>1 DEF RemoveEnded, Done
      <4>4. resub' = resub /\ ended' = ended /\ db' = [db EXCEPT ![j] = "none"]
        BY <2>3, <4>1, <4>3 DEF RemoveEnded, RemoveJob
      <4>5. db'[j] = "none"
        BY <1>0, <4>4
      <4> QED
        BY <2>1, <4>1, <4>2, <4>3, <4>4, <4>5 DEF Closes, Untold, Stands, InDb
    <3>2. CASE apc'[q] \notin R
      BY <3>2 DEF Closes
    <3> QED
      BY <3>1, <3>2
  <2>4. CASE Resubmit(q) \/ PurgeJob(q)
    <3>1. \E x \in {"purge", "next"} : apc' = [apc EXCEPT ![q] = x]
      BY <2>4 DEF Resubmit, PurgeJob, Done
    <3>2. apc'[q] \notin R
      BY <1>0, <3>1
    <3> QED
      BY <3>2 DEF Closes
  <2> QED
    BY <1>3, <2>2, <2>3, <2>4 DEF EndJob
<1>4. CASE Query(q) /\ ~ EndJob(q)
  <2>1. CASE Poll(q) \/ QueryFails(q) \/ QueryWithoutProxy(q) \/ SetEventId(q)
    <3>1. \E x \in {"query", "idle"} : apc' = [apc EXCEPT ![q] = x]
      BY <2>1 DEF Poll, QueryFails, QueryWithoutProxy, SetEventId
    <3>2. apc'[q] \notin R
      BY <1>0, <3>1
    <3> QED
      BY <3>2 DEF Closes
  <2>2. CASE QueryEvents(q)
    <3>1. \E x \in {"next", "idle"} : apc' = [apc EXCEPT ![q] = x]
      BY <2>2 DEF QueryEvents
    <3>2. apc'[q] \notin R
      BY <1>0, <3>1
    <3> QED
      BY <3>2 DEF Closes
  <2>3. ASSUME NEW j \in Jobs, NEW k \in 1 .. Len(cream[j]), NextJob(q, j, k)
        PROVE  Closes(q)'
    <3>1. CASE UNCHANGED <<apc, cur>>
      <4>1. apc'[q] \notin R
        BY <2>3, <3>1 DEF NextJob
      <4> QED
        BY <4>1 DEF Closes
    <3>2. CASE ~ UNCHANGED <<apc, cur>>
      <4>1. /\ ~ Ignored(j, k)
            /\ \E st : cur' = [cur EXCEPT ![q] = <<j, k, st>>]
            /\ \E x \in {"count", "update"} : apc' = [apc EXCEPT ![q] = x]
        BY <2>3, <3>2 DEF NextJob
      <4>2. Untold(j) /\ Stands(j) \in Final
        BY <2>3, <4>1, NextJobCloses
      <4>3. cur'[q][1] = j /\ apc'[q] # "resubmit"
        BY <1>0, <4>1
      <4>4. UNCHANGED <<cream, resub, ended>>
        BY <1>4, QueryFrame DEF creamVars, outVars
      <4> QED
        BY <4>2, <4>3, <4>4 DEF Closes, Untold, Stands
    <3> QED
      BY <3>1, <3>2
  <2> QED
    BY <1>4, <2>1, <2>2, <2>3 DEF Query
<1>5. CASE apc'[q] = apc[q] /\ cur'[q] = cur[q] /\ ~ EndJob(q)
  <2>1. CASE apc[q] \in R
    BY <1>2, <1>5, <2>1
  <2>2. CASE apc[q] \notin R
    BY <1>5, <2>2 DEF Closes
  <2> QED
    BY <2>1, <2>2
<1> QED
  BY <1>0, <1>3, <1>4, <1>5, QuerySteps

\* The invariant, where no reply is lost and nobody replans: until ICE crashes
\* or moves old/ back, a job has one copy and one outcome.
LEMMA OnceInvariant ==
  ASSUME LostReplies = FALSE, Replanned = {}
  PROVE  Spec => [](crashes = 0 /\ recycles = 0 => OnceInv)
<1> DEFINE Inv == Base /\ crashes \in Nat /\ (crashes = 0 /\ recycles = 0 => OnceInv)
<1>1. Init => OnceInv
  <2> SUFFICES ASSUME Init PROVE OnceInv
    OBVIOUS
  <2>1. CopyInv
    BY CopyInit
  <2>2. ASSUME NEW j \in Jobs PROVE Single(j)
    <3>1. /\ Len(cream[j]) = 0 /\ token[j].n = 0 /\ sub[j] = "idle" /\ db[j] = "none"
          /\ resub[j] = 0 /\ j \notin ended
      BY DEF Init
    <3> QED
      BY <3>1 DEF Single, Stands, Untold, Unregistered, InDb
  <2>3. ASSUME NEW q \in Queries PROVE Closes(q)
    BY DEF Init, Closes, Actors
  <2> QED
    BY <2>1, <2>2, <2>3 DEF OnceInv
<1>2. OnceInv /\ [Next]_vars /\ crashes' = 0 /\ recycles' = 0 => OnceInv'
  <2> SUFFICES ASSUME OnceInv, crashes' = 0, recycles' = 0, Next \/ UNCHANGED vars PROVE OnceInv'
    OBVIOUS
  <2>1. CopyInv'
    BY CopyNext DEF OnceInv
  <2>2. ASSUME NEW j \in Jobs PROVE Single(j)'
    BY SingleNext
  <2>3. ASSUME NEW q \in Queries PROVE Closes(q)'
    BY ClosesNext
  <2> QED
    BY <2>1, <2>2, <2>3 DEF OnceInv
<1>3. Init => Inv
  BY <1>1, BaseInit DEF Init
<1>4. Inv /\ [Next]_vars => Inv'
  <2> SUFFICES ASSUME Inv, Next \/ UNCHANGED vars PROVE Inv'
    OBVIOUS
  <2>1. Base'
    BY BaseNext
  <2>2. crashes' = crashes \/ crashes' = crashes + 1
    BY CrashSteps DEF Crash
  <2>3. recycles \in Nat /\ (recycles' = recycles \/ recycles' = recycles + 1)
    BY RecycleSteps DEF Recycle, Base, RequestsOK
  <2>4. ASSUME crashes' = 0, recycles' = 0 PROVE OnceInv'
    <3>1. OnceInv
      BY <2>2, <2>3, <2>4
    <3> QED
      BY <1>2, <2>4, <3>1
  <2> QED
    BY <2>1, <2>2, <2>4
<1>5. Inv => (crashes = 0 /\ recycles = 0 => OnceInv)
  OBVIOUS
<1> QED
  BY <1>3, <1>4, <1>5, PTL DEF Spec

\* A job is resubmitted or it ends, never both and never twice, whatever the
\* order of its command, the cancellation, the logging pool and the queries: a
\* command gives a job back only before it has started it, and the row of a job
\* leaves the database, under s_reschedule_mutex, before a query tells of it.
THEOREM OneOutcome ==
  ASSUME LostReplies = FALSE, Replanned = {}
  PROVE  Spec => [](crashes = 0 /\ recycles = 0 => GivenBackOnce)
<1>1. (crashes = 0 /\ recycles = 0 => OnceInv) => (crashes = 0 /\ recycles = 0 => GivenBackOnce)
  BY DEF OnceInv, Single, GivenBackOnce
<1>2. Spec => [](crashes = 0 /\ recycles = 0 => OnceInv)
  BY OnceInvariant
<1> QED
  BY <1>1, <1>2, PTL

\* ICE gives a job back only when its copy on CREAM has not been started or has
\* ended, and it is not started afterwards.
THEOREM GivenBackIsDead ==
  ASSUME LostReplies = FALSE, Replanned = {}
  PROVE  Spec => [](crashes = 0 /\ recycles = 0 => ResubmittedDead)
<1>1. ASSUME OnceInv PROVE ResubmittedDead
  <2> SUFFICES ASSUME NEW j \in Jobs, resub[j] > 0, NEW k \in 1 .. Len(cream[j])
               PROVE  cream[j][k].st \notin {"IDLE", "RUNNING"}
    BY DEF ResubmittedDead
  <2>1. Base /\ Single(j)
    BY <1>1 DEF OnceInv, CopyInv
  <2>2. PICK m \in Nat : m = Len(cream[j])
    BY <2>1, LenProperties DEF Base, CreamOK
  <2>3. m <= 1 /\ k \in 1 .. m
    BY <2>1, <2>2 DEF Single
  <2>4. k = 1 /\ m = 1
    BY <2>3
  <2>5. Stands(j) = cream[j][k].st
    BY <2>2, <2>4 DEF Stands
  <2> QED
    BY <2>1, <2>5 DEF Single
<1>2. (crashes = 0 /\ recycles = 0 => OnceInv) => (crashes = 0 /\ recycles = 0 => ResubmittedDead)
  BY <1>1
<1>3. Spec => [](crashes = 0 /\ recycles = 0 => OnceInv)
  BY OnceInvariant
<1> QED
  BY <1>2, <1>3, PTL
=============================================================================
