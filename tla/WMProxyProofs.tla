--------------------------- MODULE WMProxyProofs ---------------------------
(***************************************************************************)
(* For any number of server processes, starts, cancels and failures: an    *)
(* accepted job is settled once all servers are done with it; a job whose  *)
(* directory jobCancel has removed is never handed to the WM, if clients   *)
(* are answered only after submit() (AsyncJobStart is off); and with one   *)
(* failure at most a job is handed to the WM once, if no starts overlap.   *)
(***************************************************************************)
EXTENDS WMProxy, FiniteSetTheorems, TLAPS

\* What the proof needs of the types.
Shapes ==
  /\ pc \in [Servers -> {"idle"} \cup StartPCs \cup CancelPCs]
  /\ lb \in [accepted : BOOLEAN, last : {"none", "START", "OK", "FAIL"},
             aborted : BOOLEAN, cancelling : BOOLEAN]
  /\ registered \in BOOLEAN
  /\ known \in BOOLEAN
  /\ delivered \in Nat

\* Before its client knows the job only one server, in jobSubmit, works on it.
Unknown ==
  /\ known => registered
  /\ ~registered => \A t \in Servers : pc[t] = "idle"
  /\ ~known => \A t \in Servers :
       /\ pc[t] \notin {"file", "lock"} \cup CancelPCs
       /\ \A u \in Servers : pc[t] # "idle" /\ pc[u] # "idle" => t = u

\* The steps of submit() before, and with, the delivery
Critical == {"accept", "enqueue", "prepare", "check", "deliver"}

\* A start on its way to the delivery holds the lock; jobSubmit does not need it.
Holding == \A t \in Servers : pc[t] \in Critical => lock = t \/ ~known

\* jobCancel tests the lock, and removes the directory, after the abort.
AbortFirst ==
  (\E s \in Servers : pc[s] \in {"test", "purge"}) \/ "cancel" \in purgedBy
    => lb.aborted

\* Once jobCancel has found the lock free no server is past isAborted().
NonePast ==
  (\E s \in Servers : pc[s] = "purge") \/ "cancel" \in purgedBy
    => \A t \in Servers : pc[t] # "deliver"

Inv == Shapes /\ Unknown /\ Holding /\ AbortFirst /\ NonePast

-----------------------------------------------------------------------------
Events == {"ACCEPTED", "START", "OK", "FAIL", "ABORT", "CANCEL"}

\* A step that takes server s to l and leaves the client's knowledge alone, and
\* what it must respect to keep the invariant.
Move(s, l) ==
  /\ l \in {"idle"} \cup StartPCs \cup CancelPCs
  /\ pc' = [pc EXCEPT ![s] = l]
  /\ registered' = registered /\ known' = known
  /\ lb' = lb \/ \E e \in Events : lb' = Logged(e)
  /\ delivered' \in Nat
  /\ ~known => pc[s] # "idle" \/ l = "idle"
  /\ l \in {"file", "lock"} \cup CancelPCs => known
  /\ l \in Critical /\ known => lock' = s
  /\ \A t \in Servers \ {s} : lock = t => lock' = t
  /\ l \in {"test", "purge"} => lb'.aborted
  /\ l = "deliver" => ~lb.aborted
  /\ l = "purge" => \A t \in Servers : pc[t] # "deliver"
  /\ "cancel" \in purgedBy' => "cancel" \in purgedBy \/ pc[s] = "purge"

\* The invariant holds initially.
LEMMA InvInit == Init => Inv
<1> SUFFICES ASSUME Init PROVE Inv
  OBVIOUS
<1>1. Shapes
  BY DEF Init, Shapes
<1>2. \A t \in Servers : pc[t] = "idle"
  BY DEF Init
<1>3. Unknown
  BY <1>2 DEF Init, Unknown, CancelPCs
<1>4. Holding /\ AbortFirst /\ NonePast
  BY <1>2 DEF Init, Holding, Critical, AbortFirst, NonePast
<1> QED
  BY <1>1, <1>3, <1>4 DEF Inv

\* An event that is logged leaves an abort in place.
LEMMA LoggedKeeps ==
  ASSUME Shapes, NEW e \in Events
  PROVE  /\ Logged(e) \in [accepted : BOOLEAN, last : {"none", "START", "OK", "FAIL"},
                           aborted : BOOLEAN, cancelling : BOOLEAN]
         /\ lb.aborted => Logged(e).aborted
         /\ Logged("ABORT").aborted
BY DEF Logged, Shapes, Events

\* Such a step keeps the invariant.
LEMMA MoveKeeps ==
  ASSUME Inv, NEW s \in Servers, NEW l, Move(s, l)
  PROVE  Inv'
<1>1. lb' \in [accepted : BOOLEAN, last : {"none", "START", "OK", "FAIL"},
               aborted : BOOLEAN, cancelling : BOOLEAN] /\ (lb.aborted => lb'.aborted)
  BY LoggedKeeps DEF Inv, Shapes, Move
<1>2. Shapes'
  BY <1>1 DEF Inv, Shapes, Move
<1>3. \A t \in Servers : pc'[t] = IF t = s THEN l ELSE pc[t]
  BY DEF Inv, Shapes, Move
<1>4. Unknown'
  BY <1>3 DEF Inv, Unknown, Move, Shapes
<1>5. Holding'
  BY <1>3 DEF Inv, Holding, Move
<1>6. AbortFirst'
  BY <1>1, <1>3 DEF Inv, AbortFirst, Move
<1>7. NonePast'
  BY <1>3 DEF Inv, NonePast, AbortFirst, Move
<1> QED
  BY <1>2, <1>4, <1>5, <1>6, <1>7 DEF Inv

\* Every step keeps the invariant, if jobSubmit answers its client last.
LEMMA InvNext == ASSUME AsyncJobStart = FALSE PROVE Inv /\ [Next]_vars => Inv'
<1> SUFFICES ASSUME Inv, [Next]_vars PROVE Inv'
  OBVIOUS
<1>1. CASE UNCHANGED vars
  BY <1>1 DEF vars, Inv, Shapes, Unknown, Holding, AbortFirst, NonePast
<1>2. CASE Next
  <2>1. PICK s \in Servers : Server(s)
    BY <1>2 DEF Next
  <2>2. /\ pc[s] \in {"file", "lock"} \cup CancelPCs => known
        /\ pc[s] \in Critical /\ known => lock = s
    BY DEF Inv, Unknown, Holding
  <2> USE DEF Goto, Fault, Events, Critical, StartPCs, CancelPCs, job, wm, sandbox,
              LockedByOther, ClosedBy
  <2>3. CASE JobRegister(s)
    <3>1. \A t \in Servers : pc[t] = "idle" /\ pc'[t] = "idle"
      BY <2>3 DEF JobRegister, Register, Inv, Unknown
    <3>2. Shapes' /\ Unknown' /\ Holding'
      BY <2>3, <3>1 DEF JobRegister, Register, Inv, Shapes, Unknown, Holding
    <3>3. AbortFirst' /\ NonePast'
      BY <2>3, <3>1 DEF JobRegister, Register, Inv, AbortFirst, NonePast
    <3> QED
      BY <3>2, <3>3 DEF Inv
  <2>4. CASE JobSubmit(s)
    <3>1. \A t \in Servers : pc'[t] = IF t = s THEN "accept" ELSE "idle"
      BY <2>4 DEF JobSubmit, Register, Inv, Unknown, Shapes
    <3>2. ~known' /\ registered'
      BY <2>4 DEF JobSubmit, Register
    <3>3. Shapes'
      BY <2>4, <3>2 DEF JobSubmit, Register, Inv, Shapes
    <3>4. Unknown' /\ Holding'
      BY <3>1, <3>2 DEF Unknown, Holding
    <3>5. AbortFirst' /\ NonePast'
      BY <2>4, <3>1 DEF JobSubmit, Register, Inv, AbortFirst, NonePast
    <3> QED
      BY <3>3, <3>4, <3>5 DEF Inv
  <2>5. CASE JobStart(s)
    <3>1. \E l : Move(s, l)
      BY <2>5, <2>2 DEF Inv, Shapes, Move, JobStart
    <3> QED
      BY <3>1, MoveKeeps
  <2>6. CASE StartFile(s)
    <3>1. \E l : Move(s, l)
      BY <2>6, <2>2 DEF Inv, Shapes, Move, StartFile
    <3> QED
      BY <3>1, MoveKeeps
  <2>7. CASE OperationLock(s)
    <3>1. \E l : Move(s, l)
      BY <2>7, <2>2, WMProxyAssumption DEF Inv, Shapes, Move, OperationLock
    <3> QED
      BY <3>1, MoveKeeps
  <2>8. CASE LogAccept(s)
    <3>1. \E l : Move(s, l)
      BY <2>8, <2>2 DEF Inv, Shapes, Move, LogAccept, LogEvent
    <3> QED
      BY <3>1, MoveKeeps
  <2>9. CASE LogEnqueueStart(s)
    <3>1. \E l : Move(s, l)
      BY <2>9, <2>2 DEF Inv, Shapes, Move, LogEnqueueStart, LogEvent
    <3> QED
      BY <3>1, MoveKeeps
  <2>10. CASE Prepare(s)
    <3>1. \E l : Move(s, l)
      BY <2>10, <2>2 DEF Inv, Shapes, Move, Prepare
    <3> QED
      BY <3>1, MoveKeeps
  <2>11. CASE LimitAbort(s)
    <3>1. \E l : Move(s, l)
      BY <2>11, <2>2 DEF Inv, Shapes, Move, LimitAbort
    <3> QED
      BY <3>1, MoveKeeps
  <2>12. CASE LimitTest(s)
    <3>1. \E l : Move(s, l)
      BY <2>12, <2>2 DEF Inv, Shapes, Move, LimitTest
    <3> QED
      BY <3>1, MoveKeeps
  <2>13. CASE LimitPurge(s)
    <3>1. \E l : Move(s, l)
      BY <2>13, <2>2 DEF Inv, Shapes, Move, LimitPurge, DoPurge
    <3> QED
      BY <3>1, MoveKeeps
  <2>14. CASE LogFail(s)
    <3>1. \E l : Move(s, l)
      BY <2>14, <2>2 DEF Inv, Shapes, Move, LogFail, LogEvent
    <3> QED
      BY <3>1, MoveKeeps
  <2>15. CASE BadAdFail(s)
    <3>1. \E l : Move(s, l)
      BY <2>15, <2>2 DEF Inv, Shapes, Move, BadAdFail, LogEvent
    <3> QED
      BY <3>1, MoveKeeps
  <2>16. CASE BadAdAbort(s)
    <3>1. \E l : Move(s, l)
      BY <2>16, <2>2 DEF Inv, Shapes, Move, BadAdAbort, LogEvent
    <3> QED
      BY <3>1, MoveKeeps
  <2>17. CASE IsAborted(s)
    <3>1. \E l : Move(s, l)
      BY <2>17, <2>2 DEF Inv, Shapes, Move, IsAborted
    <3> QED
      BY <3>1, MoveKeeps
  <2>18. CASE Deliver(s)
    <3>1. \E l : Move(s, l)
      BY <2>18, <2>2 DEF Inv, Shapes, Move, Deliver
    <3> QED
      BY <3>1, MoveKeeps
  <2>19. CASE LogOk(s)
    <3>1. \E l : Move(s, l)
      BY <2>19, <2>2 DEF Inv, Shapes, Move, LogOk, LogEvent
    <3> QED
      BY <3>1, MoveKeeps
  <2>20. CASE LogUndelivered(s)
    <3>1. \E l : Move(s, l)
      BY <2>20, <2>2 DEF Inv, Shapes, Move, LogUndelivered, LogEvent
    <3> QED
      BY <3>1, MoveKeeps
  <2>21. CASE WriteJdl(s)
    <3>1. \E l : Move(s, l)
      BY <2>21, <2>2 DEF Inv, Shapes, Move, WriteJdl
    <3> QED
      BY <3>1, MoveKeeps
  <2>22. CASE RenameJdl(s)
    <3>1. \E l : Move(s, l)
      BY <2>22, <2>2 DEF Inv, Shapes, Move, RenameJdl
    <3> QED
      BY <3>1, MoveKeeps
  <2>23. CASE OperationUnlock(s)
    <3>1. CASE known' = known
      <4>1. Move(s, "idle")
        BY <2>23, <3>1 DEF Inv, Shapes, Move, OperationUnlock
      <4> QED
        BY <4>1, MoveKeeps
    <3>2. CASE known' # known
      <4>1. ~known /\ known'
        BY <2>23, <3>2 DEF OperationUnlock, Inv, Shapes
      <4>2. pc[s] # "idle" /\ registered
        BY <2>23 DEF OperationUnlock, Inv, Unknown
      <4>3. \A t \in Servers : pc'[t] = "idle"
        BY <2>23, <4>1, <4>2 DEF OperationUnlock, Inv, Shapes, Unknown
      <4>4. Shapes' /\ Unknown' /\ Holding'
        BY <2>23, <4>1, <4>2, <4>3 DEF OperationUnlock, Inv, Shapes, Unknown, Holding
      <4>5. AbortFirst' /\ NonePast'
        BY <2>23, <4>3 DEF OperationUnlock, Inv, AbortFirst, NonePast
      <4> QED
        BY <4>4, <4>5 DEF Inv
    <3> QED
      BY <3>1, <3>2
  <2>24. CASE JobCancel(s)
    <3>1. \E l : Move(s, l)
      BY <2>24, <2>2 DEF Inv, Shapes, Move, JobCancel
    <3> QED
      BY <3>1, MoveKeeps
  <2>25. CASE CancelAbort(s)
    <3>1. \E l : Move(s, l)
      BY <2>25, <2>2, LoggedKeeps DEF Inv, Shapes, Move, CancelAbort
    <3> QED
      BY <3>1, MoveKeeps
  <2>26. CASE CancelTest(s)
    <3>1. lb.aborted
      BY <2>26 DEF CancelTest, Inv, AbortFirst
    <3>2. dir /\ ~LockedByOther(s) => \A t \in Servers : pc[t] # "deliver"
      BY <2>26, <2>2, WMProxyAssumption DEF CancelTest, Inv, Holding
    <3>3. CASE dir /\ ~LockedByOther(s)
      <4>1. Move(s, "purge")
        BY <2>26, <2>2, <3>1, <3>2, <3>3 DEF Inv, Shapes, Move, CancelTest
      <4> QED
        BY <4>1, MoveKeeps
    <3>4. CASE ~(dir /\ ~LockedByOther(s))
      <4>1. Move(s, "idle")
        BY <2>26, <3>4 DEF Inv, Shapes, Move, CancelTest
      <4> QED
        BY <4>1, MoveKeeps
    <3> QED
      BY <3>3, <3>4
  <2>27. CASE CancelPurge(s)
    <3>1. \E l : Move(s, l)
      BY <2>27, <2>2 DEF Inv, Shapes, Move, CancelPurge, DoPurge
    <3> QED
      BY <3>1, MoveKeeps
  <2>28. CASE CancelForward(s)
    <3>1. \E l : Move(s, l)
      BY <2>28, <2>2 DEF Inv, Shapes, Move, CancelForward
    <3> QED
      BY <3>1, MoveKeeps
  <2>29. CASE CancelLog(s)
    <3>1. \E l : Move(s, l)
      BY <2>29, <2>2 DEF Inv, Shapes, Move, CancelLog, LogEvent
    <3> QED
      BY <3>1, MoveKeeps
  <2>30. CASE JobPurge(s)
    <3>1. Move(s, "idle")
      BY <2>30 DEF Inv, Shapes, Move, JobPurge, DoPurge
    <3> QED
      BY <3>1, MoveKeeps
  <2>31. CASE Crash(s)
    <3>1. \E l : Move(s, l)
      BY <2>31, <2>2 DEF Inv, Shapes, Move, Crash
    <3> QED
      BY <3>1, MoveKeeps
  <2>32. CASE Recycle(s)
    <3>1. Move(s, "idle")
      BY <2>32 DEF Inv, Shapes, Move, Recycle
    <3> QED
      BY <3>1, MoveKeeps
  <2> QED
    BY <2>1, <2>3, <2>4, <2>5, <2>6, <2>7, <2>8, <2>9, <2>10, <2>11, <2>12,
       <2>13, <2>14, <2>15, <2>16, <2>17, <2>18, <2>19, <2>20, <2>21, <2>22,
       <2>23, <2>24, <2>25, <2>26, <2>27, <2>28, <2>29, <2>30, <2>31, <2>32 DEF
       Server, Submit
<1> QED
  BY <1>1, <1>2 DEF Next

\* Only the delivery raises the number of delivered requests.
LEMMA OnlyDeliver ==
  ASSUME Inv, NEW s \in Servers, Server(s), delivered' > delivered
  PROVE  pc[s] = "deliver"
BY DEF Inv, Shapes, Server, Submit, JobRegister, JobSubmit, Register, JobStart,
       StartFile, OperationLock, LogAccept, LogEnqueueStart, Prepare, LimitAbort,
       LimitTest, LimitPurge, LogFail, BadAdFail, BadAdAbort, IsAborted, Deliver,
       LogOk, LogUndelivered, WriteJdl, RenameJdl, OperationUnlock, JobCancel,
       CancelAbort, CancelTest, CancelPurge, CancelForward, CancelLog, JobPurge,
       Crash, Recycle, wm

(***************************************************************************)
(* With AsyncJobStart off, whatever servers, calls and failures there are: *)
(* submit() does not hand a job to the WM whose directory jobCancel has    *)
(* removed.                                                                *)
(***************************************************************************)
THEOREM CancelledStaysOut ==
  ASSUME AsyncJobStart = FALSE PROVE Spec => CancelledNotDelivered
<1>1. Inv /\ [Next]_vars => [delivered' > delivered => "cancel" \notin purgedBy]_vars
  <2> SUFFICES ASSUME Inv, Next, delivered' > delivered
               PROVE  "cancel" \notin purgedBy
    OBVIOUS
  <2>1. PICK s \in Servers : Server(s)
    BY DEF Next
  <2>2. pc[s] = "deliver"
    BY <2>1, OnlyDeliver
  <2> QED
    BY <2>2 DEF Inv, NonePast
<1> QED
  BY <1>1, InvInit, InvNext, PTL DEF Spec, CancelledNotDelivered

-----------------------------------------------------------------------------
(* What becomes of an accepted job                                         *)

\* The steps of submit() after which the job's fate is not yet known
Unsettled == {"enqueue", "prepare", "limit_abort", "limit_test", "limit_purge",
              "fail", "bad_fail", "check", "deliver", "undelivered"}

\* If the LB works, an accepted job is with the WM, has failed or is aborted, or
\* a server is still on its way to one of these.
Settling ==
  /\ Shapes
  /\ \A t \in Servers : pc[t] = "ok" => delivered > 0
  /\ faults \subseteq {"deliver"} /\ lb.accepted =>
       \/ delivered > 0 \/ lb.last = "FAIL" \/ lb.aborted
       \/ \E t \in Servers : pc[t] \in Unsettled

\* A step of server s to l, and what it must respect: if it neither settles the
\* job nor leaves the server on its way, the server was not on its way before.
Settle(s, l) ==
  /\ l \in {"idle"} \cup StartPCs \cup CancelPCs
  /\ pc' = [pc EXCEPT ![s] = l]
  /\ registered' \in BOOLEAN /\ known' \in BOOLEAN
  /\ lb' = lb \/ \E e \in Events : lb' = Logged(e)
  /\ delivered' \in Nat /\ delivered' >= delivered
  /\ faults \subseteq faults'
  /\ l = "ok" => delivered' > 0
  /\ \/ l \in Unsettled
     \/ ~ (faults' \subseteq {"deliver"})
     \/ delivered' > 0 \/ lb'.last = "FAIL" \/ lb'.aborted
     \/ pc[s] \notin Unsettled /\ lb'.last = lb.last /\ lb'.accepted = lb.accepted

\* Such a step keeps the invariant.
LEMMA SettleKeeps ==
  ASSUME Settling, NEW s \in Servers, NEW l, Settle(s, l)
  PROVE  Settling'
<1>1. lb' \in [accepted : BOOLEAN, last : {"none", "START", "OK", "FAIL"},
               aborted : BOOLEAN, cancelling : BOOLEAN] /\ (lb.aborted => lb'.aborted)
  BY LoggedKeeps DEF Settling, Shapes, Settle
<1>2. Shapes'
  BY <1>1 DEF Settling, Shapes, Settle
<1>3. \A t \in Servers : pc'[t] = IF t = s THEN l ELSE pc[t]
  BY DEF Settling, Shapes, Settle
<1>4. delivered \in Nat /\ delivered' \in Nat
  BY DEF Settling, Shapes, Settle
<1>5. \A t \in Servers : pc'[t] = "ok" => delivered' > 0
  BY <1>3, <1>4 DEF Settling, Settle
<1>6. ASSUME faults' \subseteq {"deliver"}, lb'.accepted,
             ~ (delivered' > 0), lb'.last # "FAIL", ~ lb'.aborted
      PROVE  \E t \in Servers : pc'[t] \in Unsettled
  <2>1. CASE l \in Unsettled
    BY <2>1, <1>3
  <2>2. CASE l \notin Unsettled
    <3>1. pc[s] \notin Unsettled /\ lb'.last = lb.last /\ lb'.accepted = lb.accepted
      BY <2>2, <1>6 DEF Settle
    <3>2. \E t \in Servers : pc[t] \in Unsettled
      BY <3>1, <1>1, <1>4, <1>6 DEF Settling, Settle
    <3> QED
      BY <3>1, <3>2, <1>3
  <2> QED
    BY <2>1, <2>2
<1> QED
  BY <1>2, <1>5, <1>6 DEF Settling

\* What the events say
LEMMA LoggedFacts ==
  ASSUME Shapes
  PROVE  /\ Logged("FAIL").last = "FAIL" /\ Logged("ABORT").aborted
         /\ Logged("CANCEL").last = lb.last /\ Logged("CANCEL").accepted = lb.accepted
BY DEF Logged, Shapes

\* Every step keeps it.
LEMMA SettlingNext == Settling /\ [Next]_vars => Settling'
<1> SUFFICES ASSUME Settling, [Next]_vars PROVE Settling'
  OBVIOUS
<1>1. CASE UNCHANGED vars
  BY <1>1 DEF vars, Settling, Shapes
<1>2. CASE Next
  <2>1. PICK s \in Servers : Server(s)
    BY <1>2 DEF Next
  <2>2. /\ pc[s] \in {"idle"} \cup StartPCs \cup CancelPCs /\ pc = [pc EXCEPT ![s] = pc[s]]
        /\ registered \in BOOLEAN /\ known \in BOOLEAN /\ delivered \in Nat
        /\ delivered >= delivered /\ delivered + 1 >= delivered
        /\ pc[s] = "ok" => delivered > 0
        /\ Logged("FAIL").last = "FAIL" /\ Logged("ABORT").aborted
        /\ Logged("CANCEL").last = lb.last /\ Logged("CANCEL").accepted = lb.accepted
    BY LoggedFacts DEF Settling, Shapes
  <2> USE DEF Goto, Fault, Events, Unsettled, StartPCs, CancelPCs, job, wm
  <2>3. CASE JobRegister(s)
    <3>1. \E l : Settle(s, l)
      BY <2>3, <2>2 DEF Settle, JobRegister, Register
    <3> QED
      BY <3>1, SettleKeeps
  <2>4. CASE JobSubmit(s)
    <3>1. \E l : Settle(s, l)
      BY <2>4, <2>2, WMProxyAssumption DEF Settle, JobSubmit, Register
    <3> QED
      BY <3>1, SettleKeeps
  <2>5. CASE JobStart(s)
    <3>1. \E l : Settle(s, l)
      BY <2>5, <2>2 DEF Settle, JobStart
    <3> QED
      BY <3>1, SettleKeeps
  <2>6. CASE StartFile(s)
    <3>1. \E l : Settle(s, l)
      BY <2>6, <2>2 DEF Settle, StartFile
    <3> QED
      BY <3>1, SettleKeeps
  <2>7. CASE OperationLock(s)
    <3>1. \E l : Settle(s, l)
      BY <2>7, <2>2 DEF Settle, OperationLock
    <3> QED
      BY <3>1, SettleKeeps
  <2>8. CASE LogAccept(s)
    <3>1. \E l : Settle(s, l)
      BY <2>8, <2>2 DEF Settle, LogAccept, LogEvent
    <3> QED
      BY <3>1, SettleKeeps
  <2>9. CASE LogEnqueueStart(s)
    <3>1. \E l : Settle(s, l)
      BY <2>9, <2>2 DEF Settle, LogEnqueueStart, LogEvent
    <3> QED
      BY <3>1, SettleKeeps
  <2>10. CASE Prepare(s)
    <3>1. \E l : Settle(s, l)
      BY <2>10, <2>2 DEF Settle, Prepare
    <3> QED
      BY <3>1, SettleKeeps
  <2>11. CASE LimitAbort(s)
    <3>1. \E l : Settle(s, l)
      BY <2>11, <2>2 DEF Settle, LimitAbort
    <3> QED
      BY <3>1, SettleKeeps
  <2>12. CASE LimitTest(s)
    <3>1. \E l : Settle(s, l)
      BY <2>12, <2>2 DEF Settle, LimitTest
    <3> QED
      BY <3>1, SettleKeeps
  <2>13. CASE LimitPurge(s)
    <3>1. \E l : Settle(s, l)
      BY <2>13, <2>2 DEF Settle, LimitPurge
    <3> QED
      BY <3>1, SettleKeeps
  <2>14. CASE LogFail(s)
    <3>1. \E l : Settle(s, l)
      BY <2>14, <2>2 DEF Settle, LogFail, LogEvent
    <3> QED
      BY <3>1, SettleKeeps
  <2>15. CASE BadAdFail(s)
    <3>1. \E l : Settle(s, l)
      BY <2>15, <2>2 DEF Settle, BadAdFail, LogEvent
    <3> QED
      BY <3>1, SettleKeeps
  <2>16. CASE BadAdAbort(s)
    <3>1. \E l : Settle(s, l)
      BY <2>16, <2>2 DEF Settle, BadAdAbort, LogEvent
    <3> QED
      BY <3>1, SettleKeeps
  <2>17. CASE IsAborted(s)
    <3>1. \E l : Settle(s, l)
      BY <2>17, <2>2 DEF Settle, IsAborted
    <3> QED
      BY <3>1, SettleKeeps
  <2>18. CASE Deliver(s)
    <3>1. \E l : Settle(s, l)
      BY <2>18, <2>2 DEF Settle, Deliver
    <3> QED
      BY <3>1, SettleKeeps
  <2>19. CASE LogOk(s)
    <3>1. \E l : Settle(s, l)
      BY <2>19, <2>2 DEF Settle, LogOk, LogEvent
    <3> QED
      BY <3>1, SettleKeeps
  <2>20. CASE LogUndelivered(s)
    <3>1. \E l : Settle(s, l)
      BY <2>20, <2>2 DEF Settle, LogUndelivered, LogEvent
    <3> QED
      BY <3>1, SettleKeeps
  <2>21. CASE WriteJdl(s)
    <3>1. \E l : Settle(s, l)
      BY <2>21, <2>2 DEF Settle, WriteJdl
    <3> QED
      BY <3>1, SettleKeeps
  <2>22. CASE RenameJdl(s)
    <3>1. \E l : Settle(s, l)
      BY <2>22, <2>2 DEF Settle, RenameJdl
    <3> QED
      BY <3>1, SettleKeeps
  <2>23. CASE OperationUnlock(s)
    <3>1. \E l : Settle(s, l)
      BY <2>23, <2>2, WMProxyAssumption DEF Settle, OperationUnlock
    <3> QED
      BY <3>1, SettleKeeps
  <2>24. CASE JobCancel(s)
    <3>1. \E l : Settle(s, l)
      BY <2>24, <2>2 DEF Settle, JobCancel
    <3> QED
      BY <3>1, SettleKeeps
  <2>25. CASE CancelAbort(s)
    <3>1. \E l : Settle(s, l)
      BY <2>25, <2>2 DEF Settle, CancelAbort
    <3> QED
      BY <3>1, SettleKeeps
  <2>26. CASE CancelTest(s)
    <3>1. \E l : Settle(s, l)
      BY <2>26, <2>2 DEF Settle, CancelTest
    <3> QED
      BY <3>1, SettleKeeps
  <2>27. CASE CancelPurge(s)
    <3>1. \E l : Settle(s, l)
      BY <2>27, <2>2 DEF Settle, CancelPurge
    <3> QED
      BY <3>1, SettleKeeps
  <2>28. CASE CancelForward(s)
    <3>1. \E l : Settle(s, l)
      BY <2>28, <2>2 DEF Settle, CancelForward
    <3> QED
      BY <3>1, SettleKeeps
  <2>29. CASE CancelLog(s)
    <3>1. \E l : Settle(s, l)
      BY <2>29, <2>2 DEF Settle, CancelLog, LogEvent
    <3> QED
      BY <3>1, SettleKeeps
  <2>30. CASE JobPurge(s)
    <3>1. \E l : Settle(s, l)
      BY <2>30, <2>2 DEF Settle, JobPurge
    <3> QED
      BY <3>1, SettleKeeps
  <2>31. CASE Crash(s)
    <3>1. \E l : Settle(s, l)
      BY <2>31, <2>2 DEF Settle, Crash
    <3> QED
      BY <3>1, SettleKeeps
  <2>32. CASE Recycle(s)
    <3>1. \E l : Settle(s, l)
      BY <2>32, <2>2 DEF Settle, Recycle
    <3> QED
      BY <3>1, SettleKeeps
  <2> QED
    BY <2>1, <2>3, <2>4, <2>5, <2>6, <2>7, <2>8, <2>9, <2>10, <2>11, <2>12, <2>13, <2>14, <2>15, <2>16, <2>17, <2>18, <2>19, <2>20, <2>21, <2>22, <2>23, <2>24, <2>25, <2>26, <2>27, <2>28, <2>29, <2>30, <2>31, <2>32
       DEF Server, Submit
<1> QED
  BY <1>1, <1>2 DEF Next

(***************************************************************************)
(* For any number of servers, calls and failures, with AsyncJobStart on or *)
(* off: when all servers are done with an accepted job, and neither the LB *)
(* nor a server has failed, the job is with the WM, or the LB says that it *)
(* failed or was aborted.                                                  *)
(***************************************************************************)
THEOREM AcceptedJobsSettle == Spec => []AcceptedIsSettled
<1>1. Init => Settling
  <2> SUFFICES ASSUME Init PROVE Settling
    OBVIOUS
  <2>1. Shapes /\ ~lb.accepted /\ \A t \in Servers : pc[t] = "idle"
    BY DEF Init, Shapes
  <2> QED
    BY <2>1 DEF Settling
<1>2. Settling => AcceptedIsSettled
  BY DEF Settling, AcceptedIsSettled, Unsettled
<1> QED
  BY <1>1, <1>2, SettlingNext, PTL DEF Spec

-----------------------------------------------------------------------------
(* One delivery                                                            *)

\* The steps of a start after its first look at the files, and those between the
\* delivery and the removal of JDLToStart
Before == {"lock", "accept", "enqueue", "prepare", "limit_abort", "limit_test",
           "limit_purge", "fail", "bad_fail", "bad_abort", "check", "deliver",
           "release"}
After == {"ok", "undelivered", "write", "rename"}

Faults == {"throw", "lost", "query", "deliver", "init", "crash"}

\* What the LB has been told when a server is at each step, if nothing failed
OnTrack(t) ==
  /\ pc[t] \in Before => delivered = 0
  /\ pc[t] = "file" /\ delivered = 1 => "ToStart" \notin files
  /\ pc[t] \in {"prepare", "check", "deliver", "ok"} /\ faults = {} => lb.last = "START"
  /\ pc[t] = "undelivered" => faults # {}
  /\ pc[t] \in {"write", "rename"} /\ faults = {} => lb.last = "OK"

\* Once a delivering start is over, a new one is refused by isStartAllowed or
\* does not find JDLToStart.
Refused == ~StartAllowed \/ "ToStart" \notin files

NoRestart == delivered = 1 /\ (\A t \in Servers : pc[t] \notin After) => Refused

Alone == \A t, u \in Servers : Starting(t) /\ Starting(u) => t = u

Once == /\ delivered \in {0, 1}
        /\ Alone
        /\ \A t \in Servers : OnTrack(t)
        /\ NoRestart

OnceInv ==
  /\ faults \subseteq Faults
  /\ ~dir => files = {}
  /\ ~registered => delivered = 0
  /\ ~overlap => Once

\* A failure is the first one, if there is one at most.
LEMMA FirstFault ==
  ASSUME MaxFaults <= 1, faults \subseteq Faults, NEW f, Fault(f)
  PROVE  faults = {} /\ faults' = {f}
<1>1. IsFiniteSet(Faults)
  <2>1. /\ IsFiniteSet({"throw"} \cup {"lost"}) /\ IsFiniteSet({"query"} \cup {"deliver"})
        /\ IsFiniteSet({"init"} \cup {"crash"})
    BY FS_Singleton, FS_AddElement, Zenon
  <2>2. IsFiniteSet((({"throw"} \cup {"lost"}) \cup ({"query"} \cup {"deliver"}))
                       \cup ({"init"} \cup {"crash"}))
    BY <2>1, FS_Union, Zenon
  <2>3. Faults = (({"throw"} \cup {"lost"}) \cup ({"query"} \cup {"deliver"}))
                       \cup ({"init"} \cup {"crash"})
    BY DEF Faults
  <2> QED
    BY <2>2, <2>3
<1>2. IsFiniteSet(faults) /\ Cardinality(faults) \in Nat
  BY <1>1, FS_Subset, FS_CardinalityType
<1>3. Cardinality(faults) = 0
  BY <1>2, WMProxyAssumption DEF Fault
<1>4. faults = {}
  BY <1>2, <1>3, FS_EmptySet
<1> QED
  BY <1>4 DEF Fault

\* A step of a start, the only one in progress, and what it must respect
StartStep(s) ==
  /\ pc[s] \in StartPCs
  /\ pc' = [pc EXCEPT ![s] = pc'[s]]
  /\ faults' \subseteq Faults
  /\ ~dir' => files' = {}
  /\ registered' = registered /\ (~registered => delivered' = delivered)
  /\ overlap' = overlap
  /\ Once => /\ delivered' \in {0, 1}
             /\ OnTrack(s)'
             /\ pc'[s] \notin After /\ delivered' = 1 => Refused'

\* Such a step keeps the invariant.
LEMMA StartKeeps ==
  ASSUME Shapes, OnceInv, NEW s \in Servers, StartStep(s)
  PROVE  OnceInv'
<1>1. \A t \in Servers \ {s} : pc'[t] = pc[t]
  BY DEF Shapes, StartStep
<1>2. ASSUME ~overlap' PROVE Once'
  <2>1. Once
    BY <1>2 DEF OnceInv, StartStep
  <2>2. delivered' \in {0, 1} /\ OnTrack(s)' /\ (pc'[s] \notin After /\ delivered' = 1 => Refused')
    BY <2>1 DEF StartStep
  <2>3. \A t \in Servers \ {s} : pc'[t] = pc[t] /\ pc[t] \notin StartPCs
    BY <1>1, <2>1 DEF StartStep, Once, Alone, Starting
  <2>4. Alone'
    BY <2>3 DEF Alone, Starting
  <2>5. \A t \in Servers \ {s} : OnTrack(t)'
    BY <2>3 DEF OnTrack, StartPCs, Before
  <2>6. NoRestart'
    BY <1>1, <2>2 DEF NoRestart
  <2> QED
    BY <2>2, <2>4, <2>5, <2>6 DEF Once
<1> QED
  BY <1>2 DEF OnceInv, StartStep

\* A step that is not part of a start, and what it must respect
OtherStep(s, l) ==
  /\ pc[s] \notin StartPCs /\ l \notin StartPCs
  /\ pc' = [pc EXCEPT ![s] = l]
  /\ faults \subseteq faults' /\ faults' \subseteq Faults
  /\ ~dir' => files' = {}
  /\ files' \subseteq files
  /\ registered' = registered /\ delivered' = delivered
  /\ overlap' = overlap
  /\ lb' = lb \/ lb' = Logged("ABORT") \/ lb' = Logged("CANCEL")

\* Such a step keeps the invariant.
LEMMA OtherKeeps ==
  ASSUME Shapes, OnceInv, NEW s \in Servers, NEW l, OtherStep(s, l)
  PROVE  OnceInv'
<1>1. \A t \in Servers : pc'[t] = IF t = s THEN l ELSE pc[t]
  BY DEF Shapes, OtherStep
<1>2. /\ lb'.last = lb.last /\ lb'.accepted = lb.accepted
      /\ (lb.aborted => lb'.aborted) /\ (lb.cancelling => lb'.cancelling)
  BY DEF OtherStep, Logged, Shapes
<1>3. ASSUME Refused PROVE Refused'
  BY <1>2, <1>3 DEF Refused, StartAllowed, OtherStep
<1>4. ASSUME ~overlap' PROVE Once'
  <2>1. Once /\ delivered' = delivered
    BY <1>4 DEF OnceInv, OtherStep
  <2>2. \A t \in Servers : pc'[t] \in StartPCs \/ pc[t] \in StartPCs => pc'[t] = pc[t]
    BY <1>1 DEF OtherStep
  <2>3. Alone'
    BY <2>1, <2>2 DEF Once, Alone, Starting
  <2>4. ASSUME NEW t \in Servers PROVE OnTrack(t)'
    <3>1. CASE pc'[t] = pc[t]
      BY <3>1, <2>1, <1>2 DEF Once, OnTrack, OtherStep
    <3>2. CASE pc'[t] # pc[t]
      <4>1. pc'[t] \notin StartPCs
        BY <3>2, <2>2
      <4> QED
        BY <4>1 DEF OnTrack, StartPCs, Before
    <3> QED
      BY <3>1, <3>2
  <2>5. ASSUME delivered' = 1, \A t \in Servers : pc'[t] \notin After PROVE Refused'
    <3>1. \A t \in Servers : pc[t] \notin After
      BY <2>2, <2>5 DEF After, StartPCs
    <3> QED
      BY <3>1, <2>1, <2>5, <1>3 DEF Once, NoRestart
  <2>6. NoRestart'
    BY <2>5 DEF NoRestart
  <2> QED
    BY <2>1, <2>3, <2>4, <2>6 DEF Once
<1> QED
  BY <1>4 DEF OnceInv, OtherStep

\* logEvent(): the event is logged, or the one failure happens.
LogCases(s, e, next, failed) ==
  /\ pc' = [pc EXCEPT ![s] = pc'[s]]
  /\ \/ lb' = Logged(e) /\ pc'[s] = next /\ faults' = faults
     \/ lb' = lb /\ pc'[s] = next /\ faults = {} /\ faults' = {"lost"}
     \/ lb' = lb /\ pc'[s] = failed /\ faults = {} /\ faults' = {"throw"}

\* With one failure at most, these are all the outcomes.
LEMMA LogEventCases ==
  ASSUME Shapes, MaxFaults <= 1, faults \subseteq Faults, NEW s \in Servers,
         NEW e, NEW next, NEW failed, LogEvent(s, e, next, failed)
  PROVE  LogCases(s, e, next, failed)
<1>1. ASSUME NEW l, Goto(s, l) PROVE pc' = [pc EXCEPT ![s] = pc'[s]] /\ pc'[s] = l
  BY <1>1 DEF Goto, Shapes
<1>2. \A l : Goto(s, l) => pc' = [pc EXCEPT ![s] = pc'[s]] /\ pc'[s] = l
  BY <1>1
<1>3. CASE lb' = Logged(e) /\ Goto(s, next) /\ UNCHANGED faults
  BY <1>3, <1>2 DEF LogCases
<1>4. CASE Fault("lost") /\ Goto(s, next) /\ UNCHANGED lb
  BY <1>4, <1>2, FirstFault DEF LogCases
<1>5. CASE Fault("throw") /\ Goto(s, failed) /\ UNCHANGED lb
  BY <1>5, <1>2, FirstFault DEF LogCases
<1> QED
  BY <1>3, <1>4, <1>5 DEF LogEvent

\* Every step keeps it, if one thing fails at most and jobSubmit answers last.
LEMMA OnceNext ==
  ASSUME AsyncJobStart = FALSE, MaxFaults <= 1
  PROVE  Inv /\ OnceInv /\ [Next]_vars => OnceInv'
<1> SUFFICES ASSUME Inv, OnceInv, [Next]_vars PROVE OnceInv'
  OBVIOUS
<1>1. CASE UNCHANGED vars
  BY <1>1 DEF vars, OnceInv, Once, Alone, Starting, OnTrack, NoRestart, Refused, StartAllowed
<1>2. CASE Next
  <2>1. PICK s \in Servers : Server(s)
    BY <1>2 DEF Next
  <2>2. Shapes /\ pc[s] \in {"idle"} \cup StartPCs \cup CancelPCs
    BY DEF Inv, Shapes
  <2>3. \A l : Goto(s, l) => pc' = [pc EXCEPT ![s] = pc'[s]] /\ pc'[s] = l
    BY <2>2 DEF Shapes, Goto
  <2>4. ASSUME NEW f, Fault(f) PROVE faults = {} /\ faults' = {f}
    BY <2>4, FirstFault DEF OnceInv
  <2>5. faults \subseteq Faults /\ (~dir => files = {})
    BY DEF OnceInv
  <2>6. Once => /\ delivered \in {0, 1} /\ OnTrack(s)
                /\ Starting(s) /\ pc[s] \notin After /\ delivered = 1 => Refused
    BY DEF Once, NoRestart, Alone, Starting, After, StartPCs
  <2>7. /\ Logged("ACCEPTED").last = "none" /\ Logged("START").last = "START"
        /\ Logged("OK").last = "OK" /\ Logged("FAIL").last = "FAIL"
        /\ Logged("ABORT").last = lb.last
    BY DEF Logged
  <2>8. registered \/ pc[s] = "idle"
    BY DEF Inv, Unknown
  <2> USE DEF StartPCs, CancelPCs, job, sandbox, wm, counts, Before, After, Starting
  <2>9. CASE StartFile(s)
    <3>1. Once => /\ delivered' \in {0, 1} /\ OnTrack(s)'
                  /\ pc'[s] \notin After /\ delivered' = 1 => Refused'
      BY <2>9, <2>3, <2>5, <2>6, <2>7
         DEF StartFile, OnTrack, Refused, StartAllowed
    <3>2. StartStep(s)
      BY <3>1, <2>9, <2>3, <2>5, <2>8 DEF StartFile, StartStep, Faults
    <3> QED
      BY <3>2, <2>2, StartKeeps
  <2>10. CASE OperationLock(s)
    <3>1. Once => /\ delivered' \in {0, 1} /\ OnTrack(s)'
                  /\ pc'[s] \notin After /\ delivered' = 1 => Refused'
      BY <2>10, <2>3, <2>5, <2>6, <2>7
         DEF OperationLock, OnTrack, Refused, StartAllowed
    <3>2. StartStep(s)
      BY <3>1, <2>10, <2>3, <2>5, <2>8 DEF OperationLock, StartStep, Faults
    <3> QED
      BY <3>2, <2>2, StartKeeps
  <2>11. CASE LogAccept(s)
    <3>1. pc[s] = "accept" /\ UNCHANGED <<job, sandbox, wm, counts>>
      BY <2>11 DEF LogAccept
    <3>2. LogCases(s, "ACCEPTED", "enqueue", "idle")
      BY <2>11, <2>2, <2>5, LogEventCases DEF LogAccept
    <3>3. Once => /\ OnTrack(s)'
                  /\ pc'[s] \notin After /\ delivered' = 1 => Refused'
      BY <3>1, <3>2, <2>6, <2>7 DEF LogCases, OnTrack, Refused, StartAllowed
    <3>4. pc' = [pc EXCEPT ![s] = pc'[s]] /\ faults' \subseteq Faults
      BY <3>2, <2>5 DEF LogCases, Faults
    <3>5. StartStep(s)
      BY <3>1, <3>3, <3>4, <2>5, <2>6 DEF StartStep
    <3> QED
      BY <3>5, <2>2, StartKeeps
  <2>12. CASE LogEnqueueStart(s)
    <3>1. pc[s] = "enqueue" /\ UNCHANGED <<job, sandbox, wm, counts>>
      BY <2>12 DEF LogEnqueueStart
    <3>2. LogCases(s, "START", "prepare", "idle")
      BY <2>12, <2>2, <2>5, LogEventCases DEF LogEnqueueStart
    <3>3. Once => /\ OnTrack(s)'
                  /\ pc'[s] \notin After /\ delivered' = 1 => Refused'
      BY <3>1, <3>2, <2>6, <2>7 DEF LogCases, OnTrack, Refused, StartAllowed
    <3>4. pc' = [pc EXCEPT ![s] = pc'[s]] /\ faults' \subseteq Faults
      BY <3>2, <2>5 DEF LogCases, Faults
    <3>5. StartStep(s)
      BY <3>1, <3>3, <3>4, <2>5, <2>6 DEF StartStep
    <3> QED
      BY <3>5, <2>2, StartKeeps
  <2>13. CASE Prepare(s)
    <3>1. Once => /\ delivered' \in {0, 1} /\ OnTrack(s)'
                  /\ pc'[s] \notin After /\ delivered' = 1 => Refused'
      BY <2>13, <2>3, <2>5, <2>6, <2>7
         DEF Prepare, OnTrack, Refused, StartAllowed
    <3>2. StartStep(s)
      BY <3>1, <2>13, <2>3, <2>5, <2>8 DEF Prepare, StartStep, Faults
    <3> QED
      BY <3>2, <2>2, StartKeeps
  <2>14. CASE LimitAbort(s)
    <3>0. Fault("throw") => faults = {} /\ faults' = {"throw"}
      BY <2>4
    <3>1. Once => /\ delivered' \in {0, 1} /\ OnTrack(s)'
                  /\ pc'[s] \notin After /\ delivered' = 1 => Refused'
      BY <3>0, <2>14, <2>3, <2>5, <2>6, <2>7
         DEF LimitAbort, OnTrack, Refused, StartAllowed
    <3>2. StartStep(s)
      BY <3>0, <3>1, <2>14, <2>3, <2>5, <2>8 DEF LimitAbort, StartStep, Faults
    <3> QED
      BY <3>2, <2>2, StartKeeps
  <2>15. CASE LimitTest(s)
    <3>1. Once => /\ delivered' \in {0, 1} /\ OnTrack(s)'
                  /\ pc'[s] \notin After /\ delivered' = 1 => Refused'
      BY <2>15, <2>3, <2>5, <2>6, <2>7
         DEF LimitTest, OnTrack, Refused, StartAllowed
    <3>2. StartStep(s)
      BY <3>1, <2>15, <2>3, <2>5, <2>8 DEF LimitTest, StartStep, Faults
    <3> QED
      BY <3>2, <2>2, StartKeeps
  <2>16. CASE LimitPurge(s)
    <3>1. Once => /\ delivered' \in {0, 1} /\ OnTrack(s)'
                  /\ pc'[s] \notin After /\ delivered' = 1 => Refused'
      BY <2>16, <2>3, <2>5, <2>6, <2>7
         DEF LimitPurge, DoPurge, OnTrack, Refused, StartAllowed
    <3>2. StartStep(s)
      BY <3>1, <2>16, <2>3, <2>5, <2>8 DEF LimitPurge, DoPurge, StartStep, Faults
    <3> QED
      BY <3>2, <2>2, StartKeeps
  <2>17. CASE LogFail(s)
    <3>1. pc[s] = "fail" /\ UNCHANGED <<job, sandbox, wm, counts>>
      BY <2>17 DEF LogFail
    <3>2. LogCases(s, "FAIL", "release", "idle")
      BY <2>17, <2>2, <2>5, LogEventCases DEF LogFail
    <3>3. Once => /\ OnTrack(s)'
                  /\ pc'[s] \notin After /\ delivered' = 1 => Refused'
      BY <3>1, <3>2, <2>6, <2>7 DEF LogCases, OnTrack, Refused, StartAllowed
    <3>4. pc' = [pc EXCEPT ![s] = pc'[s]] /\ faults' \subseteq Faults
      BY <3>2, <2>5 DEF LogCases, Faults
    <3>5. StartStep(s)
      BY <3>1, <3>3, <3>4, <2>5, <2>6 DEF StartStep
    <3> QED
      BY <3>5, <2>2, StartKeeps
  <2>18. CASE BadAdFail(s)
    <3>1. pc[s] = "bad_fail" /\ UNCHANGED <<job, sandbox, wm, counts>>
      BY <2>18 DEF BadAdFail
    <3>2. LogCases(s, "FAIL", "bad_abort", "idle")
      BY <2>18, <2>2, <2>5, LogEventCases DEF BadAdFail
    <3>3. Once => /\ OnTrack(s)'
                  /\ pc'[s] \notin After /\ delivered' = 1 => Refused'
      BY <3>1, <3>2, <2>6, <2>7 DEF LogCases, OnTrack, Refused, StartAllowed
    <3>4. pc' = [pc EXCEPT ![s] = pc'[s]] /\ faults' \subseteq Faults
      BY <3>2, <2>5 DEF LogCases, Faults
    <3>5. StartStep(s)
      BY <3>1, <3>3, <3>4, <2>5, <2>6 DEF StartStep
    <3> QED
      BY <3>5, <2>2, StartKeeps
  <2>19. CASE BadAdAbort(s)
    <3>1. pc[s] = "bad_abort" /\ UNCHANGED <<job, sandbox, wm, counts>>
      BY <2>19 DEF BadAdAbort
    <3>2. LogCases(s, "ABORT", "release", "idle")
      BY <2>19, <2>2, <2>5, LogEventCases DEF BadAdAbort
    <3>3. Once => /\ OnTrack(s)'
                  /\ pc'[s] \notin After /\ delivered' = 1 => Refused'
      BY <3>1, <3>2, <2>6, <2>7 DEF LogCases, OnTrack, Refused, StartAllowed
    <3>4. pc' = [pc EXCEPT ![s] = pc'[s]] /\ faults' \subseteq Faults
      BY <3>2, <2>5 DEF LogCases, Faults
    <3>5. StartStep(s)
      BY <3>1, <3>3, <3>4, <2>5, <2>6 DEF StartStep
    <3> QED
      BY <3>5, <2>2, StartKeeps
  <2>20. CASE IsAborted(s)
    <3>0. Fault("query") => faults = {} /\ faults' = {"query"}
      BY <2>4
    <3>1. Once => /\ delivered' \in {0, 1} /\ OnTrack(s)'
                  /\ pc'[s] \notin After /\ delivered' = 1 => Refused'
      BY <3>0, <2>20, <2>3, <2>5, <2>6, <2>7
         DEF IsAborted, OnTrack, Refused, StartAllowed
    <3>2. StartStep(s)
      BY <3>0, <3>1, <2>20, <2>3, <2>5, <2>8 DEF IsAborted, StartStep, Faults
    <3> QED
      BY <3>2, <2>2, StartKeeps
  <2>21. CASE Deliver(s)
    <3>0. /\ Fault("deliver") => faults = {} /\ faults' = {"deliver"}
          /\ Fault("init") => faults = {} /\ faults' = {"init"}
      BY <2>4
    <3>1. Once => /\ delivered' \in {0, 1} /\ OnTrack(s)'
                  /\ pc'[s] \notin After /\ delivered' = 1 => Refused'
      BY <3>0, <2>21, <2>3, <2>5, <2>6, <2>7
         DEF Deliver, OnTrack, Refused, StartAllowed
    <3>2. StartStep(s)
      BY <3>0, <3>1, <2>21, <2>3, <2>5, <2>8 DEF Deliver, StartStep, Faults
    <3> QED
      BY <3>2, <2>2, StartKeeps
  <2>22. CASE LogOk(s)
    <3>1. pc[s] = "ok" /\ UNCHANGED <<job, sandbox, wm, counts>>
      BY <2>22 DEF LogOk
    <3>2. LogCases(s, "OK", "write", "undelivered")
      BY <2>22, <2>2, <2>5, LogEventCases DEF LogOk
    <3>3. Once => /\ OnTrack(s)'
                  /\ pc'[s] \notin After /\ delivered' = 1 => Refused'
      BY <3>1, <3>2, <2>6, <2>7 DEF LogCases, OnTrack, Refused, StartAllowed
    <3>4. pc' = [pc EXCEPT ![s] = pc'[s]] /\ faults' \subseteq Faults
      BY <3>2, <2>5 DEF LogCases, Faults
    <3>5. StartStep(s)
      BY <3>1, <3>3, <3>4, <2>5, <2>6 DEF StartStep
    <3> QED
      BY <3>5, <2>2, StartKeeps
  <2>23. CASE LogUndelivered(s)
    <3>1. pc[s] = "undelivered" /\ UNCHANGED <<job, sandbox, wm, counts>>
      BY <2>23 DEF LogUndelivered
    <3>2. LogCases(s, "FAIL", "write", "idle")
      BY <2>23, <2>2, <2>5, LogEventCases DEF LogUndelivered
    <3>3. Once => /\ OnTrack(s)'
                  /\ pc'[s] \notin After /\ delivered' = 1 => Refused'
      BY <3>1, <3>2, <2>6, <2>7 DEF LogCases, OnTrack, Refused, StartAllowed
    <3>4. pc' = [pc EXCEPT ![s] = pc'[s]] /\ faults' \subseteq Faults
      BY <3>2, <2>5 DEF LogCases, Faults
    <3>5. StartStep(s)
      BY <3>1, <3>3, <3>4, <2>5, <2>6 DEF StartStep
    <3> QED
      BY <3>5, <2>2, StartKeeps
  <2>24. CASE WriteJdl(s)
    <3>1. Once => /\ delivered' \in {0, 1} /\ OnTrack(s)'
                  /\ pc'[s] \notin After /\ delivered' = 1 => Refused'
      BY <2>24, <2>3, <2>5, <2>6, <2>7
         DEF WriteJdl, OnTrack, Refused, StartAllowed
    <3>2. StartStep(s)
      BY <3>1, <2>24, <2>3, <2>5, <2>8 DEF WriteJdl, StartStep, Faults
    <3> QED
      BY <3>2, <2>2, StartKeeps
  <2>25. CASE RenameJdl(s)
    <3>1. Once => /\ delivered' \in {0, 1} /\ OnTrack(s)'
                  /\ pc'[s] \notin After /\ delivered' = 1 => Refused'
      BY <2>25, <2>3, <2>5, <2>6, <2>7
         DEF RenameJdl, OnTrack, Refused, StartAllowed
    <3>2. StartStep(s)
      BY <3>1, <2>25, <2>3, <2>5, <2>8 DEF RenameJdl, StartStep, Faults
    <3> QED
      BY <3>2, <2>2, StartKeeps
  <2>26. CASE OperationUnlock(s)
    <3>1. Once => /\ delivered' \in {0, 1} /\ OnTrack(s)'
                  /\ pc'[s] \notin After /\ delivered' = 1 => Refused'
      BY <2>26, <2>3, <2>5, <2>6, <2>7
         DEF OperationUnlock, OnTrack, Refused, StartAllowed
    <3>2. StartStep(s)
      BY <3>1, <2>26, <2>3, <2>5, <2>8 DEF OperationUnlock, StartStep, Faults
    <3> QED
      BY <3>2, <2>2, StartKeeps
  <2>27. CASE JobCancel(s)
    <3>1. OtherStep(s, pc'[s])
      BY <2>27, <2>2, <2>3, <2>5 DEF JobCancel, OtherStep, Faults
    <3> QED
      BY <3>1, <2>2, OtherKeeps
  <2>28. CASE CancelAbort(s)
    <3>0. Fault("throw") => faults = {} /\ faults' = {"throw"}
      BY <2>4
    <3>1. /\ pc[s] = "abort" /\ pc' = [pc EXCEPT ![s] = pc'[s]] /\ pc'[s] \in {"test", "idle"}
          /\ UNCHANGED <<registered, dir, files, delivered, overlap>>
          /\ (lb' = lb \/ lb' = Logged("ABORT"))
      BY <2>28, <2>3 DEF CancelAbort
    <3>2. faults \subseteq faults' /\ faults' \subseteq Faults
      BY <3>0, <2>28, <2>5 DEF CancelAbort, Faults
    <3>3. OtherStep(s, pc'[s])
      BY <3>1, <3>2, <2>5 DEF OtherStep
    <3> QED
      BY <3>3, <2>2, OtherKeeps
  <2>29. CASE CancelTest(s)
    <3>1. OtherStep(s, pc'[s])
      BY <2>29, <2>2, <2>3, <2>5 DEF CancelTest, OtherStep, Faults
    <3> QED
      BY <3>1, <2>2, OtherKeeps
  <2>30. CASE CancelPurge(s)
    <3>1. OtherStep(s, pc'[s])
      BY <2>30, <2>2, <2>3, <2>5 DEF CancelPurge, DoPurge, OtherStep, Faults
    <3> QED
      BY <3>1, <2>2, OtherKeeps
  <2>31. CASE CancelForward(s)
    <3>0. Fault("deliver") => faults = {} /\ faults' = {"deliver"}
      BY <2>4
    <3>1. /\ pc[s] = "forward" /\ pc' = [pc EXCEPT ![s] = pc'[s]] /\ pc'[s] \in {"log", "idle"}
          /\ UNCHANGED <<registered, dir, files, delivered, overlap>>
          /\ (lb' = lb)
      BY <2>31, <2>3 DEF CancelForward
    <3>2. faults \subseteq faults' /\ faults' \subseteq Faults
      BY <3>0, <2>31, <2>5 DEF CancelForward, Faults
    <3>3. OtherStep(s, pc'[s])
      BY <3>1, <3>2, <2>5 DEF OtherStep
    <3> QED
      BY <3>3, <2>2, OtherKeeps
  <2>32. CASE CancelLog(s)
    <3>1. LogCases(s, "CANCEL", "idle", "idle")
      BY <2>32, <2>2, <2>5, LogEventCases DEF CancelLog
    <3>2. OtherStep(s, "idle")
      BY <3>1, <2>32, <2>5 DEF CancelLog, LogCases, OtherStep, Faults
    <3> QED
      BY <3>2, <2>2, OtherKeeps
  <2>33. CASE JobPurge(s)
    <3>1. OtherStep(s, "idle")
      BY <2>33, <2>2, <2>3, <2>5 DEF JobPurge, DoPurge, OtherStep, Faults, Shapes
    <3> QED
      BY <3>1, <2>2, OtherKeeps
  <2>34. CASE Recycle(s)
    <3>1. OtherStep(s, "idle")
      BY <2>34, <2>2, <2>3, <2>5 DEF Recycle, OtherStep, Faults, Shapes
    <3> QED
      BY <3>1, <2>2, OtherKeeps
  <2>35. CASE Crash(s)
    <3>1. /\ faults = {} /\ faults' = {"crash"}
          /\ UNCHANGED <<job, sandbox, wm, counts, lb>>
          /\ pc' = [pc EXCEPT ![s] = pc'[s]] /\ pc'[s] = "idle" /\ pc[s] # "idle"
      BY <2>35, <2>3, <2>4 DEF Crash
    <3>2. CASE pc[s] \in StartPCs
      <4>1. Once => OnTrack(s)' /\ (delivered' = 1 => Refused')
        BY <3>1, <3>2, <2>6 DEF OnTrack, Refused, StartAllowed
      <4>2. StartStep(s)
        BY <3>1, <3>2, <4>1, <2>5, <2>6, <2>8 DEF StartStep, Faults
      <4> QED
        BY <4>2, <2>2, StartKeeps
    <3>3. CASE pc[s] \notin StartPCs
      <4>1. OtherStep(s, "idle")
        BY <3>1, <3>3, <2>5 DEF OtherStep, Faults
      <4> QED
        BY <4>1, <2>2, OtherKeeps
    <3> QED
      BY <3>2, <3>3
  <2>36. CASE JobStart(s)
    <3>1. /\ UNCHANGED <<job, sandbox, wm, lb, faults>> /\ StartAllowed /\ pc[s] = "idle"
          /\ overlap' = (overlap \/ \E t \in Servers : Starting(t))
      BY <2>36 DEF JobStart
    <3>2. pc' = [pc EXCEPT ![s] = "file"] /\ pc'[s] = "file"
      BY <2>36, <2>2 DEF JobStart, Goto, Shapes
    <3>3. \A t \in Servers \ {s} : pc'[t] = pc[t]
      BY <3>2, <2>2 DEF Shapes
    <3>4. ASSUME ~overlap' PROVE Once'
      <4>1. Once /\ \A t \in Servers : pc[t] \notin StartPCs
        BY <3>1, <3>4 DEF OnceInv
      <4>2. delivered = 1 => "ToStart" \notin files
        BY <3>1, <4>1 DEF Once, NoRestart, Refused
      <4>3. Alone'
        BY <3>3, <4>1 DEF Alone
      <4>4. OnTrack(s)'
        BY <3>1, <3>2, <4>2 DEF OnTrack
      <4>5. \A t \in Servers \ {s} : OnTrack(t)'
        BY <3>3, <4>1 DEF OnTrack
      <4>6. NoRestart'
        BY <3>1, <4>2 DEF NoRestart, Refused
      <4> QED
        BY <3>1, <4>1, <4>3, <4>4, <4>5, <4>6 DEF Once
    <3> QED
      BY <3>1, <3>4 DEF OnceInv
  <2>37. CASE JobRegister(s) \/ JobSubmit(s)
    <3>1. /\ UNCHANGED <<lb, delivered, faults, overlap>>
          /\ registered' /\ dir' /\ ~registered /\ delivered = 0
          /\ \A t \in Servers : pc[t] = "idle"
      BY <2>37 DEF JobRegister, JobSubmit, Register, Inv, Unknown, OnceInv
    <3>2. /\ pc'[s] \in {"idle", "accept"}
          /\ \A t \in Servers \ {s} : pc'[t] = "idle"
      BY <3>1, <2>37, <2>2 DEF JobRegister, JobSubmit, Goto, Shapes
    <3>3. Alone' /\ \A t \in Servers : OnTrack(t)'
      BY <3>1, <3>2 DEF Alone, OnTrack
    <3>4. Once'
      BY <3>1, <3>3 DEF Once, NoRestart
    <3> QED
      BY <3>1, <3>4, <2>5 DEF OnceInv
  <2> QED
    BY <2>1, <2>9, <2>10, <2>11, <2>12, <2>13, <2>14, <2>15, <2>16, <2>17,
       <2>18, <2>19, <2>20, <2>21, <2>22, <2>23, <2>24, <2>25, <2>26, <2>27,
       <2>28, <2>29, <2>30, <2>31, <2>32, <2>33, <2>34, <2>35, <2>36, <2>37
       DEF Server, Submit
<1> QED
  BY <1>1, <1>2 DEF Next

(***************************************************************************)
(* With AsyncJobStart off, for any number of servers and calls: if one     *)
(* thing fails at most, and no two calls of jobStart overlap, a job is     *)
(* handed to the WM once, however often its start is repeated.  A start    *)
(* that follows a delivery is refused by what the LB was told or, when     *)
(* that was an ENQUEUE_FAIL, does not find JDLToStart.                     *)
(***************************************************************************)
THEOREM OneDelivery ==
  ASSUME AsyncJobStart = FALSE, MaxFaults <= 1
  PROVE  Spec => []DeliveredOnce
<1>1. Init => OnceInv
  <2> SUFFICES ASSUME Init PROVE OnceInv
    OBVIOUS
  <2>1. \A t \in Servers : pc[t] = "idle"
    BY DEF Init
  <2>2. Alone /\ \A t \in Servers : OnTrack(t)
    BY <2>1 DEF Alone, Starting, StartPCs, OnTrack, Before
  <2>3. Once
    BY <2>2 DEF Init, Once, NoRestart
  <2> QED
    BY <2>3 DEF Init, OnceInv
<1>2. OnceInv => DeliveredOnce
  BY DEF OnceInv, Once, DeliveredOnce
<1> QED
  BY <1>1, <1>2, InvInit, InvNext, OnceNext, PTL DEF Spec
=============================================================================
