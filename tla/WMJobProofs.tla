----------------------------- MODULE WMJobProofs -----------------------------
(***************************************************************************)
(* A job that is submitted, fails, is resubmitted and may be cancelled,    *)
(* for any retry counts, any number of failures and of request files: one  *)
(* copy of the job runs at a time, each start but the first is paid for by *)
(* a deep resubmission, an abort is final, and the user is told how the    *)
(* job ended.                                                              *)
(*                                                                         *)
(* The argument about the token holds as long as the workload manager does *)
(* not crash.  That one copy runs, and that the user is told, also holds   *)
(* over crashes (the last section), the second as long as the environment  *)
(* does not fail besides.  All of it is about a job that is not replanned: *)
(* a replan that overlaps a resubmission leaves two tokens, and two copies *)
(* of the job may run.  WMJobReplanProofs says what holds with replans.    *)
(***************************************************************************)
EXTENDS WMJob, SequenceTheorems, FiniteSetTheorems, WellFoundedInduction, TLAPS

\* The workload manager has not crashed and the job was not replanned.
Calm == crashes = 0 /\ replans = 0

\* Where a submission, and where a cancellation, can be.
SubmitPCs == {"idle", "queued", "scan", "token", "count", "restore", "plan",
              "check", "deliver", "delivered"}
CancelPCs == {"idle", "queued", "forward", "fail"}

CalmRequests ==
  [cmd : {"none", "jobsubmit", "jobresubmit", "jobcancel"},
   loc : {"none", "new", "old"}, pc : PCs, n0 : {0}, n : {0}, k : {0},
   deep : Nat, shallow : Nat, limbo : {FALSE}, queued : {0}, rp : {FALSE},
   sent : Nat]

\* The requests of a calm job: no count of replans, nothing in limbo, each
\* referred to once.
CalmReq ==
  /\ req \in [Slots -> CalmRequests]
  /\ \A r \in Slots :
       /\ req[r].loc = "none" <=> req[r].cmd = "none"
       /\ req[r].pc = "idle" <=> req[r].loc # "old"
       /\ req[r].cmd = "jobcancel" => req[r].pc \in CancelPCs
       /\ IsSubmission(r) => req[r].pc \in SubmitPCs

\* What is sent to ICE, and what ICE sends to CREAM.
Messages == [kind : {"Submit", "Cancel"}, tok : {0}]
Copies == [tok : {0}, known : {TRUE},
           st : {"queued", "running", "ok", "failed", "cancelled"}]

\* The rest of the state of a calm job: there is one token name.
CalmRest ==
  /\ up /\ rpl.pc = "idle" /\ limits \in Limits
  /\ tokens \subseteq {0} /\ tmps \subseteq {0}
  /\ sandbox \in BOOLEAN /\ ctok \in BOOLEAN
  /\ ~sandbox => tokens = {} /\ tmps = {} /\ ~ctok
  /\ runs \in Nat
  /\ out \in Seq(Messages) /\ copies \in Seq(Copies)

\* What the LB can know of a job.
Statuses == {"submitted", "waiting", "ready", "scheduled", "running", "done",
             "aborted", "cancelled"}
LBs == [status : Statuses, enq : {"none", "start", "ok", "fail"},
        done : {"none", "ok", "failed"}, deep : Nat, shallow : Nat,
        aborted : BOOLEAN, cancelled : BOOLEAN]
CalmLB == lb \in LBs

\* The job is with a request that has not been delivered, in ICE's input, or on
\* CREAM.
Pending(r) == IsSubmission(r) /\ req[r].pc # "delivered"
Sent(i)    == out[i].kind = "Submit"
Nowhere == /\ \A r \in Slots : ~Pending(r)
           /\ \A i \in DOMAIN out : ~Sent(i)
           /\ copies = <<>>

\* It is in one place only.
OnePlace ==
  /\ \A r, s \in Slots : Pending(r) /\ Pending(s) => r = s
  /\ \A i, h \in DOMAIN out : Sent(i) /\ Sent(h) => i = h
  /\ \A r \in Slots, i \in DOMAIN out : ~(Pending(r) /\ Sent(i))
  /\ copies # <<>> => /\ \A r \in Slots : ~Pending(r)
                      /\ \A i \in DOMAIN out : ~Sent(i)
  /\ Len(copies) \in {0, 1}

\* The temporary name of the token exists only while the request that gave it is
\* at work.
TmpInUse ==
  tmps # {} => /\ \A r \in Slots : Pending(r) => req[r].pc \in {"count", "restore"}
               /\ \A i \in DOMAIN out : ~Sent(i)
               /\ copies = <<>>

\* The counts of request r fit those of the LB.
PaidFor(r) ==
  /\ req[r].cmd = "jobsubmit" \/ req[r].pc = "restore" => (Pending(r) => runs <= lb.deep)
  /\ req[r].cmd = "jobresubmit" /\ req[r].pc \in {"scan", "token", "count"}
       => req[r].deep = lb.deep
  /\ req[r].pc = "count" => req[r].cmd = "jobresubmit"

\* Whoever has a token to come has paid for it with a deep resubmission.
Paid ==
  /\ runs <= 1 + lb.deep /\ lb.deep <= limits.deep
  /\ tokens \cup tmps # {} => runs <= lb.deep
  /\ \A r \in Slots : PaidFor(r)

\* The user is told of the end of a job that is nowhere, and an aborted one that
\* is still somewhere has no sandbox.
Told ==
  /\ ~sandbox => lb.aborted \/ lb.cancelled
  /\ lb.aborted => ~sandbox \/ Nowhere
  /\ Nowhere => lb.aborted \/ lb.cancelled \/ lb.done = "ok"

\* What holds as long as the job is calm, and the inductive invariant.
CalmInv == CalmReq /\ CalmRest /\ CalmLB /\ OnePlace /\ TmpInUse /\ Paid /\ Told

JobInv == crashes \in Nat /\ replans \in Nat /\ (Calm => CalmInv)

-----------------------------------------------------------------------------
(* Sequences, and the choice of a free request file                        *)

\* RemoveAt keeps what comes before and moves what comes after.
LEMMA RemovedAt ==
  ASSUME NEW S, NEW s \in Seq(S), NEW i \in DOMAIN s
  PROVE  /\ RemoveAt(s, i) \in Seq(S)
         /\ Len(RemoveAt(s, i)) = Len(s) - 1
         /\ \A h \in DOMAIN RemoveAt(s, i) :
              \E g \in DOMAIN s : /\ RemoveAt(s, i)[h] = s[g]
                                  /\ g = (IF h < i THEN h ELSE h + 1)
<1> DEFINE a == SubSeq(s, 1, i - 1)  b == SubSeq(s, i + 1, Len(s))
<1>1. i \in 1 .. Len(s) /\ Len(s) \in Nat
  BY LenProperties
<1>2. /\ a \in Seq(S) /\ Len(a) = i - 1
      /\ \A h \in 1 .. i - 1 : a[h] = s[h]
  BY <1>1, SubSeqProperties
<1>3. /\ b \in Seq(S) /\ Len(b) = Len(s) - i
      /\ \A h \in 1 .. Len(s) - i : b[h] = s[i + h]
  BY <1>1, SubSeqProperties
<1>4. RemoveAt(s, i) = a \o b
  BY DEF RemoveAt
<1> HIDE DEF a, b
<1>5. /\ a \o b \in Seq(S) /\ Len(a \o b) = Len(a) + Len(b)
      /\ \A h \in 1 .. Len(a) + Len(b) :
           (a \o b)[h] = IF h <= Len(a) THEN a[h] ELSE b[h - Len(a)]
  BY <1>2, <1>3, ConcatProperties
<1>8. Len(a) + Len(b) = Len(s) - 1
  BY <1>1, <1>2, <1>3
<1>6. DOMAIN (a \o b) = 1 .. Len(s) - 1 /\ DOMAIN s = 1 .. Len(s)
  BY <1>5, <1>8, LenProperties
<1>7. ASSUME NEW h \in 1 .. Len(s) - 1
      PROVE  \E g \in 1 .. Len(s) : (a \o b)[h] = s[g] /\ g = (IF h < i THEN h ELSE h + 1)
  <2>1. CASE h < i
    <3>1. h \in 1 .. i - 1 /\ h \in 1 .. Len(s)
      BY <2>1, <1>1
    <3>2. (a \o b)[h] = a[h]
      BY <3>1, <1>1, <1>2, <1>5, <1>8
    <3> QED
      BY <2>1, <3>1, <3>2, <1>2
  <2>2. CASE ~(h < i)
    <3>1. h - (i - 1) \in 1 .. Len(s) - i /\ i + (h - (i - 1)) = h + 1
      BY <2>2, <1>1
    <3>2. (a \o b)[h] = b[h - (i - 1)]
      BY <2>2, <1>1, <1>2, <1>5, <1>8
    <3> QED
      BY <2>2, <3>1, <3>2, <1>1, <1>3
  <2> QED
    BY <2>1, <2>2
<1> QED
  BY <1>4, <1>5, <1>6, <1>7, <1>8

\* ... and nothing else is lost.
LEMMA RemovedRest ==
  ASSUME NEW S, NEW s \in Seq(S), NEW i \in DOMAIN s, NEW g \in DOMAIN s, g # i
  PROVE  \E h \in DOMAIN RemoveAt(s, i) : RemoveAt(s, i)[h] = s[g]
<1> DEFINE t == RemoveAt(s, i)  h == IF g < i THEN g ELSE g - 1
<1>1. /\ t \in Seq(S) /\ Len(t) = Len(s) - 1
      /\ \A m \in DOMAIN t : \E f \in DOMAIN s : /\ t[m] = s[f]
                                               /\ f = (IF m < i THEN m ELSE m + 1)
  BY RemovedAt
<1> HIDE DEF t
<1>2. /\ DOMAIN t = 1 .. Len(s) - 1 /\ DOMAIN s = 1 .. Len(s) /\ Len(s) \in Nat
  BY <1>1, LenProperties
<1>3. h \in DOMAIN t /\ g = (IF h < i THEN h ELSE h + 1)
  BY <1>2
<1> HIDE DEF h
<1>4. t[h] = s[g]
  BY <1>1, <1>3
<1> QED
  BY <1>3, <1>4 DEF t

\* The file that JobDir::deliver creates is one that did not exist.
LEMMA DeliverIsFree ==
  ASSUME Free # {}, NEW cmd, NEW n
  PROVE  \E r \in Free : deliver(req, cmd, n) = [req EXCEPT ![r] = Request(cmd, n)]
<1> DEFINE R == OpToRel(<, Nat)
<1>1. IsWellFoundedOn(R, Nat)
  BY NatLessThanWellFounded
<1>2. Free \subseteq Nat
  BY JobAssumption DEF Free
<1>3. \A x, y \in Nat : <<y, x>> \in R <=> y < x
  BY DEF OpToRel
<1> HIDE DEF R
<1>4. PICK x \in Free : \A y \in Free : ~ (<<y, x>> \in R)
  BY <1>1, <1>2, WFMin
<1>5. ASSUME NEW y \in Free PROVE x <= y
  <2>1. x \in Nat /\ y \in Nat /\ ~ (<<y, x>> \in R)
    BY <1>2, <1>4
  <2> QED
    BY <2>1, <1>3
<1> DEFINE m == CHOOSE s \in Free : \A z \in Free : s <= z
<1>6. m \in Free
  BY <1>4, <1>5
<1>7. deliver(req, cmd, n) = [req EXCEPT ![m] = Request(cmd, n)]
  BY DEF deliver
<1> QED
  BY <1>6, <1>7

-----------------------------------------------------------------------------
(* The requests                                                            *)

\* The end of a processor, whether the request was postponed or not.
LEMMA LeftCalm ==
  ASSUME NEW x \in CalmRequests
  PROVE  /\ Left(x) = NoRequest /\ NoRequest \in CalmRequests
         /\ Postponed(x) \in CalmRequests
         /\ Postponed(x).cmd = x.cmd /\ Postponed(x).loc = x.loc
         /\ Postponed(x).pc = "queued"
<1>1. Left(x) = NoRequest /\ NoRequest \in CalmRequests
  BY DEF CalmRequests, Left, NoRequest, PCs
<1> DEFINE R(Q) == [cmd : {x.cmd}, loc : {x.loc}, pc : PCs, n0 : {0}, n : {0}, k : {0},
                    deep : Nat, shallow : Nat, limbo : {FALSE}, queued : Q, rp : {FALSE},
                    sent : Nat]
           v  == x.queued + 1
           y  == [x EXCEPT !.queued = v]
           w  == y.queued - 1
           z1 == [y EXCEPT !.pc = "queued"]
           z2 == [z1 EXCEPT !.queued = w]
           z3 == [z2 EXCEPT !.k = 0]
           z4 == [z3 EXCEPT !.rp = FALSE]
           z5 == [z4 EXCEPT !.deep = 0]
           z6 == [z5 EXCEPT !.shallow = 0]
<1>2. x \in R({0}) /\ x.queued = 0
  BY DEF CalmRequests
<1>12. v = 1
  BY <1>2
<1>3. y \in R({1})
  <2> HIDE DEF v
  <2> QED
    BY <1>2, <1>12
<1>13. y.queued = 1
  <2> HIDE DEF y
  <2> QED
    BY <1>3
<1>4. Postponed(x) = z6
  BY <1>13 DEF Postponed, Left
<1> HIDE DEF y
<1>14. w = 0
  BY <1>13
<1> HIDE DEF w
<1>5. z1 \in R({1}) /\ z1.pc = "queued"
  BY <1>3 DEF PCs
<1> HIDE DEF z1
<1>6. z2 \in R({0}) /\ z2.pc = "queued"
  BY <1>14, <1>5
<1> HIDE DEF z2
<1>7. z3 \in R({0}) /\ z3.pc = "queued"
  BY <1>6
<1> HIDE DEF z3
<1>8. z4 \in R({0}) /\ z4.pc = "queued"
  BY <1>7
<1> HIDE DEF z4
<1>9. z5 \in R({0}) /\ z5.pc = "queued"
  BY <1>8
<1> HIDE DEF z5
<1>10. z6 \in R({0}) /\ z6.pc = "queued"
  BY <1>9
<1> HIDE DEF z6
<1>11. z6 \in CalmRequests /\ z6.cmd = x.cmd /\ z6.loc = x.loc
  BY <1>10 DEF CalmRequests
<1> QED
  BY <1>1, <1>4, <1>10, <1>11

\* What a step of the processor of request x can make of it.
Follows(x, y) ==
  \/ y = NoRequest
  \/ /\ y.cmd = x.cmd /\ y.cmd # "none" /\ y.loc = "old" /\ y.pc # "idle"
     /\ x.pc # "delivered"
     /\ y.cmd = "jobcancel" => y.pc \in CancelPCs
     /\ y.cmd # "jobcancel" => y.pc \in SubmitPCs

Steps(r) == \E x \in CalmRequests : /\ req' = [req EXCEPT ![r] = x]
                                    /\ Follows(req[r], x)

\* A request that goes, is postponed, or moves on.
LEMMA StepForms ==
  ASSUME CalmReq, NEW r \in Slots
  PROVE  /\ End(r) => req' = [req EXCEPT ![r] = NoRequest] /\ Steps(r)
         /\ (req' = [req EXCEPT ![r] = Postponed(@)]
             /\ req[r].pc \in SubmitPCs \ {"idle", "delivered"}
             /\ req[r].cmd # "none" /\ req[r].loc = "old")
              => req' = [req EXCEPT ![r] = Postponed(req[r])] /\ Steps(r)
         /\ \A p \in PCs :
              (/\ req' = [req EXCEPT ![r].pc = p]
               /\ req[r].cmd # "none" /\ req[r].loc = "old"
               /\ req[r].pc # "delivered" /\ p # "idle"
               /\ p \in IF req[r].cmd = "jobcancel" THEN CancelPCs ELSE SubmitPCs)
              => Steps(r)
<1>1. req[r] \in CalmRequests /\ req \in [Slots -> CalmRequests]
  BY DEF CalmReq
<1>2. /\ Left(req[r]) = NoRequest /\ NoRequest \in CalmRequests
      /\ Postponed(req[r]) \in CalmRequests
  BY <1>1, LeftCalm
<1>3. End(r) => req' = [req EXCEPT ![r] = NoRequest] /\ Steps(r)
  BY <1>1, <1>2 DEF End, Steps, Follows
<1>4. ASSUME req' = [req EXCEPT ![r] = Postponed(@)],
             req[r].pc \in SubmitPCs \ {"idle", "delivered"},
             req[r].cmd # "none", req[r].loc = "old"
      PROVE  req' = [req EXCEPT ![r] = Postponed(req[r])] /\ Steps(r)
  <2>1. req' = [req EXCEPT ![r] = Postponed(req[r])]
    BY <1>4
  <2>2. /\ Postponed(req[r]).cmd = req[r].cmd /\ Postponed(req[r]).loc = req[r].loc
        /\ Postponed(req[r]).pc = "queued"
    BY <1>1, LeftCalm
  <2> QED
    BY <2>1, <2>2, <1>2, <1>4 DEF Steps, Follows, SubmitPCs, CancelPCs
<1>5. ASSUME NEW p \in PCs, req' = [req EXCEPT ![r].pc = p],
             req[r].cmd # "none", req[r].loc = "old",
             req[r].pc # "delivered", p # "idle",
             p \in IF req[r].cmd = "jobcancel" THEN CancelPCs ELSE SubmitPCs
      PROVE  Steps(r)
  <2> DEFINE x == [req[r] EXCEPT !.pc = p]
  <2>1. req' = [req EXCEPT ![r] = x]
    BY <1>1, <1>5
  <2>2. x \in CalmRequests /\ x.pc = p /\ x.cmd = req[r].cmd /\ x.loc = req[r].loc
    BY <1>1 DEF CalmRequests
  <2> HIDE DEF x
  <2> QED
    BY <2>1, <2>2, <1>5 DEF Steps, Follows
<1> QED
  BY <1>3, <1>4, <1>5

\* The names that the look for the token can find.
LEMMA NamesCalm ==
  ASSUME CalmRest
  PROVE  /\ \A f \in Names : f[2] = 0
         /\ Names = {} <=> tokens \cup tmps = {}
         /\ tmps = {} \/ tokens = {} => Cardinality(Names) <= 1
<1>1. tokens \subseteq {0} /\ tmps \subseteq {0}
  BY DEF CalmRest
<1>2. ASSUME NEW f \in Names PROVE f[2] = 0
  <2>1. \/ \E n \in tokens : f = <<FALSE, n>>
        \/ \E n \in tmps : f = <<TRUE, n>>
    BY DEF Names
  <2>2. ASSUME NEW n \in tokens \cup tmps, NEW b, f = <<b, n>> PROVE f[2] = 0
    <3>1. n = 0 /\ f[2] = n
      BY <1>1, <2>2
    <3> QED
      BY <3>1
  <2> QED
    BY <2>1, <2>2
<1>3. Names = {} <=> tokens \cup tmps = {}
  BY DEF Names
<1>4. ASSUME tmps = {} \/ tokens = {} PROVE Cardinality(Names) <= 1
  <2>1. \A n \in tokens \cup tmps : n = 0
    BY <1>1
  <2>2. Names \subseteq {<<FALSE, 0>>} \/ Names \subseteq {<<TRUE, 0>>}
    <3>1. CASE tmps = {}
      <4>1. \A f \in Names : f = <<FALSE, 0>>
        BY <1>1, <2>1, <3>1 DEF Names
      <4> QED
        BY <4>1
    <3>2. CASE tokens = {}
      <4>1. \A f \in Names : f = <<TRUE, 0>>
        BY <1>1, <2>1, <3>2 DEF Names
      <4> QED
        BY <4>1
    <3> QED
      BY <1>4, <3>1, <3>2
  <2>3. \A e : IsFiniteSet({e}) /\ Cardinality({e}) = 1
    BY FS_Singleton
  <2>4. PICK e : Names \subseteq {e}
    BY <2>2
  <2>5. Cardinality(Names) <= Cardinality({e})
    BY <2>3, <2>4, FS_Subset
  <2> QED
    BY <2>3, <2>5
<1> QED
  BY <1>2, <1>3, <1>4

\* There are at most two of them.
LEMMA NamesFinite ==
  ASSUME tokens \subseteq {0}, tmps \subseteq {0}
  PROVE  IsFiniteSet(Names)
<1>1. Names \subseteq {<<FALSE, 0>>, <<TRUE, 0>>}
  <2>1. \A n \in tokens \cup tmps : n = 0
    OBVIOUS
  <2> QED
    BY <2>1 DEF Names
<1>2. IsFiniteSet({<<FALSE, 0>>} \cup {<<TRUE, 0>>})
  BY FS_Singleton, FS_Union
<1>3. Names \subseteq {<<FALSE, 0>>} \cup {<<TRUE, 0>>}
  BY <1>1
<1> QED
  BY <1>2, <1>3, FS_Subset

\* Every step of a processor keeps the other requests.
LEMMA ProcessorSteps ==
  ASSUME CalmReq, CalmRest, CalmLB, NEW r \in Slots,
         Dequeue(r) \/ Submission(r) \/ Cancellation(r)
  PROVE  Steps(r)
<1>1. /\ req[r] \in CalmRequests /\ req \in [Slots -> CalmRequests]
      /\ req[r].loc = "none" <=> req[r].cmd = "none"
      /\ req[r].pc = "idle" <=> req[r].loc # "old"
      /\ req[r].cmd = "jobcancel" => req[r].pc \in CancelPCs
      /\ IsSubmission(r) => req[r].pc \in SubmitPCs
  BY DEF CalmReq
<1>2. /\ req[r].limbo = FALSE /\ req[r].queued = 0 /\ req[r].n = 0 /\ req[r].k = 0
      /\ req[r].cmd \in {"none", "jobsubmit", "jobresubmit", "jobcancel"}
      /\ req[r].loc \in {"none", "new", "old"} /\ req[r].rp = FALSE
  BY <1>1 DEF CalmRequests
<1>3. ASSUME NEW p \in SubmitPCs \ {"idle"}, NEW c \in SubmitPCs \ {"idle", "queued", "delivered"},
             req[r].pc = c, req' = [req EXCEPT ![r].pc = p]
      PROVE  Steps(r)
  BY <1>1, <1>2, <1>3, StepForms DEF IsSubmission, SubmitPCs, CancelPCs, PCs
<1>4. ASSUME req[r].pc \in SubmitPCs \ {"idle", "queued", "delivered"} \/ IsSubmission(r),
             req[r].pc # "idle", req[r].pc # "delivered",
             req' = [req EXCEPT ![r] = Postponed(@)]
      PROVE  Steps(r)
  BY <1>1, <1>2, <1>4, StepForms DEF IsSubmission, SubmitPCs, CancelPCs, PCs
<1>5. CASE Dequeue(r)
  <2> DEFINE x == [[req[r] EXCEPT !.loc = "old"] EXCEPT !.pc = "queued"]
  <2>1. req' = [req EXCEPT ![r] = x]
    BY <1>1, <1>5 DEF Dequeue
  <2>2. x \in CalmRequests /\ x.pc = "queued" /\ x.cmd = req[r].cmd /\ x.loc = "old"
    BY <1>1 DEF CalmRequests, PCs
  <2>3. req[r].cmd # "none" /\ req[r].pc = "idle"
    BY <1>1, <1>2, <1>5 DEF Dequeue
  <2> HIDE DEF x
  <2> QED
    BY <2>1, <2>2, <2>3 DEF Steps, Follows, SubmitPCs, CancelPCs
<1>6. CASE Begin(r)
  <2> DEFINE waits == req[r].limbo /\ in_limbo
             q == req[r].queued + (IF waits THEN 1 ELSE 0)
             x == [[req[r] EXCEPT !.limbo = waits] EXCEPT !.queued = q]
             z == [[[[x EXCEPT !.pc = "scan"] EXCEPT !.n = 0] EXCEPT !.deep = lb.deep]
                      EXCEPT !.shallow = lb.shallow]
  <2>1. /\ At(r, "queued") /\ IsSubmission(r)
        /\ req' = [req EXCEPT ![r] = IF ctok THEN Left(x)
                                     ELSE IF x.cmd = "jobsubmit" THEN [x EXCEPT !.pc = "scan"]
                                     ELSE z]
    BY <1>6 DEF Begin
  <2>2. x = req[r]
    <3>1. waits = FALSE /\ q = 0
      BY <1>2
    <3> HIDE DEF waits, q
    <3> QED
      BY <3>1, <1>1, <1>2 DEF CalmRequests
  <2> HIDE DEF x
  <2>3. CASE ctok
    BY <2>1, <2>2, <2>3, StepForms DEF End
  <2>4. CASE ~ctok /\ req[r].cmd = "jobsubmit"
    <3>1. req' = [req EXCEPT ![r].pc = "scan"]
      BY <2>1, <2>2, <2>4
    <3> QED
      BY <3>1, <2>1, <1>1, <2>4, StepForms DEF At, SubmitPCs, PCs
  <2>5. CASE ~ctok /\ req[r].cmd # "jobsubmit"
    <3>1. req' = [req EXCEPT ![r] = z]
      BY <2>1, <2>2, <2>5
    <3>2. z \in CalmRequests /\ z.pc = "scan" /\ z.cmd = req[r].cmd /\ z.loc = req[r].loc
      BY <1>1, <2>2 DEF CalmRequests, PCs, CalmLB, LBs
    <3> HIDE DEF z
    <3> QED
      BY <3>1, <3>2, <2>1, <1>1, <1>2 DEF Steps, Follows, IsSubmission, At, SubmitPCs
  <2> QED
    BY <2>3, <2>4, <2>5
<1>7. CASE LBFails(r)
  <2>1. Postpone(r) \/ Unrecoverable(r)
    BY <1>2, <1>7 DEF LBFails
  <2>2. At(r, "queued") /\ IsSubmission(r)
    BY <1>7 DEF LBFails
  <2> QED
    BY <2>1, <2>2, <1>4, StepForms DEF Postpone, Unrecoverable, At
<1>8. CASE Scan(r)
  <2>1. CASE ~sandbox
    BY <1>8, <2>1, StepForms DEF Scan
  <2>2. CASE sandbox
    <3>1. PICK f \in IF Names = {} THEN {<<FALSE, 0>>} ELSE Names :
            req' = [req EXCEPT ![r].pc = "token", ![r].k = f[2],
                         ![r].n = IF Names # {} /\ (@ = 0 \/ overwrites)
                                  THEN f[2] ELSE @]
      BY <1>8, <2>2 DEF Scan
    <3>2. f[2] = 0
      <4>1. CASE Names = {}
        <5>1. f = <<FALSE, 0>>
          BY <3>1, <4>1
        <5> QED
          BY <5>1
      <4>2. CASE Names # {}
        BY <3>1, <4>2, NamesCalm
      <4> QED
        BY <4>1, <4>2
    <3> DEFINE v == IF Names # {} /\ (req[r].n = 0 \/ overwrites) THEN f[2] ELSE req[r].n
               x == [[[req[r] EXCEPT !.pc = "token"] EXCEPT !.k = f[2]] EXCEPT !.n = v]
    <3>3. v = 0
      BY <3>2, <1>2
    <3>4. req' = [req EXCEPT ![r] = x]
      BY <3>1, <1>1
    <3> HIDE DEF v
    <3>5. x \in CalmRequests /\ x.pc = "token" /\ x.cmd = req[r].cmd /\ x.loc = req[r].loc
      BY <1>1, <3>2, <3>3 DEF CalmRequests, PCs
    <3> HIDE DEF x
    <3>6. req[r].pc = "scan"
      BY <1>8 DEF Scan, At
    <3> QED
      BY <3>4, <3>5, <3>6, <1>1, <1>2 DEF Steps, Follows, SubmitPCs, CancelPCs, IsSubmission
  <2> QED
    BY <2>1, <2>2, <1>1 DEF CalmRest
<1>9. CASE TakeToken(r)
  BY <1>9, <1>3 DEF TakeToken, At, SubmitPCs
<1>10. CASE Count(r)
  BY <1>10, <1>3, <1>4, StepForms DEF Count, Unrecoverable, At, SubmitPCs
<1>11. CASE NewToken(r)
  BY <1>11, <1>2, <1>3, <1>4 DEF NewToken, Postpone, At, SubmitPCs
<1>12. CASE RestoreToken(r)
  BY <1>12, <1>3, <1>4 DEF RestoreToken, Postpone, At, SubmitPCs
<1>13. CASE Plan(r)
  BY <1>13, <1>3 DEF Plan, At, SubmitPCs
<1>14. CASE PlanFails(r)
  BY <1>14, <1>4 DEF PlanFails, Postpone, At, SubmitPCs
<1>15. CASE CheckCancel(r)
  BY <1>15, <1>3, StepForms DEF CheckCancel, At, SubmitPCs
<1>16. CASE Deliver(r)
  <2> DEFINE v == req[r].sent + 1
             x == [[req[r] EXCEPT !.pc = "delivered"] EXCEPT !.sent = v]
  <2>1. req' = [req EXCEPT ![r] = x]
    BY <1>1, <1>16 DEF Deliver
  <2>2. v \in Nat
    BY <1>1 DEF CalmRequests
  <2> HIDE DEF v
  <2>3. x \in CalmRequests /\ x.pc = "delivered" /\ x.cmd = req[r].cmd /\ x.loc = req[r].loc
    BY <1>1, <2>2 DEF CalmRequests, PCs
  <2> HIDE DEF x
  <2>4. req[r].pc = "deliver"
    BY <1>16 DEF Deliver, At
  <2> QED
    BY <2>1, <2>3, <2>4, <1>1, <1>2 DEF Steps, Follows, SubmitPCs, CancelPCs, IsSubmission
<1>17. CASE DeliverFails(r) \/ Delivered(r) \/ ProxyExpired(r)
  BY <1>17, StepForms DEF DeliverFails, Delivered, ProxyExpired, Unrecoverable
<1>18. CASE CancelLook(r) \/ CancelLBFails(r)
  <2>1. At(r, "queued") /\ req[r].cmd = "jobcancel"
    BY <1>18 DEF CancelLook, CancelLBFails
  <2>2. \/ End(r)
        \/ \E p \in {"forward", "fail"} : req' = [req EXCEPT ![r].pc = p]
    BY <1>18 DEF CancelLook, CancelLBFails
  <2> QED
    BY <2>1, <2>2, <1>1, StepForms DEF At, CancelPCs, PCs
<1>19. CASE CancelForward(r) \/ CancelFail(r)
  <2>1. CASE End(r)
    BY <2>1, StepForms
  <2>2. CASE At(r, "forward") /\ req' = [req EXCEPT ![r].pc = "fail"]
    <3>1. /\ req[r].pc = "forward" /\ req[r].cmd = "jobcancel"
          /\ req[r].loc = "old"
      BY <1>1, <1>2, <2>2 DEF At, SubmitPCs, IsSubmission
    <3> QED
      BY <2>2, <3>1, StepForms DEF CancelPCs, PCs
  <2> QED
    BY <1>19, <2>1, <2>2 DEF CancelForward, CancelFail
<1> QED
  BY <1>5, <1>6, <1>7, <1>8, <1>9, <1>10, <1>11, <1>12, <1>13, <1>14, <1>15, <1>16,
     <1>17, <1>18, <1>19 DEF Submission, Cancellation

\* What follows from a step of a processor.
LEMMA StepsKeep ==
  ASSUME CalmReq, NEW r \in Slots, Steps(r)
  PROVE  /\ CalmReq' 
         /\ \A s \in Slots : s # r => req'[s] = req[s]
         /\ \A s \in Slots : Pending(s)' => Pending(s) /\ req'[s].cmd = req[s].cmd
<1>1. PICK x \in CalmRequests : req' = [req EXCEPT ![r] = x] /\ Follows(req[r], x)
  BY DEF Steps
<1>2. /\ req \in [Slots -> CalmRequests] /\ req' \in [Slots -> CalmRequests]
      /\ \A s \in Slots : req'[s] = IF s = r THEN x ELSE req[s]
  BY <1>1 DEF CalmReq
<1>3. ASSUME NEW s \in Slots
      PROVE  /\ req'[s].loc = "none" <=> req'[s].cmd = "none"
             /\ req'[s].pc = "idle" <=> req'[s].loc # "old"
             /\ req'[s].cmd = "jobcancel" => req'[s].pc \in CancelPCs
             /\ req'[s].cmd \in {"jobsubmit", "jobresubmit"} => req'[s].pc \in SubmitPCs
  <2>1. CASE s # r
    BY <1>2, <2>1 DEF CalmReq, IsSubmission
  <2>2. CASE s = r /\ x = NoRequest
    BY <1>2, <2>2 DEF NoRequest
  <2>3. CASE s = r /\ x # NoRequest
    BY <1>1, <1>2, <2>3 DEF Follows
  <2> QED
    BY <2>1, <2>2, <2>3
<1>4. ASSUME NEW s \in Slots, Pending(s)' PROVE Pending(s) /\ req'[s].cmd = req[s].cmd
  <2>1. CASE s # r
    BY <1>2, <1>4, <2>1 DEF Pending, IsSubmission
  <2>2. CASE s = r /\ x = NoRequest
    BY <1>2, <1>4, <2>2 DEF NoRequest, Pending, IsSubmission
  <2>3. CASE s = r /\ x # NoRequest
    BY <1>1, <1>2, <1>4, <2>3 DEF Follows, Pending, IsSubmission
  <2> QED
    BY <2>1, <2>2, <2>3
<1> QED
  BY <1>2, <1>3, <1>4 DEF CalmReq, IsSubmission

\* What follows from the delivery of a request to the workload manager.
LEMMA DeliveryKeeps ==
  ASSUME CalmReq, Free # {}, NEW cmd \in {"jobresubmit", "jobcancel"},
         req' = deliver(req, cmd, 0)
  PROVE  \E r \in Slots :
           /\ CalmReq' /\ ~Pending(r) /\ req[r].pc = "idle"
           /\ req'[r].cmd = cmd /\ req'[r].pc = "idle"
           /\ \A s \in Slots : s # r => req'[s] = req[s]
<1>1. PICK r \in Free : req' = [req EXCEPT ![r] = Request(cmd, 0)]
  BY DeliverIsFree
<1>2. r \in Slots /\ req[r].loc = "none"
  BY DEF Free
<1>3. req \in [Slots -> CalmRequests]
  BY DEF CalmReq
<1> DEFINE y1 == [NoRequest EXCEPT !.cmd = cmd]
           y2 == [y1 EXCEPT !.loc = "new"]
           y3 == [y2 EXCEPT !.n0 = 0]
           x  == [y3 EXCEPT !.n = 0]
<1>4. Request(cmd, 0) = x
  BY DEF Request
<1>9. y1 \in CalmRequests /\ y1.cmd = cmd /\ y1.pc = "idle"
  BY DEF NoRequest, CalmRequests, PCs
<1> HIDE DEF y1
<1>10. y2 \in CalmRequests /\ y2.cmd = cmd /\ y2.loc = "new" /\ y2.pc = "idle"
  BY <1>9 DEF CalmRequests
<1> HIDE DEF y2
<1>11. y3 \in CalmRequests /\ y3.cmd = cmd /\ y3.loc = "new" /\ y3.pc = "idle"
  BY <1>10 DEF CalmRequests
<1> HIDE DEF y3
<1>5. x \in CalmRequests /\ x.cmd = cmd /\ x.loc = "new" /\ x.pc = "idle"
  BY <1>11 DEF CalmRequests
<1> HIDE DEF x
<1>6. /\ req' \in [Slots -> CalmRequests]
      /\ \A s \in Slots : req'[s] = IF s = r THEN x ELSE req[s]
  BY <1>1, <1>2, <1>3, <1>4, <1>5
<1>7. req[r].cmd = "none" /\ req[r].pc = "idle"
  BY <1>2 DEF CalmReq
<1>8. CalmReq'
  BY <1>5, <1>6 DEF CalmReq, IsSubmission, SubmitPCs, CancelPCs
<1> QED
  BY <1>2, <1>5, <1>6, <1>7, <1>8 DEF Pending, IsSubmission

-----------------------------------------------------------------------------
(* The LB                                                                  *)

\* What may be logged without touching the outcome or the retry counts.
LBSame == /\ lb' \in LBs /\ lb'.deep = lb.deep /\ lb'.aborted = lb.aborted
          /\ lb'.cancelled = lb.cancelled /\ lb'.done = lb.done

\* ... with the abort, and with the cancellation of the job.
LBAborts == lb' \in LBs /\ lb'.deep = lb.deep /\ lb'.aborted = TRUE
LBCancels == /\ lb' \in LBs /\ lb'.deep = lb.deep /\ lb'.aborted = lb.aborted
             /\ lb'.cancelled = TRUE /\ lb'.done = lb.done

\* The log calls of the workload manager.
LEMMA LogForms ==
  ASSUME CalmLB
  PROVE  /\ \A s \in Statuses : lb' = Status(s) => LBSame
         /\ lb' = lb => LBSame
         /\ lb' = [lb EXCEPT !.enq = "ok"] => LBSame
         /\ lb' = [lb EXCEPT !.status = "ready", !.enq = "start"] => LBSame
         /\ lb' = log_abort => LBAborts
         /\ lb' = [log_abort EXCEPT !.enq = "fail"] => LBAborts
         /\ lb' = log_cancelled => LBCancels
         /\ lb' = [lb EXCEPT !.status = "waiting", !.shallow = @ + 1] => LBSame
         /\ lb' = [lb EXCEPT !.status = "waiting", !.deep = @ + 1, !.shallow = 0]
              => /\ lb' \in LBs /\ lb'.deep = lb.deep + 1 /\ lb'.aborted = lb.aborted
                 /\ lb'.cancelled = lb.cancelled /\ lb'.done = lb.done
<1>1. lb \in LBs /\ lb.shallow + 1 \in Nat /\ lb.deep + 1 \in Nat
  BY DEF CalmLB, LBs
<1>2. \A s \in Statuses : lb' = Status(s) => LBSame
  BY <1>1 DEF Status, LBs, Statuses, LBSame
<1>3. lb' = lb => LBSame
  BY <1>1 DEF LBSame
<1>4. lb' = [lb EXCEPT !.enq = "ok"] => LBSame
  BY <1>1 DEF LBs, LBSame
<1>5. lb' = [lb EXCEPT !.status = "ready", !.enq = "start"] => LBSame
  BY <1>1 DEF LBs, Statuses, LBSame
<1>6. lb' = log_abort => LBAborts
  BY <1>1 DEF LBs, Statuses, LBAborts, log_abort
<1>7. lb' = [log_abort EXCEPT !.enq = "fail"] => LBAborts
  BY <1>1 DEF LBs, Statuses, LBAborts, log_abort
<1>8. lb' = log_cancelled => LBCancels
  BY <1>1 DEF LBs, Statuses, LBCancels, log_cancelled
<1> DEFINE m == lb.shallow + 1  d == lb.deep + 1
<1>9. lb' = [[lb EXCEPT !.status = "waiting"] EXCEPT !.shallow = m] => LBSame
  <2> HIDE DEF m
  <2> QED
    BY <1>1 DEF LBs, Statuses, LBSame, m
<1>10. ASSUME lb' = [[[lb EXCEPT !.status = "waiting"] EXCEPT !.deep = d] EXCEPT !.shallow = 0]
       PROVE  /\ lb' \in LBs /\ lb'.deep = d /\ lb'.aborted = lb.aborted
              /\ lb'.cancelled = lb.cancelled /\ lb'.done = lb.done
  <2>1. d \in Nat
    BY <1>1
  <2> HIDE DEF d
  <2> QED
    BY <1>1, <1>10, <2>1 DEF LBs, Statuses
<1> QED
  BY <1>2, <1>3, <1>4, <1>5, <1>6, <1>7, <1>8, <1>9, <1>10

-----------------------------------------------------------------------------
(* What a step of a processor does to the job                              *)

SameFiles == tokens' = tokens /\ tmps' = tmps /\ sandbox' = sandbox
CtokFalls == ctok' \in BOOLEAN /\ (ctok' => ctok \/ sandbox)

\* The job stays with its request.
Stays(r) ==
  /\ Pending(r) /\ Pending(r)' /\ PaidFor(r)'
  /\ lb' \in LBs /\ lb'.aborted = lb.aborted /\ lb'.cancelled = lb.cancelled
  /\ lb'.done = lb.done /\ lb.deep <= lb'.deep /\ lb'.deep <= limits.deep
  /\ sandbox' = sandbox /\ CtokFalls
  /\ tokens' \subseteq {0} /\ tmps' \subseteq {0}
  /\ tokens' \cup tmps' # {} => sandbox /\ runs <= lb'.deep
  /\ tmps' # {} => req'[r].pc \in {"count", "restore"}
  /\ out' = out

\* The request is not the one that has the job.
Apart(r) ==
  /\ ~Pending(r) /\ SameFiles /\ CtokFalls
  /\ LBSame \/ LBCancels
  /\ out' = out \/ out' = Append(out, [kind |-> "Cancel", tok |-> 0])

\* The job is given up.
GivesUp(r) ==
  /\ Pending(r) /\ ~Pending(r)' /\ SameFiles /\ CtokFalls
  /\ LBAborts \/ (lb' = lb /\ ~sandbox)
  /\ out' = out

\* The job is cancelled or aborted, and purged.
Purges(r) ==
  /\ Purge /\ ~Pending(r)' /\ out' = out
  /\ LBAborts \/ LBCancels

\* The job goes to ICE.
Sends(r) ==
  /\ Pending(r) /\ ~Pending(r)' /\ SameFiles /\ CtokFalls /\ lb' = lb
  /\ req[r].pc = "deliver"
  /\ out' = Append(out, [kind |-> "Submit", tok |-> 0])

\* A request that moves on, is postponed or ends.
LEMMA MoveForms ==
  ASSUME CalmReq, NEW r \in Slots
  PROVE  /\ \A p \in PCs : req' = [req EXCEPT ![r].pc = p]
              => req'[r].cmd = req[r].cmd /\ req'[r].pc = p /\ req'[r].deep = req[r].deep
         /\ req' = [req EXCEPT ![r] = Postponed(@)]
              => req'[r].cmd = req[r].cmd /\ req'[r].pc = "queued"
         /\ End(r) => ~Pending(r)'
<1>1. req[r] \in CalmRequests /\ req \in [Slots -> CalmRequests]
  BY DEF CalmReq
<1>2. ASSUME NEW p \in PCs, req' = [req EXCEPT ![r].pc = p]
      PROVE  req'[r].cmd = req[r].cmd /\ req'[r].pc = p /\ req'[r].deep = req[r].deep
  <2>1. req'[r] = [req[r] EXCEPT !.pc = p]
    BY <1>1, <1>2
  <2> QED
    BY <1>1, <2>1 DEF CalmRequests
<1>3. req' = [req EXCEPT ![r] = Postponed(@)]
        => req'[r].cmd = req[r].cmd /\ req'[r].pc = "queued"
  BY <1>1, LeftCalm
<1>4. ASSUME End(r) PROVE ~Pending(r)'
  <2>1. req'[r] = NoRequest
    BY <1>1, <1>4, StepForms
  <2> QED
    BY <2>1 DEF NoRequest, Pending, IsSubmission
<1> QED
  BY <1>2, <1>3, <1>4

\* Every step of a processor has one of these forms.
LEMMA ProcessorForms ==
  ASSUME CalmInv, NEW r \in Slots, Dequeue(r) \/ Submission(r) \/ Cancellation(r)
  PROVE  Stays(r) \/ Apart(r) \/ GivesUp(r) \/ Purges(r) \/ Sends(r)
<1> USE DEF CalmInv
<1>1. /\ req[r] \in CalmRequests /\ req \in [Slots -> CalmRequests]
      /\ req[r].loc = "none" <=> req[r].cmd = "none"
      /\ req[r].pc = "idle" <=> req[r].loc # "old"
      /\ req[r].cmd = "jobcancel" => req[r].pc \in CancelPCs
      /\ IsSubmission(r) => req[r].pc \in SubmitPCs
  BY DEF CalmReq
<1>2. /\ req[r].limbo = FALSE /\ req[r].queued = 0 /\ req[r].n = 0 /\ req[r].k = 0
      /\ req[r].cmd \in {"none", "jobsubmit", "jobresubmit", "jobcancel"}
      /\ req[r].loc \in {"none", "new", "old"} /\ req[r].rp = FALSE
      /\ req[r].deep \in Nat
  BY <1>1 DEF CalmRequests
<1>3. /\ tokens \subseteq {0} /\ tmps \subseteq {0} /\ sandbox \in BOOLEAN /\ ctok \in BOOLEAN
      /\ ~sandbox => tokens = {} /\ tmps = {} /\ ~ctok
      /\ runs \in Nat /\ lb.deep \in Nat /\ limits.deep \in Nat
  BY JobAssumption DEF CalmRest, CalmLB, LBs
<1>4. /\ runs <= 1 + lb.deep /\ lb.deep <= limits.deep
      /\ tokens \cup tmps # {} => runs <= lb.deep
      /\ PaidFor(r)
  BY DEF Paid
<1>5. tmps # {} => (Pending(r) => req[r].pc \in {"count", "restore"})
  BY DEF TmpInUse
\* A move that changes neither the token nor what the LB knows.
<1>6. ASSUME Pending(r), Pending(r)', LBSame, SameFiles, CtokFalls, out' = out,
             runs' = runs, limits' = limits, req'[r].cmd = req[r].cmd,
             tmps = {}, req'[r].pc \notin {"restore", "count"},
             /\ req'[r].cmd = "jobresubmit" /\ req'[r].pc \in {"scan", "token", "count"}
             => req'[r].deep = lb.deep
      PROVE  Stays(r)
  <2>1. PaidFor(r)'
    BY <1>4, <1>6 DEF PaidFor, LBSame
  <2>2. lb'.deep = lb.deep /\ lb.deep <= lb'.deep /\ lb'.deep <= limits.deep
    BY <1>3, <1>4, <1>6 DEF LBSame
  <2>3. tokens' \cup tmps' # {} => sandbox /\ runs <= lb'.deep
    BY <1>3, <1>4, <1>6, <2>2 DEF SameFiles
  <2>4. tokens' \subseteq {0} /\ tmps' = {} /\ sandbox' = sandbox
    BY <1>3, <1>6 DEF SameFiles
  <2> QED
    BY <1>6, <2>1, <2>2, <2>3, <2>4 DEF Stays, LBSame
<1>7. CASE Dequeue(r)
  <2> DEFINE x == [[req[r] EXCEPT !.loc = "old"] EXCEPT !.pc = "queued"]
  <2>1. req'[r] = x
    BY <1>1, <1>7 DEF Dequeue
  <2>2. x.cmd = req[r].cmd /\ x.pc = "queued"
    BY <1>1 DEF CalmRequests
  <2> HIDE DEF x
  <2>3. SameFiles /\ out' = out /\ runs' = runs /\ limits' = limits
    BY <1>7 DEF Dequeue, SameFiles, cream, counts
  <2>4. LBSame /\ CtokFalls
    BY <1>3, <1>7, LogForms DEF Dequeue, CtokFalls, Statuses
  <2>5. req[r].pc = "idle"
    BY <1>1, <1>7 DEF Dequeue
  <2>6. CASE IsSubmission(r)
    <3>1. Pending(r) /\ Pending(r)'
      BY <2>1, <2>2, <2>5, <2>6 DEF Pending, IsSubmission
    <3> QED
      BY <3>1, <2>1, <2>2, <2>3, <2>4, <2>5, <1>5, <1>6
  <2>7. CASE ~IsSubmission(r)
    BY <2>3, <2>4, <2>7 DEF Apart, Pending
  <2> QED
    BY <2>6, <2>7
<1>8. CASE Begin(r)
  <2> DEFINE waits == req[r].limbo /\ in_limbo
             q == req[r].queued + (IF waits THEN 1 ELSE 0)
             x == [[req[r] EXCEPT !.limbo = waits] EXCEPT !.queued = q]
             z == [[[[x EXCEPT !.pc = "scan"] EXCEPT !.n = 0] EXCEPT !.deep = lb.deep]
                      EXCEPT !.shallow = lb.shallow]
  <2>1. /\ At(r, "queued") /\ IsSubmission(r) /\ out' = out
        /\ runs' = runs /\ limits' = limits
        /\ req' = [req EXCEPT ![r] = IF ctok THEN Left(x)
                                     ELSE IF x.cmd = "jobsubmit" THEN [x EXCEPT !.pc = "scan"]
                                     ELSE z]
    BY <1>8 DEF Begin, cream, counts
  <2>2. x = req[r] /\ waits = FALSE
    <3>1. waits = FALSE /\ q = 0
      BY <1>2
    <3> HIDE DEF waits, q
    <3> QED
      BY <3>1, <1>1, <1>2 DEF CalmRequests
  <2> HIDE DEF x
  <2>3. CASE ctok
    <3>1. lb' = log_cancelled /\ Purge
      BY <1>8, <2>3 DEF Begin
    <3>2. End(r)
      BY <2>1, <2>2, <2>3 DEF End
    <3> QED
      BY <2>1, <3>1, <3>2, MoveForms, LogForms DEF Purges
  <2>4. CASE ~ctok
    <3>1. lb' = lb /\ UNCHANGED files
      BY <1>8, <2>2, <2>4 DEF Begin
    <3>2. SameFiles /\ CtokFalls /\ LBSame
      BY <1>3, <3>1, LogForms DEF files, SameFiles, CtokFalls
    <3>3. Pending(r)
      BY <2>1 DEF Pending, At
    <3>4. /\ req'[r].cmd = req[r].cmd /\ req'[r].pc = "scan"
          /\ req[r].cmd # "jobsubmit" => req'[r].deep = lb.deep
      <4>1. CASE req[r].cmd = "jobsubmit"
        <5>1. req'[r] = [req[r] EXCEPT !.pc = "scan"]
          BY <1>1, <2>1, <2>2, <2>4, <4>1
        <5> QED
          BY <5>1, <4>1, <1>1 DEF CalmRequests
      <4>2. CASE req[r].cmd # "jobsubmit"
        <5>1. req'[r] = z
          BY <1>1, <2>1, <2>2, <2>4, <4>2
        <5>2. z.cmd = req[r].cmd /\ z.pc = "scan" /\ z.deep = lb.deep
          BY <1>1, <2>2 DEF CalmRequests
        <5> HIDE DEF z
        <5> QED
          BY <5>1, <5>2
      <4> QED
        BY <4>1, <4>2
    <3>5. Pending(r)'
      BY <2>1, <3>4 DEF Pending, IsSubmission
    <3> QED
      BY <2>1, <3>2, <3>3, <3>4, <3>5, <1>5, <1>6 DEF At
  <2> QED
    BY <2>3, <2>4
<1>9. CASE LBFails(r)
  <2>1. /\ (Postpone(r) /\ UNCHANGED ctok) \/ Unrecoverable(r)
        /\ At(r, "queued") /\ IsSubmission(r) /\ SameFiles /\ out' = out
        /\ runs' = runs /\ limits' = limits
    BY <1>2, <1>9 DEF LBFails, SameFiles, cream, counts
  <2>2. Pending(r) /\ tmps = {}
    BY <2>1, <1>5 DEF Pending, At
  <2>3. CASE Postpone(r) /\ UNCHANGED ctok
    <3>1. req'[r].cmd = req[r].cmd /\ req'[r].pc = "queued"
      BY <2>3, MoveForms DEF Postpone
    <3>2. LBSame /\ CtokFalls
      BY <2>3, <1>3, LogForms DEF Postpone, Statuses, CtokFalls
    <3>3. Pending(r)'
      BY <2>1, <3>1 DEF Pending, IsSubmission
    <3> QED
      BY <2>1, <2>2, <3>1, <3>2, <3>3, <1>6
  <2>4. CASE Unrecoverable(r)
    BY <2>1, <2>2, <2>4, MoveForms, LogForms DEF Unrecoverable, GivesUp, CtokFalls
  <2> QED
    BY <2>1, <2>3, <2>4
<1>10. CASE Scan(r)
  <2>1. req[r].pc = "scan" /\ IsSubmission(r) /\ Pending(r) /\ tmps = {}
    BY <1>1, <1>2, <1>5, <1>10 DEF Scan, At, IsSubmission, Pending, CancelPCs
  <2>2. /\ SameFiles /\ out' = out /\ runs' = runs /\ limits' = limits
    BY <1>10 DEF Scan, SameFiles, cream, counts
  <2>3. CASE ~sandbox
    BY <1>3, <1>10, <2>1, <2>2, <2>3, MoveForms DEF Scan, GivesUp, CtokFalls
  <2>4. CASE sandbox
    <3>1. PICK f \in IF Names = {} THEN {<<FALSE, 0>>} ELSE Names :
            req' = [req EXCEPT ![r].pc = "token", ![r].k = f[2],
                         ![r].n = IF Names # {} /\ (@ = 0 \/ overwrites)
                                  THEN f[2] ELSE @]
      BY <1>10, <2>4 DEF Scan
    <3> DEFINE v == IF Names # {} /\ (req[r].n = 0 \/ overwrites) THEN f[2] ELSE req[r].n
               g == f[2]
               x == [[[req[r] EXCEPT !.pc = "token"] EXCEPT !.k = g] EXCEPT !.n = v]
    <3>2. req'[r] = x
      BY <3>1, <1>1
    <3> HIDE DEF v, g
    <3>3. x.cmd = req[r].cmd /\ x.pc = "token" /\ x.deep = req[r].deep
      BY <1>1 DEF CalmRequests
    <3> HIDE DEF x
    <3>4. Pending(r)'
      BY <3>2, <3>3, <2>1 DEF Pending, IsSubmission
    <3>5. ~(Cardinality(Names) > 1)
      <4>1. Cardinality(Names) <= 1
        BY <2>1, NamesCalm
      <4>2. IsFiniteSet(Names)
        BY <1>3, NamesFinite
      <4> QED
        BY <4>1, <4>2, FS_CardinalityType
    <3>6. lb' = lb /\ ctok' = ctok
      BY <1>10, <2>4, <3>5 DEF Scan
    <3>7. LBSame /\ CtokFalls
      BY <3>6, <1>3, LogForms DEF CtokFalls
    <3>8. req[r].cmd = "jobresubmit" => req[r].deep = lb.deep
      BY <1>4, <2>1 DEF PaidFor
    <3> QED
      BY <2>1, <2>2, <3>2, <3>3, <3>4, <3>7, <3>8, <1>6
  <2> QED
    BY <2>3, <2>4, <1>3
<1>11. CASE TakeToken(r)
  <2>1. /\ At(r, "token") /\ req[r].cmd = "jobresubmit"
        /\ req' = [req EXCEPT ![r].pc = "count"]
        /\ UNCHANGED <<sandbox, ctok, lb, out, runs, limits>>
    BY <1>11 DEF TakeToken, cream, counts
  <2>2. /\ req'[r].cmd = req[r].cmd /\ req'[r].pc = "count" /\ req'[r].deep = req[r].deep
    BY <2>1, MoveForms DEF PCs
  <2>3. Pending(r) /\ Pending(r)' /\ tmps = {}
    BY <1>5, <2>1, <2>2 DEF Pending, IsSubmission, At
  <2>4. tokens' = {} /\ tmps' = tokens
    BY <1>2, <1>3, <1>11, <2>3 DEF TakeToken
  <2>5. PaidFor(r)'
    <3>1. req[r].deep = lb.deep
      BY <1>4, <2>1 DEF PaidFor, At
    <3> QED
      BY <2>1, <2>2, <3>1 DEF PaidFor
  <2>6. tokens' \cup tmps' # {} => sandbox /\ runs <= lb'.deep
    BY <1>3, <1>4, <2>1, <2>3, <2>4
  <2>7. lb' \in LBs /\ lb.deep <= lb'.deep /\ lb'.deep <= limits.deep
    BY <1>3, <1>4, <2>1 DEF CalmLB
  <2>8. CtokFalls
    BY <1>3, <2>1 DEF CtokFalls
  <2> QED
    BY <1>3, <2>1, <2>2, <2>3, <2>4, <2>5, <2>6, <2>7, <2>8 DEF Stays
<1>12. CASE Count(r)
  <2>1. /\ At(r, "count") /\ UNCHANGED <<tokens, sandbox, out, runs, limits>>
    BY <1>12 DEF Count, cream, counts
  <2>2. Pending(r) /\ req[r].cmd \in {"jobsubmit", "jobresubmit"}
    BY <1>1, <1>2, <2>1 DEF Pending, IsSubmission, At, CancelPCs
  <2> DEFINE found == req[r].k \in tmps
             hit == IF found THEN req[r].shallow >= limits.shallow
                             ELSE req[r].deep >= limits.deep
  <2>3. CASE hit
    <3>1. Unrecoverable(r) /\ UNCHANGED tmps
      BY <1>12, <2>3 DEF Count
    <3> QED
      BY <2>1, <2>2, <3>1, MoveForms, LogForms
      DEF Unrecoverable, GivesUp, CtokFalls, SameFiles
  \* The job that is counted as a resubmission stays with its request.
  <2>4. ASSUME req'[r].cmd = req[r].cmd, req'[r].pc \in {"queued", "restore"},
               tmps' \subseteq {0}, ctok' = ctok,
               tmps' # {} => sandbox /\ req'[r].pc = "restore",
               lb' \in LBs, lb'.aborted = lb.aborted, lb'.cancelled = lb.cancelled,
               lb'.done = lb.done, lb.deep <= lb'.deep, lb'.deep <= limits.deep,
               runs <= lb'.deep
        PROVE  Stays(r)
    <3>1. Pending(r)'
      BY <2>2, <2>4 DEF Pending, IsSubmission
    <3>2. PaidFor(r)'
      BY <2>1, <2>4 DEF PaidFor
    <3>3. tokens' \subseteq {0} /\ (tokens' \cup tmps' # {} => sandbox)
      BY <1>3, <2>1, <2>4
    <3>4. CtokFalls
      BY <1>3, <2>4 DEF CtokFalls
    <3> QED
      BY <2>1, <2>2, <2>4, <3>1, <3>2, <3>3, <3>4 DEF Stays
  <2>5. CASE ~hit /\ found
    <3>1. /\ lb' = [lb EXCEPT !.status = "waiting", !.shallow = @ + 1]
          /\ tmps' = tmps \cup {req[r].k} /\ ctok' = ctok
          /\ req' = [req EXCEPT ![r].pc = "restore"]
      BY <1>12, <2>5 DEF Count
    <3>2. tmps' = tmps /\ tmps # {}
      BY <2>5, <3>1
    <3>3. sandbox /\ runs <= lb.deep
      BY <1>3, <1>4, <3>2
    <3>4. req'[r].cmd = req[r].cmd /\ req'[r].pc = "restore"
      BY <3>1, MoveForms DEF PCs
    <3>5. LBSame
      BY <3>1, LogForms
    <3>6. lb.deep <= lb'.deep /\ lb'.deep <= limits.deep /\ runs <= lb'.deep
      BY <1>3, <1>4, <3>3, <3>5 DEF LBSame
    <3> QED
      BY <1>3, <2>4, <3>1, <3>2, <3>3, <3>4, <3>5, <3>6 DEF LBSame
  <2>6. CASE ~hit /\ ~found
    <3>1. /\ lb' = [lb EXCEPT !.status = "waiting", !.deep = @ + 1, !.shallow = 0]
          /\ ctok' = ctok
          /\ \/ /\ ~sandbox /\ tmps' = tmps
                /\ req' = [req EXCEPT ![r] = Postponed(@)]
             \/ /\ sandbox /\ tmps' = tmps \cup {req[r].k}
                /\ req' = [req EXCEPT ![r].pc = "restore"]
      BY <1>3, <1>12, <2>6 DEF Count
    <3>2. /\ lb' \in LBs /\ lb'.deep = lb.deep + 1 /\ lb'.aborted = lb.aborted
          /\ lb'.cancelled = lb.cancelled /\ lb'.done = lb.done
      BY <3>1, LogForms
    <3>3. req[r].deep < limits.deep
      BY <1>2, <1>3, <2>6
    <3>4. CASE req[r].cmd = "jobresubmit"
      <4>1. req[r].deep = lb.deep
        BY <1>4, <2>1, <3>4 DEF PaidFor, At
      <4>2. lb.deep <= lb'.deep /\ lb'.deep <= limits.deep /\ runs <= lb'.deep
        BY <1>3, <1>4, <3>2, <3>3, <4>1
      <4>3. req'[r].cmd = req[r].cmd /\ req'[r].pc = (IF sandbox THEN "restore" ELSE "queued")
        BY <3>1, MoveForms DEF PCs
      <4>4. tmps' \subseteq {0} /\ (tmps' # {} => sandbox)
        BY <1>2, <1>3, <3>1
      <4> QED
        BY <2>4, <3>1, <3>2, <4>2, <4>3, <4>4
    <3>5. CASE req[r].cmd = "jobsubmit"
      BY <1>4, <2>1, <3>5 DEF PaidFor, At
    <3> QED
      BY <2>2, <3>4, <3>5
  <2> QED
    BY <2>3, <2>5, <2>6
\* A request that is past the look for the token is the one that has the job.
<1>13. req[r].pc \in {"token", "restore", "plan", "check", "deliver"}
         => Pending(r) /\ IsSubmission(r)
  BY <1>1, <1>2 DEF Pending, IsSubmission, CancelPCs
\* It is postponed, or moves on.
<1>14. ASSUME req[r].pc \in {"queued", "token", "restore", "plan", "check", "deliver"},
              Pending(r), tmps = {}, LBSame, SameFiles, CtokFalls, out' = out,
              runs' = runs, limits' = limits,
              \/ req' = [req EXCEPT ![r] = Postponed(@)]
              \/ \E p \in {"plan", "check", "deliver"} : req' = [req EXCEPT ![r].pc = p]
       PROVE  Stays(r)
  <2>1. req'[r].cmd = req[r].cmd /\ req'[r].pc \in {"queued", "plan", "check", "deliver"}
    BY <1>14, MoveForms DEF PCs
  <2>2. Pending(r)'
    BY <1>14, <2>1 DEF Pending, IsSubmission
  <2> QED
    BY <1>6, <1>14, <2>1, <2>2
<1>15. CASE NewToken(r)
  <2>1. /\ At(r, "token") /\ req[r].cmd = "jobsubmit"
        /\ UNCHANGED <<tokens, sandbox, ctok, out, runs, limits>>
    BY <1>15 DEF NewToken, cream, counts
  <2>2. Pending(r) /\ tmps = {} /\ CtokFalls
    BY <1>3, <1>5, <1>13, <2>1 DEF At, CtokFalls
  <2>3. \/ /\ sandbox /\ tmps' = tmps \cup {0} /\ lb' = lb
           /\ req' = [req EXCEPT ![r].pc = "restore"]
        \/ ~sandbox /\ Postpone(r) /\ tmps' = tmps
    BY <1>2, <1>15 DEF NewToken
  <2>4. CASE /\ sandbox /\ tmps' = tmps \cup {0} /\ lb' = lb
             /\ req' = [req EXCEPT ![r].pc = "restore"]
    <3>1. req'[r].cmd = req[r].cmd /\ req'[r].pc = "restore"
      BY <2>4, MoveForms DEF PCs
    <3>2. Pending(r)'
      BY <2>1, <3>1 DEF Pending, IsSubmission
    <3>3. runs <= lb.deep
      BY <1>4, <2>1, <2>2 DEF PaidFor
    <3>4. PaidFor(r)'
      BY <2>1, <2>4, <3>1, <3>3 DEF PaidFor
    <3>5. lb' \in LBs /\ lb.deep <= lb'.deep /\ lb'.deep <= limits.deep
      BY <1>3, <1>4, <2>4 DEF CalmLB
    <3>6. tokens' \subseteq {0} /\ tmps' \subseteq {0}
      BY <1>3, <2>1, <2>4
    <3> QED
      BY <2>1, <2>2, <2>4, <3>1, <3>2, <3>3, <3>4, <3>5, <3>6 DEF Stays
  <2>5. CASE ~sandbox /\ Postpone(r) /\ tmps' = tmps
    <3>1. LBSame
      BY <2>5, LogForms DEF Postpone, Statuses
    <3> QED
      BY <1>14, <2>1, <2>2, <2>5, <3>1 DEF At, Postpone, SameFiles
  <2> QED
    BY <2>3, <2>4, <2>5
<1>16. CASE RestoreToken(r)
  <2>1. At(r, "restore") /\ UNCHANGED <<sandbox, ctok, out, runs, limits>>
    BY <1>16 DEF RestoreToken, cream, counts
  <2>2. Pending(r) /\ IsSubmission(r) /\ CtokFalls
    BY <1>3, <1>13, <2>1 DEF At, CtokFalls
  <2>3. CASE 0 \in tmps
    <3>1. /\ tmps' = tmps \ {0} /\ tokens' = tokens \cup {0} /\ lb' = lb
          /\ req' = [req EXCEPT ![r].pc = "plan"]
      BY <1>2, <1>16, <2>3 DEF RestoreToken
    <3>2. req'[r].cmd = req[r].cmd /\ req'[r].pc = "plan"
      BY <3>1, MoveForms DEF PCs
    <3>3. Pending(r)'
      BY <2>2, <3>2 DEF Pending, IsSubmission
    <3>4. sandbox /\ runs <= lb.deep
      BY <1>3, <1>4, <2>3
    <3>5. PaidFor(r)'
      BY <2>1, <3>1, <3>2, <3>4 DEF PaidFor
    <3>6. lb' \in LBs /\ lb.deep <= lb'.deep /\ lb'.deep <= limits.deep
      BY <1>3, <1>4, <3>1 DEF CalmLB
    <3>7. tokens' \subseteq {0} /\ tmps' = {}
      BY <1>3, <3>1
    <3> QED
      BY <2>1, <2>2, <3>1, <3>3, <3>4, <3>5, <3>6, <3>7 DEF Stays
  <2>4. CASE 0 \notin tmps
    <3>1. tmps = {} /\ Postpone(r) /\ UNCHANGED <<tokens, tmps>>
      BY <1>2, <1>3, <1>16, <2>4 DEF RestoreToken
    <3>2. LBSame
      BY <3>1, LogForms DEF Postpone, Statuses
    <3> QED
      BY <1>14, <2>1, <2>2, <3>1, <3>2 DEF At, Postpone, SameFiles
  <2> QED
    BY <2>3, <2>4
<1>17. CASE Plan(r) \/ PlanFails(r)
  <2>1. /\ At(r, "plan") /\ UNCHANGED <<files, out, runs, limits>>
        /\ \/ /\ lb' = [lb EXCEPT !.status = "ready", !.enq = "start"]
              /\ req' = [req EXCEPT ![r].pc = "check"]
           \/ Postpone(r)
    BY <1>17 DEF Plan, PlanFails, cream, counts
  <2>2. Pending(r) /\ tmps = {} /\ CtokFalls /\ SameFiles
    BY <1>3, <1>5, <1>13, <2>1 DEF At, CtokFalls, SameFiles, files
  <2>3. LBSame
    BY <2>1, LogForms DEF Postpone, Statuses
  <2> QED
    BY <1>14, <2>1, <2>2, <2>3 DEF At, Postpone
<1>18. CASE CheckCancel(r)
  <2>1. At(r, "check") /\ UNCHANGED <<out, runs, limits>>
    BY <1>18 DEF CheckCancel, cream, counts
  <2>2. CASE ctok
    <3>1. lb' = log_cancelled /\ Purge /\ End(r)
      BY <1>18, <2>2 DEF CheckCancel
    <3> QED
      BY <2>1, <3>1, MoveForms, LogForms DEF Purges
  <2>3. CASE ~ctok
    <3>1. req' = [req EXCEPT ![r].pc = "deliver"] /\ UNCHANGED <<lb, files>>
      BY <1>18, <2>3 DEF CheckCancel
    <3>2. Pending(r) /\ tmps = {} /\ CtokFalls /\ SameFiles /\ LBSame
      BY <1>3, <1>5, <1>13, <2>1, <3>1, LogForms DEF At, CtokFalls, SameFiles, files
    <3> QED
      BY <1>14, <2>1, <3>1, <3>2 DEF At
  <2> QED
    BY <2>2, <2>3
<1>19. CASE Deliver(r)
  <2>1. /\ At(r, "deliver") /\ UNCHANGED <<files, lb>>
        /\ out' = Append(out, [kind |-> "Submit", tok |-> 0])
    BY <1>2, <1>19 DEF Deliver
  <2> DEFINE v == req[r].sent + 1
             x == [[req[r] EXCEPT !.pc = "delivered"] EXCEPT !.sent = v]
  <2>2. req'[r] = x
    BY <1>1, <1>19 DEF Deliver
  <2> HIDE DEF v
  <2>3. x.pc = "delivered"
    BY <1>1 DEF CalmRequests
  <2> HIDE DEF x
  <2>4. Pending(r) /\ ~Pending(r)' /\ CtokFalls /\ SameFiles
    BY <1>3, <1>13, <2>1, <2>2, <2>3 DEF At, CtokFalls, SameFiles, files, Pending
  <2> QED
    BY <2>1, <2>4 DEF Sends, At
<1>20. CASE DeliverFails(r) \/ ProxyExpired(r)
  <2>1. /\ UNCHANGED <<tokens, tmps, sandbox, out>> /\ ctok' = FALSE /\ End(r)
        /\ lb' = log_abort \/ lb' = [log_abort EXCEPT !.enq = "fail"]
        /\ At(r, "deliver") \/ (At(r, "queued") /\ IsSubmission(r))
    BY <1>20 DEF DeliverFails, ProxyExpired, Unrecoverable
  <2>2. Pending(r)
    BY <1>13, <2>1 DEF At, Pending
  <2> QED
    BY <2>1, <2>2, MoveForms, LogForms DEF GivesUp, SameFiles, CtokFalls
<1>21. CASE Delivered(r)
  <2>1. /\ At(r, "delivered") /\ UNCHANGED <<files, out>>
        /\ lb' = [lb EXCEPT !.enq = "ok"]
    BY <1>21 DEF Delivered
  <2>2. ~Pending(r) /\ SameFiles /\ CtokFalls /\ LBSame
    BY <1>3, <2>1, LogForms DEF At, Pending, SameFiles, CtokFalls, files
  <2> QED
    BY <2>1, <2>2 DEF Apart
<1>22. CASE CancelLook(r) \/ CancelLBFails(r)
  <2>1. req[r].cmd = "jobcancel" /\ UNCHANGED <<files, lb, out>>
    BY <1>22 DEF CancelLook, CancelLBFails
  <2>2. ~Pending(r) /\ SameFiles /\ CtokFalls /\ LBSame
    BY <1>3, <2>1, LogForms DEF Pending, IsSubmission, SameFiles, CtokFalls, files
  <2> QED
    BY <2>1, <2>2 DEF Apart
<1>23. req[r].pc \in {"forward", "fail"} => ~Pending(r)
  BY <1>1 DEF Pending, SubmitPCs
<1>24. CASE CancelForward(r)
  <2>1. /\ At(r, "forward") /\ lb' = log_cancelled /\ UNCHANGED files
        /\ out' = out \/ out' = Append(out, [kind |-> "Cancel", tok |-> 0])
    BY <1>24 DEF CancelForward
  <2>2. ~Pending(r) /\ SameFiles /\ CtokFalls /\ LBCancels
    BY <1>3, <1>23, <2>1, LogForms DEF At, SameFiles, CtokFalls, files
  <2> QED
    BY <2>1, <2>2 DEF Apart
<1>25. CASE CancelFail(r)
  <2>1. At(r, "fail") /\ End(r) /\ out' = out
    BY <1>25 DEF CancelFail
  <2>2. CASE lb' = log_abort /\ Purge
    BY <2>1, <2>2, MoveForms, LogForms DEF Purges
  <2>3. CASE UNCHANGED <<lb, files>>
    <3>1. ~Pending(r) /\ SameFiles /\ CtokFalls /\ LBSame
      BY <1>3, <1>23, <2>1, <2>3, LogForms DEF At, SameFiles, CtokFalls, files
    <3> QED
      BY <2>1, <3>1 DEF Apart
  <2> QED
    BY <1>25, <2>2, <2>3 DEF CancelFail
<1> QED
  BY <1>7, <1>8, <1>9, <1>10, <1>11, <1>12, <1>15, <1>16, <1>17, <1>18, <1>19, <1>20,
     <1>21, <1>22, <1>24, <1>25 DEF Submission, Cancellation

-----------------------------------------------------------------------------
(* The steps of the processors keep the invariant                          *)

\* What is appended to ICE's input.
LEMMA OutForms ==
  ASSUME out \in Seq(Messages)
  PROVE  /\ out' = out \/ out' = Append(out, [kind |-> "Cancel", tok |-> 0])
              => /\ out' \in Seq(Messages)
                 /\ \A i \in DOMAIN out' : Sent(i)' => i \in DOMAIN out /\ Sent(i)
                 /\ \A i \in DOMAIN out : Sent(i) => i \in DOMAIN out' /\ Sent(i)'
         /\ out' = Append(out, [kind |-> "Submit", tok |-> 0])
              => /\ out' \in Seq(Messages) /\ \E i \in DOMAIN out' : Sent(i)'
                 /\ (\A i \in DOMAIN out : ~Sent(i))
                      => \A i, h \in DOMAIN out' : Sent(i)' /\ Sent(h)' => i = h
<1>1. Len(out) \in Nat /\ DOMAIN out = 1 .. Len(out)
  BY LenProperties
<1>2. ASSUME NEW e \in Messages, out' = Append(out, e)
      PROVE  /\ out' \in Seq(Messages) /\ DOMAIN out' = 1 .. Len(out) + 1
             /\ out'[Len(out) + 1] = e
             /\ \A i \in 1 .. Len(out) : out'[i] = out[i]
  <2>1. /\ Append(out, e) \in Seq(Messages) /\ Len(Append(out, e)) = Len(out) + 1
        /\ \A i \in 1 .. Len(out) : Append(out, e)[i] = out[i]
        /\ Append(out, e)[Len(out) + 1] = e
    BY <1>2, AppendProperties
  <2>2. DOMAIN Append(out, e) = 1 .. Len(out) + 1
    BY <2>1, LenProperties
  <2> QED
    BY <1>2, <2>1, <2>2
<1>3. ASSUME out' = out
      PROVE  /\ out' \in Seq(Messages)
             /\ \A i \in DOMAIN out' : Sent(i)' => i \in DOMAIN out /\ Sent(i)
             /\ \A i \in DOMAIN out : Sent(i) => i \in DOMAIN out' /\ Sent(i)'
  BY <1>3 DEF Sent
<1>4. ASSUME out' = Append(out, [kind |-> "Cancel", tok |-> 0])
      PROVE  /\ out' \in Seq(Messages)
             /\ \A i \in DOMAIN out' : Sent(i)' => i \in DOMAIN out /\ Sent(i)
             /\ \A i \in DOMAIN out : Sent(i) => i \in DOMAIN out' /\ Sent(i)'
  <2> DEFINE e == [kind |-> "Cancel", tok |-> 0]
  <2>1. e \in Messages /\ e.kind = "Cancel"
    BY DEF Messages
  <2> HIDE DEF e
  <2>2. /\ out' \in Seq(Messages) /\ DOMAIN out' = 1 .. Len(out) + 1
        /\ out'[Len(out) + 1] = e
        /\ \A i \in 1 .. Len(out) : out'[i] = out[i]
    BY <1>2, <1>4, <2>1 DEF e
  <2>3. \A i \in 1 .. Len(out) + 1 : i \in 1 .. Len(out) \/ i = Len(out) + 1
    BY <1>1
  <2>4. \A i \in 1 .. Len(out) : i \in 1 .. Len(out) + 1
    BY <1>1
  <2> QED
    BY <1>1, <2>1, <2>2, <2>3, <2>4 DEF Sent
<1>5. ASSUME out' = Append(out, [kind |-> "Submit", tok |-> 0])
      PROVE  /\ out' \in Seq(Messages) /\ \E i \in DOMAIN out' : Sent(i)'
             /\ (\A i \in DOMAIN out : ~Sent(i))
                  => \A i, h \in DOMAIN out' : Sent(i)' /\ Sent(h)' => i = h
  <2> DEFINE e == [kind |-> "Submit", tok |-> 0]
  <2>1. e \in Messages /\ e.kind = "Submit"
    BY DEF Messages
  <2> HIDE DEF e
  <2>2. /\ out' \in Seq(Messages) /\ DOMAIN out' = 1 .. Len(out) + 1
        /\ out'[Len(out) + 1] = e
        /\ \A i \in 1 .. Len(out) : out'[i] = out[i]
    BY <1>2, <1>5, <2>1 DEF e
  <2>3. \A i \in 1 .. Len(out) + 1 : i \in 1 .. Len(out) \/ i = Len(out) + 1
    BY <1>1
  <2>4. Len(out) + 1 \in 1 .. Len(out) + 1
    BY <1>1
  <2> QED
    BY <1>1, <2>1, <2>2, <2>3, <2>4 DEF Sent
<1> QED
  BY <1>3, <1>4, <1>5

\* A request that does not have the job has nothing to pay for.
LEMMA NothingToPay ==
  ASSUME CalmReq', NEW s \in Slots, ~Pending(s)'
  PROVE  PaidFor(s)'
<1>1. /\ req'[s] \in CalmRequests
      /\ req'[s].loc = "none" <=> req'[s].cmd = "none"
      /\ req'[s].pc = "idle" <=> req'[s].loc # "old"
      /\ req'[s].cmd = "jobcancel" => req'[s].pc \in CancelPCs
  BY DEF CalmReq
<1>2. req'[s].cmd \in {"none", "jobsubmit", "jobresubmit", "jobcancel"}
  BY <1>1 DEF CalmRequests
<1>3. req'[s].cmd \in {"jobsubmit", "jobresubmit"} => req'[s].pc = "delivered"
  BY DEF Pending, IsSubmission
<1>4. req'[s].cmd \in {"none", "jobcancel"} => req'[s].pc \in CancelPCs
  BY <1>1 DEF CancelPCs
<1> QED
  BY <1>2, <1>3, <1>4 DEF PaidFor, CancelPCs

\* A step of a processor keeps the invariant.
LEMMA ProcessorKeeps ==
  ASSUME CalmInv, NEW r \in Slots, Dequeue(r) \/ Submission(r) \/ Cancellation(r)
  PROVE  CalmInv'
<1> USE DEF CalmInv
<1>1. /\ CalmReq' /\ \A s \in Slots : s # r => req'[s] = req[s]
      /\ \A s \in Slots : Pending(s)' => Pending(s) /\ req'[s].cmd = req[s].cmd
  BY ProcessorSteps, StepsKeep
<1>2. UNCHANGED <<up, rpl, copies, runs, limits>>
  BY DEF Dequeue, Submission, Cancellation, Begin, LBFails, Scan, TakeToken, Count, NewToken,
         RestoreToken, Plan, PlanFails, CheckCancel, Deliver, DeliverFails, Delivered,
         ProxyExpired, CancelLook, CancelLBFails, CancelForward, CancelFail, cream, counts
<1>3. \A s \in Slots : s # r => (Pending(s)' <=> Pending(s))
  BY <1>1 DEF Pending, IsSubmission
<1>4. \A s \in Slots : ~Pending(s)' => PaidFor(s)'
  BY <1>1, NothingToPay
<1>5. /\ tokens \subseteq {0} /\ tmps \subseteq {0} /\ sandbox \in BOOLEAN /\ ctok \in BOOLEAN
      /\ ~sandbox => tokens = {} /\ tmps = {} /\ ~ctok
      /\ runs \in Nat /\ lb.deep \in Nat /\ out \in Seq(Messages) /\ copies \in Seq(Copies)
      /\ up /\ rpl.pc = "idle" /\ limits \in Limits
  BY DEF CalmRest, CalmLB, LBs
<1>6. /\ runs <= 1 + lb.deep /\ lb.deep <= limits.deep
      /\ tokens \cup tmps # {} => runs <= lb.deep
      /\ \A s \in Slots : PaidFor(s)
  BY DEF Paid
\* ICE's input gains at most a cancellation.
<1>7. ASSUME out' = out \/ out' = Append(out, [kind |-> "Cancel", tok |-> 0])
      PROVE  /\ OnePlace' /\ out' \in Seq(Messages)
             /\ \A i \in DOMAIN out' : Sent(i)' => i \in DOMAIN out /\ Sent(i)
             /\ \A i \in DOMAIN out : Sent(i) => i \in DOMAIN out' /\ Sent(i)'
  <2>1. /\ out' \in Seq(Messages)
        /\ \A i \in DOMAIN out' : Sent(i)' => i \in DOMAIN out /\ Sent(i)
        /\ \A i \in DOMAIN out : Sent(i) => i \in DOMAIN out' /\ Sent(i)'
    BY <1>5, <1>7, OutForms
  <2>2. OnePlace'
    BY <1>1, <1>2, <2>1 DEF OnePlace
  <2> QED
    BY <2>1, <2>2
\* The requests other than r, and r unless it has the job, if the counts are the same.
<1>8. ASSUME lb'.deep = lb.deep, ~Pending(r)', NEW s \in Slots PROVE PaidFor(s)'
  <2>1. CASE s = r
    BY <1>4, <1>8, <2>1
  <2>2. CASE s # r
    <3>1. req'[s] = req[s] /\ PaidFor(s) /\ (Pending(s)' <=> Pending(s))
      BY <1>1, <1>3, <1>6, <2>2
    <3> QED
      BY <1>2, <1>8, <3>1 DEF PaidFor
  <2> QED
    BY <2>1, <2>2
<1>9. CASE Stays(r)
  <2>1. OnePlace' /\ out' \in Seq(Messages)
    BY <1>7, <1>9 DEF Stays
  <2>2. CalmRest' /\ CalmLB'
    BY <1>2, <1>5, <1>9, <2>1 DEF Stays, CtokFalls, CalmRest, CalmLB
  <2>3. \A s \in Slots : Pending(s)' => s = r
    BY <1>1, <1>9 DEF Stays, OnePlace
  <2>4. copies = <<>> /\ \A i \in DOMAIN out : ~Sent(i)
    BY <1>9 DEF Stays, OnePlace
  <2>5. TmpInUse'
    BY <1>2, <1>9, <2>3, <2>4 DEF TmpInUse, Stays, Sent
  <2>6. \A s \in Slots : PaidFor(s)'
    BY <1>4, <1>9, <2>3 DEF Stays
  <2>7. lb'.deep \in Nat /\ lb.deep <= lb'.deep
    BY <1>9 DEF Stays, LBs
  <2>8. Paid'
    BY <1>2, <1>5, <1>6, <1>9, <2>6, <2>7 DEF Paid, Stays
  <2>9. Told'
    BY <1>9 DEF Told, Stays, Nowhere
  <2> QED
    BY <1>1, <2>1, <2>2, <2>5, <2>8, <2>9
<1>10. CASE Apart(r)
  <2>1. /\ OnePlace' /\ out' \in Seq(Messages)
        /\ \A i \in DOMAIN out' : Sent(i)' => i \in DOMAIN out /\ Sent(i)
        /\ \A i \in DOMAIN out : Sent(i) => i \in DOMAIN out' /\ Sent(i)'
    BY <1>7, <1>10 DEF Apart
  <2>2. /\ lb' \in LBs /\ lb'.deep = lb.deep /\ lb'.aborted = lb.aborted
        /\ (lb.cancelled => lb'.cancelled) /\ lb'.done = lb.done
    BY <1>10 DEF Apart, LBSame, LBCancels
  <2>3. tokens' = tokens /\ tmps' = tmps /\ sandbox' = sandbox
    BY <1>10 DEF Apart, SameFiles
  <2>4. CalmRest' /\ CalmLB'
    BY <1>2, <1>5, <1>10, <2>1, <2>2, <2>3 DEF Apart, CtokFalls, CalmRest, CalmLB
  <2>5. \A s \in Slots : Pending(s)' <=> Pending(s)
    BY <1>1, <1>3, <1>10 DEF Apart
  <2>6. TmpInUse'
    <3>1. \A s \in Slots : Pending(s)' => s # r /\ req'[s] = req[s] /\ Pending(s)
      BY <1>1, <1>10, <2>5 DEF Apart
    <3> QED
      BY <1>2, <2>1, <2>3, <3>1 DEF TmpInUse
  <2>7. Paid'
    <3>1. \A s \in Slots : PaidFor(s)'
      BY <1>8, <1>10, <2>2, <2>5 DEF Apart
    <3> QED
      BY <1>2, <1>6, <2>2, <2>3, <3>1 DEF Paid
  <2>8. Nowhere' <=> Nowhere
    BY <1>2, <2>1, <2>5 DEF Nowhere
  <2>9. Told'
    BY <2>2, <2>3, <2>8 DEF Told
  <2> QED
    BY <1>1, <2>1, <2>4, <2>6, <2>7, <2>9
<1>11. CASE GivesUp(r)
  <2>1. OnePlace' /\ out' \in Seq(Messages)
    BY <1>7, <1>11 DEF GivesUp
  <2>2. /\ lb' \in LBs /\ lb'.deep = lb.deep
        /\ lb'.aborted = TRUE \/ (lb' = lb /\ ~sandbox)
    BY <1>11 DEF GivesUp, LBAborts, CalmLB
  <2>3. tokens' = tokens /\ tmps' = tmps /\ sandbox' = sandbox
    BY <1>11 DEF GivesUp, SameFiles
  <2>4. CalmRest' /\ CalmLB'
    BY <1>2, <1>5, <1>11, <2>1, <2>2, <2>3 DEF GivesUp, CtokFalls, CalmRest, CalmLB
  <2>5. Nowhere'
    <3>1. \A s \in Slots : ~Pending(s)'
      BY <1>1, <1>11 DEF GivesUp, OnePlace
    <3>2. copies = <<>> /\ \A i \in DOMAIN out : ~Sent(i)
      BY <1>11 DEF GivesUp, OnePlace
    <3> QED
      BY <1>2, <1>11, <3>1, <3>2 DEF GivesUp, Nowhere, Sent
  <2>6. TmpInUse'
    BY <2>5 DEF Nowhere, TmpInUse
  <2>7. Paid'
    <3>1. \A s \in Slots : PaidFor(s)'
      BY <1>4, <2>5 DEF Nowhere
    <3> QED
      BY <1>2, <1>6, <2>2, <2>3, <3>1 DEF Paid
  <2>8. Told'
    BY <2>2, <2>3, <2>5 DEF Told
  <2> QED
    BY <1>1, <2>1, <2>4, <2>6, <2>7, <2>8
<1>12. CASE Purges(r)
  <2>1. OnePlace' /\ out' \in Seq(Messages)
    BY <1>7, <1>12 DEF Purges
  <2>2. /\ lb' \in LBs /\ lb'.deep = lb.deep
        /\ lb'.aborted = TRUE \/ lb'.cancelled = TRUE
    BY <1>12 DEF Purges, LBAborts, LBCancels
  <2>3. tokens' = {} /\ tmps' = {} /\ sandbox' = FALSE /\ ctok' = FALSE
    BY <1>12 DEF Purges, Purge
  <2>4. CalmRest' /\ CalmLB'
    BY <1>2, <1>5, <2>1, <2>2, <2>3 DEF CalmRest, CalmLB
  <2>5. TmpInUse'
    BY <2>3 DEF TmpInUse
  <2>6. Paid'
    <3>1. \A s \in Slots : PaidFor(s)'
      BY <1>8, <1>12, <2>2 DEF Purges
    <3> QED
      BY <1>2, <1>6, <2>2, <2>3, <3>1 DEF Paid
  <2>7. Told'
    BY <2>2, <2>3 DEF Told
  <2> QED
    BY <1>1, <2>1, <2>4, <2>5, <2>6, <2>7
<1>13. CASE Sends(r)
  <2>1. /\ copies = <<>> /\ \A i \in DOMAIN out : ~Sent(i)
        /\ \A s \in Slots : Pending(s) => s = r
    BY <1>13 DEF Sends, OnePlace
  <2>2. /\ out' \in Seq(Messages) /\ \E i \in DOMAIN out' : Sent(i)'
        /\ \A i, h \in DOMAIN out' : Sent(i)' /\ Sent(h)' => i = h
    BY <1>5, <1>13, <2>1, OutForms DEF Sends
  <2>3. \A s \in Slots : ~Pending(s)'
    BY <1>1, <1>13, <2>1 DEF Sends
  <2>4. OnePlace'
    BY <1>2, <2>1, <2>2, <2>3, <1>5 DEF OnePlace
  <2>5. tokens' = tokens /\ tmps' = tmps /\ sandbox' = sandbox /\ lb' = lb
    BY <1>13 DEF Sends, SameFiles
  <2>6. CalmRest' /\ CalmLB'
    BY <1>2, <1>5, <1>13, <2>2, <2>5 DEF Sends, CtokFalls, CalmRest, CalmLB
  <2>7. TmpInUse'
    BY <1>13, <2>5 DEF Sends, TmpInUse
  <2>8. Paid'
    <3>1. \A s \in Slots : PaidFor(s)'
      BY <1>4, <2>3
    <3> QED
      BY <1>2, <1>6, <2>5, <3>1 DEF Paid
  <2>9. Told'
    <3>1. ~Nowhere /\ ~Nowhere'
      BY <1>13, <2>2 DEF Sends, Nowhere
    <3> QED
      BY <2>5, <3>1 DEF Told
  <2> QED
    BY <1>1, <2>4, <2>6, <2>7, <2>8, <2>9
<1> QED
  BY <1>9, <1>10, <1>11, <1>12, <1>13, ProcessorForms

-----------------------------------------------------------------------------
(* The steps of ICE, of CREAM and of the user                              *)

\* The outcomes that ICE logs.
LEMMA OutcomeForms ==
  ASSUME CalmLB
  PROVE  /\ lb' = [lb EXCEPT !.status = "waiting", !.done = "failed"]
              => /\ lb' \in LBs /\ lb'.deep = lb.deep /\ lb'.aborted = lb.aborted
                 /\ lb'.cancelled = lb.cancelled
         /\ lb' = [lb EXCEPT !.status = "done", !.done = "ok"]
              => /\ lb' \in LBs /\ lb'.deep = lb.deep /\ lb'.done = "ok"
                 /\ lb'.aborted = lb.aborted /\ lb'.cancelled = lb.cancelled
         /\ lb' = [log_abort EXCEPT !.done = "failed"] => LBAborts
BY DEF CalmLB, LBs, Statuses, LBAborts, log_abort

\* What ICE does with a job that has left its input or CREAM.
Sandbox == UNCHANGED <<tokens, tmps, sandbox, ctok>>
Answers ==
  \/ /\ Free # {} /\ req' = deliver(req, "jobresubmit", 0) /\ Sandbox
     /\ lb' \in LBs /\ lb'.deep = lb.deep /\ lb'.aborted = lb.aborted
     /\ lb'.cancelled = lb.cancelled
  \/ /\ req' = req /\ Sandbox /\ lb' \in LBs /\ lb'.deep = lb.deep
     /\ lb'.aborted \/ lb'.done = "ok"
     /\ sandbox \/ lb'.aborted \/ lb'.cancelled
  \/ req' = req /\ Purge /\ LBCancels

\* It leaves the job with a new request, or nowhere and the user told.
LEMMA AnswerKeeps ==
  ASSUME CalmInv, Answers, ~Nowhere, \A s \in Slots : ~Pending(s), tmps = {},
         UNCHANGED <<up, rpl, limits, runs>>, copies' = <<>>,
         out' \in Seq(Messages), \A h \in DOMAIN out' : ~Sent(h)'
  PROVE  CalmInv'
<1> USE DEF CalmInv
<1>1. /\ tokens \subseteq {0} /\ sandbox \in BOOLEAN /\ ctok \in BOOLEAN
      /\ ~sandbox => tokens = {} /\ tmps = {} /\ ~ctok
      /\ runs \in Nat /\ up /\ rpl.pc = "idle" /\ limits \in Limits
  BY DEF CalmRest
<1>2. /\ runs <= 1 + lb.deep /\ lb.deep <= limits.deep
      /\ tokens \cup tmps # {} => runs <= lb.deep
  BY DEF Paid
<1>3. copies' \in Seq(Copies) /\ Len(copies') = 0
  BY EmptySeq
<1>4. lb' \in LBs /\ lb'.deep = lb.deep
  BY DEF Answers, LBCancels
<1>5. \/ Sandbox
      \/ tokens' = {} /\ tmps' = {} /\ sandbox' = FALSE /\ ctok' = FALSE
  BY DEF Answers, Purge
<1>6. CalmRest' /\ CalmLB'
  <2>1. /\ tokens' \subseteq {0} /\ tmps' \subseteq {0}
        /\ sandbox' \in BOOLEAN /\ ctok' \in BOOLEAN
        /\ ~sandbox' => tokens' = {} /\ tmps' = {} /\ ~ctok'
    <3>1. CASE Sandbox
      BY <1>1, <3>1 DEF Sandbox
    <3>2. CASE tokens' = {} /\ tmps' = {} /\ sandbox' = FALSE /\ ctok' = FALSE
      BY <3>2
    <3> QED
      BY <1>5, <3>1, <3>2
  <2>2. up' /\ rpl'.pc = "idle" /\ limits' \in Limits /\ runs' \in Nat
    BY <1>1
  <2> QED
    BY <1>3, <1>4, <2>1, <2>2 DEF CalmRest, CalmLB
<1>7. TmpInUse' /\ (tokens' \cup tmps' # {} => runs <= lb.deep)
  BY <1>2, <1>5 DEF TmpInUse, Sandbox
<1>8. ~sandbox => lb.aborted \/ lb.cancelled
  BY DEF Told
<1>9. lb.aborted => ~sandbox
  BY DEF Told
<1>10. ASSUME CalmReq', \A s \in Slots : PaidFor(s)', Told',
              \A s, t \in Slots : Pending(s)' /\ Pending(t)' => s = t
       PROVE  CalmInv'
  <2>1. OnePlace'
    BY <1>3, <1>10 DEF OnePlace
  <2>2. Paid'
    BY <1>2, <1>4, <1>7, <1>10 DEF Paid
  <2> QED
    BY <1>6, <1>7, <1>10, <2>1, <2>2
<1>11. CASE req' = req
  <2>1. CalmReq' /\ \A s \in Slots : ~Pending(s)'
    BY <1>11 DEF CalmReq, Pending, IsSubmission
  <2>2. \A s \in Slots : PaidFor(s)'
    BY <2>1, NothingToPay
  <2>3. Nowhere'
    BY <2>1 DEF Nowhere
  <2>4. CASE Answers /\ Sandbox /\ (lb'.aborted \/ lb'.done = "ok")
                     /\ (sandbox \/ lb'.aborted \/ lb'.cancelled)
    <3>1. Told'
      BY <1>1, <2>3, <2>4 DEF Told, Sandbox
    <3> QED
      BY <1>10, <2>1, <2>2, <3>1
  <2>5. CASE Purge /\ LBCancels
    <3>1. Told'
      BY <2>3, <2>5 DEF Told, Purge, LBCancels
    <3> QED
      BY <1>10, <2>1, <2>2, <3>1
  <2>6. CASE Free # {} /\ req' = deliver(req, "jobresubmit", 0)
    <3>1. PICK r \in Slots : req'[r].cmd = "jobresubmit" /\ req'[r].pc = "idle"
      BY <2>6, DeliveryKeeps
    <3> QED
      BY <2>1, <3>1 DEF Pending, IsSubmission
  <2> QED
    BY <2>4, <2>5, <2>6 DEF Answers
<1>12. CASE /\ Free # {} /\ req' = deliver(req, "jobresubmit", 0) /\ Sandbox
            /\ lb'.aborted = lb.aborted /\ lb'.cancelled = lb.cancelled
  <2>1. PICK r \in Slots :
           /\ CalmReq' /\ req'[r].cmd = "jobresubmit" /\ req'[r].pc = "idle"
           /\ \A s \in Slots : s # r => req'[s] = req[s]
    BY <1>12, DeliveryKeeps
  <2>2. \A s \in Slots : s # r => ~Pending(s)'
    BY <2>1 DEF Pending, IsSubmission
  <2>3. Pending(r)' /\ PaidFor(r)'
    BY <2>1 DEF Pending, IsSubmission, PaidFor
  <2>4. \A s \in Slots : PaidFor(s)'
    BY <2>1, <2>2, <2>3, NothingToPay
  <2>5. ~Nowhere'
    BY <2>3 DEF Nowhere
  <2>6. Told'
    BY <1>8, <1>9, <1>12, <2>5 DEF Told, Sandbox
  <2> QED
    BY <1>10, <2>1, <2>2, <2>4, <2>6
<1> QED
  BY <1>11, <1>12 DEF Answers

\* A job that is sent to CREAM is the only one there.
LEMMA SentIsAlone ==
  ASSUME CalmInv, NEW i \in DOMAIN out, Sent(i), out' = RemoveAt(out, i)
  PROVE  /\ copies = <<>> /\ Known(copies) = {} /\ tmps = {} /\ ~Nowhere
         /\ \A s \in Slots : ~Pending(s)
         /\ out' \in Seq(Messages) /\ \A h \in DOMAIN out' : ~Sent(h)'
<1> USE DEF CalmInv
<1>1. /\ copies = <<>> /\ tmps = {} /\ ~Nowhere /\ \A s \in Slots : ~Pending(s)
  BY DEF OnePlace, TmpInUse, Nowhere
<1>2. Known(copies) = {}
  BY <1>1 DEF Known
<1>3. out \in Seq(Messages)
  BY DEF CalmRest
<1>4. out' \in Seq(Messages)
  BY <1>3, RemovedAt
<1>5. ASSUME NEW h \in DOMAIN out' PROVE ~Sent(h)'
  <2>1. PICK g \in DOMAIN out : out'[h] = out[g] /\ g = (IF h < i THEN h ELSE h + 1)
    BY <1>3, RemovedAt
  <2>2. h \in Nat /\ i \in Nat
    BY <1>3, <1>4, LenProperties
  <2>3. g # i
    BY <2>1, <2>2
  <2>4. ~Sent(g)
    BY <2>3 DEF OnePlace
  <2> QED
    BY <2>1, <2>4 DEF Sent
<1> QED
  BY <1>1, <1>2, <1>4, <1>5

\* What there is on CREAM.
LEMMA OneCopy ==
  ASSUME CalmInv, NEW c \in DOMAIN copies
  PROVE  /\ c = 1 /\ Len(copies) = 1 /\ DOMAIN copies = {1}
         /\ copies[c] \in Copies /\ copies \in Seq(Copies)
         /\ tmps = {} /\ ~Nowhere
         /\ \A s \in Slots : ~Pending(s)
         /\ \A i \in DOMAIN out : ~Sent(i)
<1> USE DEF CalmInv
<1>1. copies \in Seq(Copies) /\ Len(copies) \in {0, 1} /\ DOMAIN copies = 1 .. Len(copies)
  BY LenProperties DEF CalmRest, OnePlace
<1>2. Len(copies) = 1 /\ DOMAIN copies = {1} /\ c = 1
  BY <1>1
<1>3. copies # <<>>
  BY <1>2
<1>4. copies[c] \in Copies
  BY <1>1, <1>2, ElementOfSeq
<1> QED
  BY <1>1, <1>2, <1>3, <1>4 DEF OnePlace, TmpInUse, Nowhere

\* A job that stays on CREAM, or reaches it.
LEMMA OnCreamKeeps ==
  ASSUME CalmInv, ~Nowhere, \A s \in Slots : ~Pending(s), tmps = {},
         UNCHANGED <<up, rpl, limits, req, tmps, sandbox, ctok>>, LBSame,
         tokens' \subseteq tokens, runs' \in Nat,
         runs' <= 1 + lb.deep, tokens' # {} => runs' <= lb.deep,
         copies' \in Seq(Copies), Len(copies') \in {0, 1}, out' \in Seq(Messages),
         \A i, h \in DOMAIN out' : Sent(i)' /\ Sent(h)' => i = h,
         copies' # <<>> => \A i \in DOMAIN out' : ~Sent(i)',
         copies' # <<>> \/ \E i \in DOMAIN out' : Sent(i)'
  PROVE  CalmInv'
<1> USE DEF CalmInv
<1>1. CalmReq' /\ \A s \in Slots : ~Pending(s)'
  BY DEF CalmReq, Pending, IsSubmission
<1>2. \A s \in Slots : PaidFor(s)'
  BY <1>1, NothingToPay
<1>3. CalmRest' /\ CalmLB'
  <2>1. tokens' \subseteq {0} /\ (~sandbox => tokens' = {})
    BY DEF CalmRest
  <2> QED
    BY <2>1 DEF CalmRest, CalmLB, LBSame
<1>4. OnePlace'
  BY <1>1 DEF OnePlace
<1>5. TmpInUse'
  BY DEF TmpInUse
<1>6. Paid'
  <2>1. lb'.deep = lb.deep /\ lb'.deep <= limits'.deep
    BY DEF Paid, LBSame
  <2>2. tokens' \cup tmps' # {} => runs' <= lb'.deep
    BY <2>1
  <2> QED
    BY <1>2, <2>1, <2>2 DEF Paid
<1>7. Told'
  <2>1. ~Nowhere'
    BY DEF Nowhere
  <2> QED
    BY <2>1 DEF Told, LBSame
<1> QED
  BY <1>1, <1>3, <1>4, <1>5, <1>6, <1>7

\* The cancellation of the copies on CREAM.
LEMMA CancelCopies ==
  ASSUME copies \in Seq(Copies), Len(copies) \in {0, 1},
         copies' = [c \in DOMAIN copies |->
                      IF copies[c].known /\ copies[c].st \in {"queued", "running"}
                      THEN [copies[c] EXCEPT !.st = "cancelled"] ELSE copies[c]]
  PROVE  /\ copies' \in Seq(Copies) /\ Len(copies') = Len(copies)
         /\ copies' = <<>> <=> copies = <<>>
<1>1. copies \in [1 .. Len(copies) -> Copies] /\ DOMAIN copies = 1 .. Len(copies)
  BY LenProperties
<1>2. CASE Len(copies) = 0
  <2>1. DOMAIN copies = {}
    BY <1>1, <1>2
  <2>2. copies' = copies
    BY <1>1, <2>1
  <2> QED
    BY <2>2
<1>3. CASE Len(copies) = 1
  <2> DEFINE x == IF copies[1].known /\ copies[1].st \in {"queued", "running"}
                  THEN [copies[1] EXCEPT !.st = "cancelled"] ELSE copies[1]
  <2>1. DOMAIN copies = {1} /\ copies[1] \in Copies /\ 1 \in 1 .. Len(copies)
    BY <1>1, <1>3
  <2>2. x \in Copies
    BY <2>1 DEF Copies
  <2>3. copies' = [copies EXCEPT ![1] = x]
    BY <1>1, <2>1
  <2> HIDE DEF x
  <2>4. copies' \in Seq(Copies) /\ Len(copies') = Len(copies)
    BY <2>1, <2>2, <2>3, ExceptSeq
  <2>5. copies' # <<>> /\ copies # <<>>
    <3>1. Len(copies') = 1 /\ Len(copies) = 1 /\ Len(<<>>) = 0
      BY <1>3, <2>4, EmptySeq
    <3> QED
      BY <3>1
  <2> QED
    BY <2>4, <2>5
<1> QED
  BY <1>2, <1>3

\* The steps of ICE.
LEMMA IceKeeps ==
  ASSUME CalmInv, ICE
  PROVE  CalmInv'
<1> USE DEF CalmInv
<1>1. /\ out \in Seq(Messages) /\ tokens \subseteq {0} /\ runs \in Nat /\ lb.deep \in Nat
      /\ runs <= 1 + lb.deep /\ (tokens # {} => runs <= lb.deep)
      /\ ~sandbox => lb.aborted \/ lb.cancelled
  BY DEF CalmRest, CalmLB, LBs, Paid, Told
<1>2. ASSUME NEW i \in DOMAIN out PROVE out[i] \in Messages
  BY <1>1, ElementOfSeq, LenProperties
<1>3. ASSUME NEW i \in DOMAIN out, IceSubmit(i) PROVE CalmInv'
  <2>1. /\ Sent(i) /\ out' = RemoveAt(out, i) /\ out[i].tok = 0
        /\ UNCHANGED <<tokens, tmps, sandbox, ctok, rpl, runs, up, limits>>
    BY <1>2, <1>3 DEF IceSubmit, Sent, files, counts, Messages
  <2>2. /\ copies = <<>> /\ Known(copies) = {} /\ tmps = {} /\ ~Nowhere
        /\ \A s \in Slots : ~Pending(s)
        /\ out' \in Seq(Messages) /\ \A h \in DOMAIN out' : ~Sent(h)'
    BY <2>1, SentIsAlone
  <2>3. CASE SubmitOk(copies, 0)
    <3> DEFINE x == [tok |-> 0, st |-> "queued", known |-> TRUE]
    <3>1. x \in Copies
      BY DEF Copies
    <3>2. copies' = Append(<<>>, x) /\ req' = req /\ lb' = Status("scheduled")
      BY <2>2, <2>3 DEF SubmitOk
    <3> HIDE DEF x
    <3>3. Append(<<>>, x) \in Seq(Copies) /\ Len(Append(<<>>, x)) = 1
      BY <3>1, EmptySeq, AppendProperties
    <3>4. copies' # <<>>
      BY <3>2, <3>3, EmptySeq
    <3>5. LBSame
      BY <3>2, LogForms DEF Statuses
    <3> QED
      BY <1>1, <2>1, <2>2, <3>2, <3>3, <3>4, <3>5, OnCreamKeeps
  <2>4. CASE SubmitFails(copies)
    <3>1. /\ copies' = <<>>
          /\ \/ /\ Free # {} /\ req' = deliver(req, "jobresubmit", 0)
                /\ lb' = [lb EXCEPT !.status = "waiting", !.done = "failed"]
             \/ lb' = log_abort /\ req' = req
      BY <2>2, <2>4 DEF SubmitFails
    <3>2. Answers
      BY <2>1, <3>1, LogForms, OutcomeForms DEF Answers, Sandbox, LBAborts
    <3> QED
      BY <2>1, <2>2, <3>1, <3>2, AnswerKeeps
  <2> QED
    BY <1>3, <2>1, <2>2, <2>3, <2>4 DEF IceSubmit
<1>4. ASSUME NEW i \in DOMAIN out PROVE ~IceReschedule(i)
  BY <1>2 DEF IceReschedule, Messages
<1>5. ASSUME NEW i \in DOMAIN out, IceCancel(i) PROVE CalmInv'
  <2>1. /\ ~Sent(i) /\ out' = RemoveAt(out, i) /\ lb' = lb
        /\ UNCHANGED <<tokens, tmps, sandbox, ctok, rpl, runs, up, limits, req>>
    BY <1>5 DEF IceCancel, Sent, files, counts
  <2>2. /\ copies' \in Seq(Copies) /\ Len(copies') = Len(copies)
        /\ copies' = <<>> <=> copies = <<>>
    BY <1>5, CancelCopies DEF IceCancel, CalmRest, OnePlace
  <2>3. /\ out' \in Seq(Messages)
        /\ \A h \in DOMAIN out' : \E g \in DOMAIN out :
             out'[h] = out[g] /\ g = (IF h < i THEN h ELSE h + 1)
        /\ \A g \in DOMAIN out : g # i => \E h \in DOMAIN out' : out'[h] = out[g]
    BY <1>1, <2>1, RemovedAt, RemovedRest
  <2>4. DOMAIN out' \subseteq Nat /\ i \in Nat
    BY <1>1, <2>3, LenProperties
  <2>5. \A h, k \in DOMAIN out' : Sent(h)' /\ Sent(k)' => h = k
    <3>1. SUFFICES ASSUME NEW h \in DOMAIN out', NEW k \in DOMAIN out', Sent(h)', Sent(k)'
                   PROVE  h = k
      OBVIOUS
    <3>2. PICK g \in DOMAIN out : out'[h] = out[g] /\ g = (IF h < i THEN h ELSE h + 1)
      BY <2>3
    <3>3. PICK f \in DOMAIN out : out'[k] = out[f] /\ f = (IF k < i THEN k ELSE k + 1)
      BY <2>3
    <3>4. Sent(g) /\ Sent(f)
      BY <3>1, <3>2, <3>3 DEF Sent
    <3>5. g = f
      BY <3>4 DEF OnePlace
    <3> QED
      BY <2>4, <3>2, <3>3, <3>5
  <2>6. (\E h \in DOMAIN out' : Sent(h)') <=> (\E g \in DOMAIN out : Sent(g))
    BY <2>1, <2>3 DEF Sent
  <2>7. CalmReq' /\ \A s \in Slots : Pending(s)' <=> Pending(s)
    BY <2>1 DEF CalmReq, Pending, IsSubmission
  <2>8. OnePlace'
    BY <2>1, <2>2, <2>5, <2>6, <2>7 DEF OnePlace
  <2>9. CalmRest' /\ CalmLB'
    BY <2>1, <2>2, <2>3 DEF CalmRest, CalmLB
  <2>10. TmpInUse'
    BY <2>1, <2>2, <2>6, <2>7 DEF TmpInUse
  <2>11. Paid'
    <3>1. \A s \in Slots : PaidFor(s)'
      BY <2>1, <2>7 DEF Paid, PaidFor
    <3> QED
      BY <2>1, <3>1 DEF Paid
  <2>12. Nowhere' <=> Nowhere
    BY <2>2, <2>6, <2>7 DEF Nowhere
  <2>13. Told'
    BY <2>1, <2>12 DEF Told
  <2> QED
    BY <2>7, <2>8, <2>9, <2>10, <2>11, <2>13
<1>6. ASSUME NEW c \in DOMAIN copies, IceOutcome(c) PROVE CalmInv'
  <2>1. /\ copies' = RemoveAt(copies, c)
        /\ UNCHANGED <<rpl, out, runs, up, limits>>
    BY <1>6 DEF IceOutcome, counts
  <2>2. /\ c = 1 /\ Len(copies) = 1 /\ copies \in Seq(Copies) /\ tmps = {} /\ ~Nowhere
        /\ \A s \in Slots : ~Pending(s)
        /\ \A i \in DOMAIN out : ~Sent(i)
    BY OneCopy
  <2>3. copies' = <<>>
    <3>1. copies' \in Seq(Copies) /\ Len(copies') = 0
      BY <2>1, <2>2, RemovedAt
    <3> QED
      BY <3>1, EmptySeq
  <2>4. Answers
    <3>1. CASE /\ lb' = [lb EXCEPT !.status = "done", !.done = "ok"]
               /\ UNCHANGED <<req, files>>
      BY <1>1, <3>1, OutcomeForms DEF Answers, Sandbox, files
    <3>2. CASE /\ Free # {} /\ lb' = [lb EXCEPT !.status = "waiting", !.done = "failed"]
               /\ req' = deliver(req, "jobresubmit", 0) /\ UNCHANGED files
      BY <3>2, OutcomeForms DEF Answers, Sandbox, files
    <3>3. CASE lb' = [log_abort EXCEPT !.done = "failed"] /\ UNCHANGED <<req, files>>
      BY <3>3, OutcomeForms DEF Answers, Sandbox, files, LBAborts
    <3>4. CASE lb' = log_cancelled /\ Purge /\ req' = req
      BY <3>4, LogForms DEF Answers
    <3> QED
      BY <1>6, <3>1, <3>2, <3>3, <3>4 DEF IceOutcome
  <2>5. out' \in Seq(Messages) /\ \A i \in DOMAIN out' : ~Sent(i)'
    BY <1>1, <2>1, <2>2 DEF Sent
  <2> QED
    BY <2>1, <2>2, <2>3, <2>4, <2>5, AnswerKeeps
<1> QED
  BY <1>3, <1>4, <1>5, <1>6 DEF ICE

\* The steps of CREAM.
LEMMA CreamKeeps ==
  ASSUME CalmInv, CREAM
  PROVE  CalmInv'
<1> USE DEF CalmInv
<1>1. /\ out \in Seq(Messages) /\ tokens \subseteq {0} /\ runs \in Nat /\ lb.deep \in Nat
      /\ runs <= 1 + lb.deep /\ (tokens # {} => runs <= lb.deep)
  BY DEF CalmRest, CalmLB, LBs, Paid
<1>2. PICK c \in DOMAIN copies : Start(c) \/ CopyFails(c) \/ CopyEnds(c) \/ Vanish(c)
  BY DEF CREAM
<1>3. /\ c = 1 /\ Len(copies) = 1 /\ copies \in Seq(Copies) /\ tmps = {} /\ ~Nowhere
      /\ \A s \in Slots : ~Pending(s)
      /\ \A i \in DOMAIN out : ~Sent(i)
      /\ copies[c].known = TRUE /\ copies[c].tok = 0
  BY OneCopy DEF Copies
<1>4. ~Vanish(c)
  BY <1>3 DEF Vanish
<1>5. /\ UNCHANGED <<up, rpl, limits, req, tmps, sandbox, ctok, out>>
      /\ \E s \in {"running", "failed", "ok"} : copies' = [copies EXCEPT ![c].st = s]
  BY <1>2, <1>4 DEF Start, CopyFails, CopyEnds, files, counts
<1>6. copies' \in Seq(Copies) /\ Len(copies') = 1
  <2>1. PICK s \in {"running", "failed", "ok"} : copies' = [copies EXCEPT ![c].st = s]
    BY <1>5
  <2> DEFINE x == [copies[c] EXCEPT !.st = s]
  <2>2. copies \in Seq(Copies) /\ copies[c] \in Copies /\ c \in 1 .. Len(copies)
    <3>1. copies[c] \in Copies
      BY OneCopy
    <3>2. 1 \in 1 .. 1
      OBVIOUS
    <3> QED
      BY <1>3, <3>1, <3>2
  <2>3. x \in Copies
    BY <2>2 DEF Copies
  <2>4. copies' = [copies EXCEPT ![c] = x]
    BY <2>1
  <2> HIDE DEF x
  <2>5. copies' \in Seq(Copies) /\ Len(copies') = Len(copies)
    BY <2>2, <2>3, <2>4, ExceptSeq
  <2> QED
    BY <1>3, <2>5
<1>7. copies' # <<>>
  BY <1>6, EmptySeq
<1>8. /\ LBSame /\ tokens' \subseteq tokens /\ runs' \in Nat /\ runs' <= 1 + lb.deep
      /\ tokens' # {} => runs' <= lb.deep
  <2>1. CASE Start(c) /\ 0 \in tokens
    <3>1. tokens' = tokens \ {0} /\ runs' = runs + 1 /\ lb' = Status("running")
      BY <1>3, <2>1 DEF Start
    <3>2. LBSame
      BY <3>1, LogForms DEF Statuses
    <3>3. tokens' = {} /\ runs <= lb.deep
      BY <1>1, <2>1, <3>1
    <3>4. runs' \in Nat /\ runs' <= 1 + lb.deep
      BY <1>1, <3>1, <3>3
    <3> QED
      BY <3>2, <3>3, <3>4
  <2>2. CASE ~(Start(c) /\ 0 \in tokens)
    <3>1. UNCHANGED <<tokens, runs, lb>>
      BY <1>2, <1>3, <1>4, <2>2 DEF Start, CopyFails, CopyEnds, files
    <3>2. LBSame
      BY <3>1, LogForms
    <3> QED
      BY <1>1, <3>1, <3>2
  <2> QED
    BY <2>1, <2>2
<1>9. out' \in Seq(Messages) /\ \A i \in DOMAIN out' : ~Sent(i)'
  BY <1>1, <1>3, <1>5 DEF Sent
<1> QED
  BY <1>3, <1>5, <1>6, <1>7, <1>8, <1>9, OnCreamKeeps

\* The user asks for the cancellation of the job.
LEMMA UserKeeps ==
  ASSUME CalmInv, UserCancels
  PROVE  CalmInv'
<1> USE DEF CalmInv
<1>1. /\ Free # {} /\ req' = deliver(req, "jobcancel", 0)
      /\ UNCHANGED <<tokens, tmps, sandbox, ctok, lb, rpl, out, copies, runs, up, limits>>
  BY DEF UserCancels, files, cream
<1>2. PICK r \in Slots :
        /\ CalmReq' /\ ~Pending(r) /\ req'[r].cmd = "jobcancel"
        /\ \A s \in Slots : s # r => req'[s] = req[s]
  BY <1>1, DeliveryKeeps
<1>3. \A s \in Slots : Pending(s)' <=> Pending(s)
  BY <1>2 DEF Pending, IsSubmission
<1>4. \A s \in Slots : PaidFor(s)'
  <2>1. ASSUME NEW s \in Slots PROVE PaidFor(s)'
    <3>1. CASE s = r
      BY <1>2, <1>3, <3>1, NothingToPay
    <3>2. CASE s # r
      BY <1>1, <1>2, <1>3, <3>2 DEF Paid, PaidFor
    <3> QED
      BY <3>1, <3>2
  <2> QED
    BY <2>1
<1>5. CalmRest' /\ CalmLB' /\ OnePlace' /\ Paid'
  BY <1>1, <1>3, <1>4 DEF CalmRest, CalmLB, OnePlace, Paid, Sent
<1>6. TmpInUse'
  BY <1>1, <1>2, <1>3 DEF TmpInUse, Sent
<1>7. Nowhere' <=> Nowhere
  BY <1>1, <1>3 DEF Nowhere, Sent
<1>8. Told'
  BY <1>1, <1>7 DEF Told
<1> QED
  BY <1>2, <1>5, <1>6, <1>8

-----------------------------------------------------------------------------
(* The theorems                                                            *)

\* The job as it is submitted.
LEMMA JobInit ==
  ASSUME Init
  PROVE  JobInv
<1>1. req = [s \in Slots |-> IF s = 1 THEN Request("jobsubmit", 0) ELSE NoRequest]
  BY DEF Init
<1> DEFINE y1 == [NoRequest EXCEPT !.cmd = "jobsubmit"]
           y2 == [y1 EXCEPT !.loc = "new"]
           y3 == [y2 EXCEPT !.n0 = 0]
           x  == [y3 EXCEPT !.n = 0]
<1>2. Request("jobsubmit", 0) = x
  BY DEF Request
<1>3. y1 \in CalmRequests /\ y1.cmd = "jobsubmit" /\ y1.pc = "idle"
  BY DEF NoRequest, CalmRequests, PCs
<1> HIDE DEF y1
<1>4. y2 \in CalmRequests /\ y2.cmd = "jobsubmit" /\ y2.loc = "new" /\ y2.pc = "idle"
  BY <1>3 DEF CalmRequests
<1> HIDE DEF y2
<1>5. y3 \in CalmRequests /\ y3.cmd = "jobsubmit" /\ y3.loc = "new" /\ y3.pc = "idle"
  BY <1>4 DEF CalmRequests
<1> HIDE DEF y3
<1>6. x \in CalmRequests /\ x.cmd = "jobsubmit" /\ x.loc = "new" /\ x.pc = "idle"
  BY <1>5 DEF CalmRequests
<1> HIDE DEF x
<1>7. NoRequest \in CalmRequests /\ NoRequest.cmd = "none" /\ NoRequest.loc = "none"
      /\ NoRequest.pc = "idle"
  BY DEF NoRequest, CalmRequests, PCs
<1>8. \A s \in Slots : req[s] = IF s = 1 THEN x ELSE NoRequest
  BY <1>1, <1>2
<1>9. CalmReq
  <2>1. req \in [Slots -> CalmRequests]
    BY <1>1, <1>2, <1>6, <1>7
  <2> QED
    BY <1>6, <1>7, <1>8, <2>1 DEF CalmReq, IsSubmission, SubmitPCs
<1>10. /\ 1 \in Slots /\ Pending(1) /\ \A s \in Slots : Pending(s) => s = 1
       /\ \A s \in Slots : PaidFor(s)
  <2>1. 1 \in Slots
    BY JobAssumption
  <2>2. runs <= lb.deep
    BY DEF Init
  <2> QED
    BY <1>6, <1>7, <1>8, <2>1, <2>2 DEF Pending, IsSubmission, PaidFor
<1>11. CalmRest /\ CalmLB
  <2>1. <<>> \in Seq(Messages) /\ <<>> \in Seq(Copies)
    BY EmptySeq
  <2> QED
    BY <2>1 DEF Init, CalmRest, CalmLB, LBs, Statuses
<1>12. OnePlace
  BY <1>10 DEF OnePlace, Init
<1>13. TmpInUse
  BY DEF TmpInUse, Init
<1>14. Paid
  <2>1. limits.deep \in Nat
    BY JobAssumption DEF Init
  <2> QED
    BY <1>10, <2>1 DEF Paid, Init
<1>15. Told
  BY <1>10 DEF Told, Nowhere, Init
<1> QED
  BY <1>9, <1>11, <1>12, <1>13, <1>14, <1>15 DEF JobInv, CalmInv, Init

\* Crashes and replans are only ever counted up ...
LEMMA CountsRise ==
  ASSUME [Next]_vars
  PROVE  /\ crashes' = crashes \/ crashes' = crashes + 1
         /\ replans' = replans \/ replans' = replans + 1
<1>1. crashes' = crashes \/ crashes' = crashes + 1
  BY DEF Next, vars, counts, Dequeue, Submission, Cancellation, Begin, LBFails, Scan,
       TakeToken, Count, NewToken, RestoreToken, Plan, PlanFails, CheckCancel, Deliver,
       DeliverFails, Delivered, ProxyExpired, CancelLook, CancelLBFails, CancelForward,
       CancelFail, Replanner, ReplanLook, ReplanRename, ReplanLog, ReplanDeliver,
       ReplanDeliverFails, ReplanDelivered, ICE, IceSubmit, IceReschedule, IceCancel,
       IceOutcome, CREAM, Start, CopyFails, CopyEnds, Vanish, UserCancels, Crash, Restart
<1>2. replans' = replans \/ replans' = replans + 1
  BY DEF Next, vars, counts, Dequeue, Submission, Cancellation, Begin, LBFails, Scan,
       TakeToken, Count, NewToken, RestoreToken, Plan, PlanFails, CheckCancel, Deliver,
       DeliverFails, Delivered, ProxyExpired, CancelLook, CancelLBFails, CancelForward,
       CancelFail, Replanner, ReplanLook, ReplanRename, ReplanLog, ReplanDeliver,
       ReplanDeliverFails, ReplanDelivered, ICE, IceSubmit, IceReschedule, IceCancel,
       IceOutcome, CREAM, Start, CopyFails, CopyEnds, Vanish, UserCancels, Crash, Restart
<1> QED
  BY <1>1, <1>2

\* ... and the rest happens to a calm job.
LEMMA JobNext ==
  ASSUME JobInv, [Next]_vars
  PROVE  JobInv'
<1>1. crashes' \in Nat /\ replans' \in Nat /\ crashes <= crashes' /\ replans <= replans'
  <2>1. crashes \in Nat /\ replans \in Nat
    BY DEF JobInv
  <2> QED
    BY <2>1, CountsRise
<1>2. ASSUME Calm' PROVE CalmInv'
  <2>1. Calm /\ CalmInv /\ crashes' = 0 /\ replans' = 0 /\ crashes = 0 /\ replans = 0
    BY <1>1, <1>2 DEF Calm, JobInv
  <2>2. up /\ rpl.pc = "idle"
    BY <2>1 DEF CalmInv, CalmRest
  <2>3. ~Crash /\ ~Restart
    BY <2>1, <2>2 DEF Crash, Restart
  <2>4. ~Replanner
    BY <2>1, <2>2 DEF Replanner, ReplanLook, ReplanRename, ReplanLog, ReplanDeliver,
                      ReplanDeliverFails, ReplanDelivered
  <2>5. CASE \E r \in Slots : Dequeue(r) \/ Submission(r) \/ Cancellation(r)
    BY <2>1, <2>5, ProcessorKeeps
  <2>6. CASE ICE
    BY <2>1, <2>6, IceKeeps
  <2>7. CASE CREAM
    BY <2>1, <2>7, CreamKeeps
  <2>8. CASE UserCancels
    BY <2>1, <2>8, UserKeeps
  <2>9. CASE UNCHANGED vars
    <3>1. UNCHANGED <<req, tokens, tmps, sandbox, ctok, lb, rpl, out, copies, runs, up, limits>>
      BY <2>9 DEF vars
    <3> QED
      BY <2>1, <3>1 DEF CalmInv, CalmReq, CalmRest, CalmLB, OnePlace, TmpInUse, Paid, PaidFor,
                        Told, Nowhere, Pending, Sent, IsSubmission
  <2> QED
    BY <2>3, <2>4, <2>5, <2>6, <2>7, <2>8, <2>9 DEF Next
<1> QED
  BY <1>1, <1>2 DEF JobInv

\* The invariant is one.
THEOREM Invariance == Spec => []JobInv
<1>1. Init => JobInv
  BY JobInit
<1>2. JobInv /\ [Next]_vars => JobInv'
  BY JobNext
<1> QED
  BY <1>1, <1>2, PTL DEF Spec

\* Without crashes and replans a job starts at most once more than the deep
\* resubmissions it is allowed: a copy that starts removes its token, and a token is
\* made for the first submission and for a deep resubmission that was logged only.
THEOREM StartsArePaid == Spec => [](Calm => RunsBounded)
<1>1. ASSUME JobInv, Calm PROVE RunsBounded
  <2>1. runs \in Nat /\ lb.deep \in Nat /\ limits.deep \in Nat
    BY <1>1, JobAssumption DEF JobInv, CalmInv, CalmRest, CalmLB, LBs
  <2>2. runs <= 1 + lb.deep /\ lb.deep <= limits.deep
    BY <1>1 DEF JobInv, CalmInv, Paid
  <2> QED
    BY <2>1, <2>2 DEF RunsBounded
<1>2. JobInv => (Calm => RunsBounded)
  BY <1>1
<1> QED
  BY <1>2, Invariance, PTL

\* Without crashes and replans whoever looks for the token finds one at most: the
\* request that gave it its temporary name is the only one at work.
THEOREM TokenIsUnique == Spec => [](Calm => OneToken)
<1>1. ASSUME JobInv, Calm PROVE OneToken
  <2>1. CalmInv
    BY <1>1 DEF JobInv
  <2>2. ASSUME NEW r \in Slots, At(r, "scan") PROVE Cardinality(Names) <= 1
    <3>1. req[r].pc = "scan" /\ req[r] \in CalmRequests
      BY <2>1, <2>2 DEF At, CalmInv, CalmReq
    <3>2. req[r].cmd \in {"none", "jobsubmit", "jobresubmit", "jobcancel"}
      BY <3>1 DEF CalmRequests
    <3>3. Pending(r)
      BY <2>1, <3>1, <3>2 DEF CalmInv, CalmReq, Pending, IsSubmission, CancelPCs
    <3>4. tmps = {}
      BY <2>1, <3>1, <3>3 DEF CalmInv, TmpInUse
    <3> QED
      BY <2>1, <3>4, NamesCalm DEF CalmInv
  <2> QED
    BY <2>2 DEF OneToken
<1>2. JobInv => (Calm => OneToken)
  BY <1>1
<1> QED
  BY <1>2, Invariance, PTL

\* Once the abort of the job has been logged no copy of it starts: the job is nowhere,
\* or its sandbox is gone and the token with it.
THEOREM AbortsAreFinal == Spec => AbortIsFinal
<1>1. ASSUME JobInv, [Next]_vars, lb.aborted, crashes + replans = 0
      PROVE  runs' = runs
  <2>1. CalmInv
    BY <1>1 DEF JobInv, Calm
  <2>2. runs' = runs \/ \E c \in DOMAIN copies : Start(c) /\ copies[c].tok \in tokens
    BY <1>1 DEF Next, vars, cream, Dequeue, Submission, Cancellation, Begin, LBFails, Scan,
           TakeToken, Count, NewToken, RestoreToken, Plan, PlanFails, CheckCancel, Deliver,
           DeliverFails, Delivered, ProxyExpired, CancelLook, CancelLBFails, CancelForward,
           CancelFail, Replanner, ReplanLook, ReplanRename, ReplanLog, ReplanDeliver,
           ReplanDeliverFails, ReplanDelivered, ICE, IceSubmit, IceReschedule, IceCancel,
           IceOutcome, CREAM, Start, CopyFails, CopyEnds, Vanish, UserCancels, Crash, Restart
  <2>3. ASSUME NEW c \in DOMAIN copies, copies[c].tok \in tokens PROVE FALSE
    <3>1. ~Nowhere
      BY <2>1, OneCopy
    <3>2. sandbox
      BY <2>1, <2>3 DEF CalmInv, CalmRest
    <3> QED
      BY <1>1, <2>1, <3>1, <3>2 DEF CalmInv, Told
  <2> QED
    BY <2>2, <2>3
<1>2. JobInv /\ [Next]_vars => [lb.aborted /\ crashes + replans = 0 => runs' = runs]_vars
  BY <1>1
<1> QED
  BY <1>2, Invariance, PTL DEF Spec, AbortIsFinal
-----------------------------------------------------------------------------
(* Crashes of the workload manager                                         *)

\* The requests of a job that is not replanned: after a crash they may be in
\* limbo, and the event queue may refer to one several times.
PlainRequests ==
  [cmd : {"none", "jobsubmit", "jobresubmit", "jobcancel"},
   loc : {"none", "new", "old"}, pc : PCs, n0 : {0}, n : {0}, k : {0},
   deep : Nat, shallow : Nat, limbo : BOOLEAN, queued : Nat, rp : {FALSE},
   sent : Nat]

\* Where request x can be.
InPlace(x) ==
  /\ x.loc = "none" <=> x.cmd = "none"
  /\ x.pc # "idle" => x.loc = "old"
  /\ x.cmd = "jobcancel" => x.pc \in CancelPCs
  /\ x.cmd \in {"jobsubmit", "jobresubmit"} => x.pc \in SubmitPCs
  /\ up /\ x.cmd = "jobresubmit" /\ x.loc = "old" => x.pc # "idle"
  /\ crashes = 0 => ~x.limbo

PlainReq == req \in [Slots -> PlainRequests] /\ \A r \in Slots : InPlace(req[r])

\* There is one token name and no reschedule, and ICE knows every copy.
PlainRest ==
  /\ rpl.pc = "idle" /\ crashes \in Nat /\ faults \in Nat
  /\ ~up => crashes # 0
  /\ tokens \subseteq {0} /\ tmps \subseteq {0}
  /\ ~sandbox => lb.aborted \/ lb.cancelled
  /\ out \in Seq(Messages) /\ copies \in Seq(Copies) /\ Len(copies) \in {0, 1}

\* The request will still be handled, whatever crashes: a recovery leaves out the
\* submission of a job that has failed, but not its resubmission.
Live(r) ==
  /\ Pending(r)
  /\ \/ req[r].cmd = "jobresubmit"
     \/ lb.done # "failed" /\ (~up \/ req[r].loc = "new" \/ req[r].pc # "idle")

\* The job has an outcome, or somebody has it.
Accounted ==
  \/ lb.aborted \/ lb.cancelled \/ lb.done = "ok"
  \/ \E i \in DOMAIN out : Sent(i)
  \/ copies # <<>>
  \/ \E r \in Slots : Live(r)

PlainInv == /\ PlainReq /\ PlainRest /\ CalmLB
            /\ crashes = 0 \/ faults = 0 => Accounted

\* The end of a processor leaves nothing, or the request in the event queue.
LEMMA LeftPlain ==
  ASSUME NEW x \in PlainRequests
  PROVE  /\ NoRequest \in PlainRequests
         /\ \/ Left(x) = NoRequest /\ x.queued = 0
            \/ /\ Left(x) \in PlainRequests /\ x.queued # 0
               /\ Left(x).cmd = x.cmd /\ Left(x).loc = x.loc /\ Left(x).limbo = x.limbo
               /\ Left(x).pc = "queued"
<1>1. NoRequest \in PlainRequests
  BY DEF PlainRequests, NoRequest, PCs
<1>2. CASE x.queued = 0
  BY <1>1, <1>2 DEF Left
<1>3. CASE x.queued # 0
  <2> DEFINE w  == x.queued - 1
             z1 == [x EXCEPT !.pc = "queued"]
             z2 == [z1 EXCEPT !.queued = w]
             z3 == [z2 EXCEPT !.k = 0]
             z4 == [z3 EXCEPT !.rp = FALSE]
             z5 == [z4 EXCEPT !.deep = 0]
             z6 == [z5 EXCEPT !.shallow = 0]
             Same(z) == /\ z \in PlainRequests /\ z.cmd = x.cmd /\ z.loc = x.loc
                        /\ z.limbo = x.limbo /\ z.pc = "queued"
  <2>1. w \in Nat
    BY <1>3 DEF PlainRequests
  <2>2. Left(x) = z6
    BY <1>3 DEF Left
  <2> HIDE DEF w
  <2>3. Same(z1)
    BY DEF PlainRequests, PCs
  <2> HIDE DEF z1
  <2>4. Same(z2)
    BY <2>1, <2>3 DEF PlainRequests
  <2> HIDE DEF z2
  <2>5. Same(z3)
    BY <2>4 DEF PlainRequests
  <2> HIDE DEF z3
  <2>6. Same(z4)
    BY <2>5 DEF PlainRequests
  <2> HIDE DEF z4
  <2>7. Same(z5)
    BY <2>6 DEF PlainRequests
  <2> HIDE DEF z5
  <2>8. Same(z6)
    BY <2>7 DEF PlainRequests
  <2> HIDE DEF z6
  <2> QED
    BY <1>1, <1>3, <2>2, <2>8
<1> QED
  BY <1>2, <1>3

\* A request that is postponed stays.
LEMMA PostponedPlain ==
  ASSUME NEW x \in PlainRequests
  PROVE  /\ Postponed(x) \in PlainRequests
         /\ Postponed(x).cmd = x.cmd /\ Postponed(x).loc = x.loc
         /\ Postponed(x).limbo = x.limbo /\ Postponed(x).pc = "queued"
<1> DEFINE v == x.queued + 1
           y == [x EXCEPT !.queued = v]
<1>1. v \in Nat /\ v # 0
  BY DEF PlainRequests
<1>2. Postponed(x) = Left(y)
  BY DEF Postponed
<1> HIDE DEF v
<1>3. /\ y \in PlainRequests /\ y.queued = v
      /\ y.cmd = x.cmd /\ y.loc = x.loc /\ y.limbo = x.limbo
  BY <1>1 DEF PlainRequests
<1> HIDE DEF y
<1> QED
  BY <1>1, <1>2, <1>3, LeftPlain

\* What a step of a processor makes of its request: x.
Goes(r, x) ==
  /\ x \in PlainRequests
  /\ req' = [req EXCEPT ![r] = x]
  /\ \/ x = NoRequest
     \/ /\ x.cmd = req[r].cmd /\ x.cmd # "none" /\ x.loc = "old" /\ x.pc # "idle"
        /\ x.cmd = "jobcancel" => x.pc \in CancelPCs
        /\ x.cmd # "jobcancel" => x.pc \in SubmitPCs
        /\ crashes = 0 => ~x.limbo

\* A request that goes, is postponed, or moves on.
LEMMA GoForms ==
  ASSUME PlainReq, NEW r \in Slots, req[r].loc = "old"
  PROVE  /\ End(r) => \E x : Goes(r, x)
         /\ req' = [req EXCEPT ![r] = Postponed(@)] /\ req[r].cmd # "none"
              => \E x : Goes(r, x) /\ x.pc = "queued" /\ x.cmd = req[r].cmd
         /\ \A p \in PCs :
              (/\ req' = [req EXCEPT ![r].pc = p] /\ p # "idle"
               /\ p \in IF req[r].cmd = "jobcancel" THEN CancelPCs ELSE SubmitPCs)
              => \E x : Goes(r, x) /\ x.pc = p /\ x.cmd = req[r].cmd
<1>1. /\ req[r] \in PlainRequests /\ req \in [Slots -> PlainRequests]
      /\ req[r].cmd # "none" /\ (crashes = 0 => ~req[r].limbo)
  BY DEF PlainReq, InPlace
<1>2. ASSUME End(r) PROVE \E x : Goes(r, x)
  <2>1. PICK x : x = Left(req[r])
    OBVIOUS
  <2>2. req' = [req EXCEPT ![r] = x]
    BY <1>2, <2>1 DEF End
  <2>3. /\ x \in PlainRequests
        /\ \/ x = NoRequest
           \/ /\ x.cmd = req[r].cmd /\ x.loc = req[r].loc /\ x.limbo = req[r].limbo
              /\ x.pc = "queued"
    BY <1>1, <2>1, LeftPlain
  <2> QED
    BY <1>1, <2>2, <2>3 DEF Goes, SubmitPCs, CancelPCs
<1>3. ASSUME req' = [req EXCEPT ![r] = Postponed(@)]
      PROVE  \E x : Goes(r, x) /\ x.pc = "queued" /\ x.cmd = req[r].cmd
  <2>1. PICK x : x = Postponed(req[r])
    OBVIOUS
  <2>2. req' = [req EXCEPT ![r] = x]
    BY <1>3, <2>1
  <2>3. /\ x \in PlainRequests /\ x.cmd = req[r].cmd /\ x.loc = req[r].loc
        /\ x.limbo = req[r].limbo /\ x.pc = "queued"
    BY <1>1, <2>1, PostponedPlain
  <2> QED
    BY <1>1, <2>2, <2>3 DEF Goes, SubmitPCs, CancelPCs
<1>4. ASSUME NEW p \in PCs, req' = [req EXCEPT ![r].pc = p], p # "idle",
             p \in IF req[r].cmd = "jobcancel" THEN CancelPCs ELSE SubmitPCs
      PROVE  \E x : Goes(r, x) /\ x.pc = p /\ x.cmd = req[r].cmd
  <2> DEFINE x == [req[r] EXCEPT !.pc = p]
  <2>1. req' = [req EXCEPT ![r] = x]
    BY <1>1, <1>4
  <2>2. /\ x \in PlainRequests /\ x.pc = p /\ x.cmd = req[r].cmd /\ x.loc = req[r].loc
        /\ x.limbo = req[r].limbo
    BY <1>1 DEF PlainRequests
  <2> HIDE DEF x
  <2>3. Goes(r, x)
    BY <1>1, <1>4, <2>1, <2>2 DEF Goes
  <2> QED
    BY <2>2, <2>3
<1> QED
  BY <1>2, <1>3, <1>4

\* The request does not leave with the job, unless the LB failed it in limbo.
Keeps(r, x) ==
  Pending(r) =>
    \/ x.cmd = req[r].cmd /\ x.pc # "delivered"
    \/ lb'.aborted \/ lb'.cancelled
    \/ out' = Append(out, [kind |-> "Submit", tok |-> 0])
    \/ crashes > 0 /\ faults' > 0

\* Every step of a processor.
LEMMA ProcessorPlain ==
  ASSUME PlainReq, PlainRest, CalmLB, NEW r \in Slots,
         Dequeue(r) \/ Submission(r) \/ Cancellation(r)
  PROVE  \E x : Goes(r, x) /\ Keeps(r, x)
<1>1. /\ req[r] \in PlainRequests /\ req \in [Slots -> PlainRequests]
      /\ req[r].loc = "none" <=> req[r].cmd = "none"
      /\ req[r].pc # "idle" => req[r].loc = "old"
      /\ req[r].cmd = "jobcancel" => req[r].pc \in CancelPCs
      /\ req[r].cmd \in {"jobsubmit", "jobresubmit"} => req[r].pc \in SubmitPCs
      /\ crashes = 0 => ~req[r].limbo
  BY DEF PlainReq, InPlace
<1>2. /\ req[r].n = 0 /\ req[r].k = 0 /\ req[r].rp = FALSE /\ req[r].limbo \in BOOLEAN
      /\ req[r].queued \in Nat /\ req[r].sent \in Nat
      /\ req[r].cmd \in {"none", "jobsubmit", "jobresubmit", "jobcancel"}
      /\ req[r].loc \in {"none", "new", "old"}
  BY <1>1 DEF PlainRequests
<1> DEFINE Goal == \E x : Goes(r, x) /\ Keeps(r, x)
<1> SUFFICES Goal
  OBVIOUS
<1>3. ASSUME NEW p \in SubmitPCs \ {"idle", "delivered"},
             req[r].pc \in SubmitPCs \ {"idle", "queued"}, req' = [req EXCEPT ![r].pc = p]
      PROVE  Goal
  <2>1. req[r].loc = "old" /\ req[r].cmd # "jobcancel" /\ p \in PCs
    BY <1>1, <1>3 DEF SubmitPCs, CancelPCs, PCs
  <2>2. PICK x : Goes(r, x) /\ x.pc = p /\ x.cmd = req[r].cmd
    BY <1>3, <2>1, GoForms
  <2> QED
    BY <1>3, <2>2 DEF Keeps
<1>4. ASSUME req[r].pc # "idle", req' = [req EXCEPT ![r] = Postponed(@)]
      PROVE  Goal
  <2>1. req[r].loc = "old" /\ req[r].cmd # "none"
    BY <1>1, <1>4
  <2>2. PICK x : Goes(r, x) /\ x.pc = "queued" /\ x.cmd = req[r].cmd
    BY <1>4, <2>1, GoForms
  <2> QED
    BY <2>2 DEF Keeps
<1> DEFINE Excused == \/ lb'.aborted \/ lb'.cancelled
                      \/ crashes > 0 /\ faults' > 0
<1>5. ASSUME End(r), req[r].pc # "idle", ~Pending(r) \/ Excused
      PROVE  Goal
  <2>1. PICK x : Goes(r, x)
    BY <1>1, <1>5, GoForms
  <2>2. Keeps(r, x)
    BY <1>5 DEF Keeps
  <2> QED
    BY <2>1, <2>2
<1>6. lb' = log_abort \/ lb' = [log_abort EXCEPT !.enq = "fail"] => Excused
  BY LogForms DEF LBAborts
<1>7. lb' = log_cancelled => lb'.cancelled /\ Excused
  BY LogForms DEF LBCancels
<1>23. (lb' = lb /\ ~sandbox) \/ (crashes > 0 /\ faults' > 0) => Excused
  BY DEF PlainRest
<1> HIDE DEF Goal, Excused
<1>8. CASE Dequeue(r)
  <2> DEFINE x == [[req[r] EXCEPT !.loc = "old"] EXCEPT !.pc = "queued"]
  <2>1. req' = [req EXCEPT ![r] = x]
    BY <1>1, <1>8 DEF Dequeue
  <2>2. /\ x \in PlainRequests /\ x.pc = "queued" /\ x.cmd = req[r].cmd /\ x.loc = "old"
        /\ x.limbo = req[r].limbo
    BY <1>1 DEF PlainRequests, PCs
  <2>3. req[r].cmd # "none"
    BY <1>1, <1>8 DEF Dequeue
  <2> HIDE DEF x
  <2>4. Goes(r, x) /\ Keeps(r, x)
    BY <1>1, <2>1, <2>2, <2>3 DEF Goes, Keeps, SubmitPCs, CancelPCs
  <2> QED
    BY <2>4 DEF Goal
<1>9. CASE Begin(r)
  <2> DEFINE waits == req[r].limbo /\ in_limbo
             q == req[r].queued + (IF waits THEN 1 ELSE 0)
             x == [[req[r] EXCEPT !.limbo = waits] EXCEPT !.queued = q]
             y == [x EXCEPT !.pc = "scan"]
             z == [[[y EXCEPT !.n = 0] EXCEPT !.deep = lb.deep]
                      EXCEPT !.shallow = lb.shallow]
  <2>1. /\ At(r, "queued") /\ IsSubmission(r)
        /\ req' = [req EXCEPT ![r] = IF ctok THEN Left(x)
                                     ELSE IF x.cmd = "jobsubmit" THEN y
                                     ELSE z]
        /\ ctok => lb'.cancelled
    BY <1>7, <1>9 DEF Begin
  <2>2. q \in Nat /\ waits \in BOOLEAN /\ (crashes = 0 => ~waits)
    BY <1>1, <1>2 DEF in_limbo
  <2> HIDE DEF waits, q
  <2>3. /\ x \in PlainRequests /\ x.cmd = req[r].cmd /\ x.loc = req[r].loc
        /\ x.limbo = waits
    BY <1>1, <2>2 DEF PlainRequests
  <2> HIDE DEF x
  <2>4. /\ y \in PlainRequests /\ y.cmd = req[r].cmd /\ y.loc = req[r].loc
        /\ y.limbo = waits /\ y.pc = "scan"
    BY <2>3 DEF PlainRequests, PCs
  <2> HIDE DEF y
  <2>5. /\ z \in PlainRequests /\ z.cmd = req[r].cmd /\ z.loc = req[r].loc
        /\ z.limbo = waits /\ z.pc = "scan"
    BY <2>4 DEF PlainRequests, CalmLB, LBs
  <2> HIDE DEF z
  <2>6. req[r].loc = "old" /\ req[r].cmd \in {"jobsubmit", "jobresubmit"}
    BY <1>1, <2>1 DEF At, IsSubmission
  <2>7. CASE ctok
    <3>1. PICK v : v = Left(x)
      OBVIOUS
    <3>2. /\ v \in PlainRequests
          /\ \/ v = NoRequest
             \/ /\ v.cmd = x.cmd /\ v.loc = x.loc /\ v.limbo = x.limbo
                /\ v.pc = "queued"
      BY <2>3, <3>1, LeftPlain
    <3>3. req' = [req EXCEPT ![r] = v] /\ lb'.cancelled
      BY <2>1, <2>7, <3>1
    <3>4. Goes(r, v) /\ Keeps(r, v)
      BY <2>2, <2>3, <2>6, <3>2, <3>3 DEF Goes, Keeps, SubmitPCs
    <3> QED
      BY <3>4 DEF Goal
  <2>8. CASE ~ctok
    <3>1. PICK v \in {y, z} : req' = [req EXCEPT ![r] = v]
      BY <2>1, <2>8
    <3>2. Goes(r, v) /\ Keeps(r, v)
      BY <2>2, <2>4, <2>5, <2>6, <3>1 DEF Goes, Keeps, SubmitPCs
    <3> QED
      BY <3>2 DEF Goal
  <2> QED
    BY <2>7, <2>8
<1>10. CASE LBFails(r)
  <2>1. At(r, "queued") /\ IsSubmission(r) /\ req[r].pc # "idle"
    BY <1>10 DEF LBFails, At
  <2>2. CASE Postpone(r)
    BY <1>4, <2>1, <2>2 DEF Postpone
  <2>3. CASE Unrecoverable(r)
    BY <1>5, <1>6, <2>1, <2>3 DEF Unrecoverable
  <2>4. CASE req[r].limbo /\ End(r)
    <3>1. crashes > 0 /\ faults' > 0
      BY <1>1, <1>10, <2>4 DEF LBFails, Fault, PlainRest
    <3> QED
      BY <1>5, <1>23, <2>1, <2>4, <3>1
  <2>5. CASE req' = [req EXCEPT ![r].limbo = FALSE]
    <3> DEFINE x == [req[r] EXCEPT !.limbo = FALSE]
    <3>1. req' = [req EXCEPT ![r] = x]
      BY <1>1, <2>5
    <3>2. /\ x \in PlainRequests /\ x.pc = req[r].pc /\ x.cmd = req[r].cmd
          /\ x.loc = req[r].loc /\ x.limbo = FALSE
      BY <1>1 DEF PlainRequests
    <3> HIDE DEF x
    <3>3. Goes(r, x) /\ Keeps(r, x)
      BY <1>1, <1>2, <2>1, <3>1, <3>2 DEF Goes, Keeps, At, IsSubmission
    <3> QED
      BY <3>3 DEF Goal
  <2> QED
    BY <1>10, <2>2, <2>3, <2>4, <2>5 DEF LBFails
<1>11. CASE Scan(r)
  <2>1. req[r].pc = "scan" /\ req[r].loc = "old" /\ req[r].cmd \notin {"none", "jobcancel"}
    BY <1>1, <1>11 DEF Scan, At, CancelPCs
  <2>2. CASE ~sandbox
    <3>1. End(r) /\ lb' = lb
      BY <1>11, <2>2 DEF Scan
    <3> QED
      BY <1>5, <1>23, <2>1, <2>2, <3>1
  <2>3. CASE sandbox
    <3>1. PICK f \in IF Names = {} THEN {<<FALSE, 0>>} ELSE Names :
            req' = [req EXCEPT ![r].pc = "token", ![r].k = f[2],
                         ![r].n = IF Names # {} /\ (@ = 0 \/ overwrites)
                                  THEN f[2] ELSE @]
      BY <1>11, <2>3 DEF Scan
    <3>2. f[2] = 0
      <4>1. CASE f = <<FALSE, 0>>
        BY <4>1
      <4>2. ASSUME NEW b, NEW n \in tokens \cup tmps, f = <<b, n>> PROVE f[2] = 0
        <5>1. n = 0 /\ f[2] = n
          BY <4>2 DEF PlainRest
        <5> QED
          BY <5>1
      <4> QED
        BY <3>1, <4>1, <4>2 DEF Names
    <3> DEFINE v == IF Names # {} /\ (req[r].n = 0 \/ overwrites) THEN f[2] ELSE req[r].n
               x == [[[req[r] EXCEPT !.pc = "token"] EXCEPT !.k = f[2]] EXCEPT !.n = v]
    <3>3. v = 0
      BY <3>2, <1>2
    <3>4. req' = [req EXCEPT ![r] = x]
      BY <3>1, <1>1
    <3> HIDE DEF v
    <3>5. /\ x \in PlainRequests /\ x.pc = "token" /\ x.cmd = req[r].cmd
          /\ x.loc = req[r].loc /\ x.limbo = req[r].limbo
      BY <1>1, <3>2, <3>3 DEF PlainRequests, PCs
    <3> HIDE DEF x
    <3>6. Goes(r, x) /\ Keeps(r, x)
      BY <1>1, <2>1, <3>4, <3>5 DEF Goes, Keeps, SubmitPCs
    <3> QED
      BY <3>6 DEF Goal
  <2> QED
    BY <2>2, <2>3
<1>12. CASE TakeToken(r)
  BY <1>12, <1>3 DEF TakeToken, At, SubmitPCs
<1>13. CASE Count(r)
  BY <1>13, <1>3, <1>4, <1>5, <1>6 DEF Count, Unrecoverable, At, SubmitPCs
<1>14. CASE NewToken(r)
  BY <1>14, <1>2, <1>3, <1>4 DEF NewToken, Postpone, At, SubmitPCs
<1>15. CASE RestoreToken(r)
  BY <1>15, <1>3, <1>4 DEF RestoreToken, Postpone, At, SubmitPCs
<1>16. CASE Plan(r)
  BY <1>16, <1>3 DEF Plan, At, SubmitPCs
<1>17. CASE PlanFails(r)
  BY <1>17, <1>4 DEF PlanFails, Postpone, At, SubmitPCs
<1>18. CASE CheckCancel(r)
  BY <1>18, <1>3, <1>5, <1>7 DEF CheckCancel, At, SubmitPCs
<1>19. CASE Deliver(r)
  <2> DEFINE v == req[r].sent + 1
             x == [[req[r] EXCEPT !.pc = "delivered"] EXCEPT !.sent = v]
  <2>1. req' = [req EXCEPT ![r] = x]
    BY <1>1, <1>19 DEF Deliver
  <2>2. v \in Nat
    BY <1>2
  <2> HIDE DEF v
  <2>3. /\ x \in PlainRequests /\ x.pc = "delivered" /\ x.cmd = req[r].cmd
        /\ x.loc = req[r].loc /\ x.limbo = req[r].limbo
    BY <1>1, <2>2 DEF PlainRequests, PCs
  <2> HIDE DEF x
  <2>4. /\ req[r].pc = "deliver"
        /\ out' = Append(out, [kind |-> "Submit", tok |-> 0])
    BY <1>2, <1>19 DEF Deliver, At
  <2>5. Goes(r, x) /\ Keeps(r, x)
    BY <1>1, <2>1, <2>3, <2>4 DEF Goes, Keeps, SubmitPCs, CancelPCs
  <2> QED
    BY <2>5 DEF Goal
<1>20. CASE DeliverFails(r) \/ ProxyExpired(r)
  BY <1>20, <1>5, <1>6 DEF DeliverFails, ProxyExpired, Unrecoverable, At
<1>21. CASE Delivered(r)
  BY <1>21, <1>5 DEF Delivered, At, Pending
<1>22. CASE Cancellation(r)
  <2>1. req[r].pc # "idle" /\ req[r].cmd = "jobcancel" /\ ~Pending(r)
    BY <1>1, <1>2, <1>22 DEF Cancellation, CancelLook, CancelLBFails, CancelForward, CancelFail,
       At, Pending, IsSubmission, SubmitPCs
  <2>2. \/ End(r)
        \/ \E p \in {"forward", "fail"} : req' = [req EXCEPT ![r].pc = p]
    BY <1>22 DEF Cancellation, CancelLook, CancelLBFails, CancelForward, CancelFail
  <2>3. CASE \E p \in {"forward", "fail"} : req' = [req EXCEPT ![r].pc = p]
    <3>1. PICK p \in {"forward", "fail"} : req' = [req EXCEPT ![r].pc = p]
      BY <2>3
    <3>2. p \in PCs /\ p # "idle" /\ p \in CancelPCs /\ req[r].loc = "old"
      BY <1>1, <2>1 DEF CancelPCs, PCs
    <3>3. \E x : Goes(r, x)
      BY <2>1, <3>1, <3>2, GoForms
    <3> QED
      BY <2>1, <3>3 DEF Keeps, Goal
  <2> QED
    BY <1>5, <2>1, <2>2, <2>3
<1> QED
  BY <1>8, <1>9, <1>10, <1>11, <1>12, <1>13, <1>14, <1>15, <1>16, <1>17, <1>18, <1>19,
     <1>20, <1>21, <1>22 DEF Submission

\* What it does to the LB, the sandbox and ICE's input.
LBKeeps ==
  /\ lb' \in LBs
  /\ \/ lb'.aborted \/ lb'.cancelled
     \/ lb'.done = lb.done /\ lb'.aborted = lb.aborted /\ lb'.cancelled = lb.cancelled

\* The log calls keep an outcome.
LEMMA LogKeeps ==
  ASSUME CalmLB, LBSame \/ LBAborts \/ LBCancels
         \/ lb' = [lb EXCEPT !.status = "waiting", !.deep = @ + 1, !.shallow = 0]
  PROVE  LBKeeps
BY LogForms DEF LBKeeps, LBSame, LBAborts, LBCancels

LEMMA ProcessorLeaves ==
  ASSUME PlainReq, PlainRest, CalmLB, NEW r \in Slots,
         Dequeue(r) \/ Submission(r) \/ Cancellation(r)
  PROVE  /\ LBKeeps
         /\ tokens' \subseteq {0} /\ tmps' \subseteq {0}
         /\ ~sandbox' => lb'.aborted \/ lb'.cancelled
         /\ \/ out' = out \/ out' = Append(out, [kind |-> "Cancel", tok |-> 0])
            \/ out' = Append(out, [kind |-> "Submit", tok |-> 0])
         /\ faults' \in Nat /\ (faults' = 0 => faults = 0)
         /\ up /\ UNCHANGED <<rpl, copies, up, crashes, replans>>
<1>1. /\ req[r] \in PlainRequests /\ req[r].k = 0 /\ req[r].n = 0 /\ req[r].rp = FALSE
      /\ tokens \subseteq {0} /\ tmps \subseteq {0} /\ faults \in Nat
      /\ ~sandbox => lb.aborted \/ lb.cancelled
  BY DEF PlainReq, PlainRest, PlainRequests
<1>2. up /\ UNCHANGED <<rpl, copies, up, crashes, replans>>
  BY DEF Dequeue, Submission, Cancellation, Begin, LBFails, Scan, TakeToken, Count, NewToken,
     RestoreToken, Plan, PlanFails, CheckCancel, Deliver, DeliverFails, Delivered,
     ProxyExpired, CancelLook, CancelLBFails, CancelForward, CancelFail, At, counts, cream
<1>3. faults' \in Nat /\ (faults' = 0 => faults = 0)
  <2>1. faults' = faults \/ faults' = faults + 1
    BY DEF Dequeue, Submission, Cancellation, Begin, LBFails, Scan, TakeToken, Count, NewToken,
       RestoreToken, Plan, PlanFails, CheckCancel, Deliver, DeliverFails, Delivered,
       ProxyExpired, CancelLook, CancelLBFails, CancelForward, CancelFail, Fault
  <2> QED
    BY <1>1, <2>1
<1>4. tokens' \subseteq {0} /\ tmps' \subseteq {0}
  BY <1>1 DEF Dequeue, Submission, Cancellation, Begin, LBFails, Scan, TakeToken, Count,
     NewToken, RestoreToken, Plan, PlanFails, CheckCancel, Deliver, DeliverFails, Delivered,
     ProxyExpired, CancelLook, CancelLBFails, CancelForward, CancelFail, Purge, files
<1>5. \/ out' = out \/ out' = Append(out, [kind |-> "Cancel", tok |-> 0])
      \/ out' = Append(out, [kind |-> "Submit", tok |-> 0])
  BY <1>1 DEF Dequeue, Submission, Cancellation, Begin, LBFails, Scan, TakeToken, Count,
     NewToken, RestoreToken, Plan, PlanFails, CheckCancel, Deliver, DeliverFails, Delivered,
     ProxyExpired, CancelLook, CancelLBFails, CancelForward, CancelFail
<1>6. \/ lb' = log_cancelled \/ lb' = log_abort \/ lb' = [log_abort EXCEPT !.enq = "fail"]
      \/ sandbox' = sandbox
  BY DEF Dequeue, Submission, Cancellation, Begin, LBFails, Scan, TakeToken, Count,
     NewToken, RestoreToken, Plan, PlanFails, CheckCancel, Deliver, DeliverFails, Delivered,
     ProxyExpired, CancelLook, CancelLBFails, CancelForward, CancelFail, files
<1>7. \/ lb' = log_cancelled \/ lb' = log_abort \/ lb' = [log_abort EXCEPT !.enq = "fail"]
      \/ lb' = Status("waiting") \/ lb' = lb \/ lb' = [lb EXCEPT !.enq = "ok"]
      \/ lb' = [lb EXCEPT !.status = "ready", !.enq = "start"]
      \/ lb' = [lb EXCEPT !.status = "waiting", !.shallow = @ + 1]
      \/ lb' = [lb EXCEPT !.status = "waiting", !.deep = @ + 1, !.shallow = 0]
  BY DEF Dequeue, Submission, Cancellation, Begin, LBFails, Scan, TakeToken, Count,
     NewToken, RestoreToken, Plan, PlanFails, CheckCancel, Deliver, DeliverFails, Delivered,
     ProxyExpired, CancelLook, CancelLBFails, CancelForward, CancelFail, Unrecoverable,
     Postpone
<1>8. LBKeeps
  BY <1>7, LogForms, LogKeeps DEF Statuses
<1>9. ~sandbox' => lb'.aborted \/ lb'.cancelled
  BY <1>1, <1>6, <1>8, LogForms DEF LBKeeps, LBAborts, LBCancels
<1> QED
  BY <1>2, <1>3, <1>4, <1>5, <1>8, <1>9

\* ICE's input keeps what it has.
LEMMA OutKeeps ==
  ASSUME out \in Seq(Messages),
         \/ out' = out \/ out' = Append(out, [kind |-> "Cancel", tok |-> 0])
         \/ out' = Append(out, [kind |-> "Submit", tok |-> 0])
  PROVE  /\ out' \in Seq(Messages)
         /\ (\E i \in DOMAIN out : Sent(i)) => \E i \in DOMAIN out' : Sent(i)'
<1>1. CASE out' = out \/ out' = Append(out, [kind |-> "Cancel", tok |-> 0])
  BY <1>1, OutForms
<1>2. CASE out' = Append(out, [kind |-> "Submit", tok |-> 0])
  BY <1>2, OutForms
<1> QED
  BY <1>1, <1>2

\* A processor takes the job nowhere without an outcome.
LEMMA ProcessorAccounts ==
  ASSUME PlainInv, NEW r \in Slots, Dequeue(r) \/ Submission(r) \/ Cancellation(r)
  PROVE  PlainInv'
<1> USE DEF PlainInv
<1>1. PICK x : Goes(r, x) /\ Keeps(r, x)
  BY ProcessorPlain
<1>2. /\ LBKeeps
      /\ tokens' \subseteq {0} /\ tmps' \subseteq {0}
      /\ ~sandbox' => lb'.aborted \/ lb'.cancelled
      /\ \/ out' = out \/ out' = Append(out, [kind |-> "Cancel", tok |-> 0])
         \/ out' = Append(out, [kind |-> "Submit", tok |-> 0])
      /\ faults' \in Nat /\ (faults' = 0 => faults = 0)
      /\ up /\ UNCHANGED <<rpl, copies, up, crashes, replans>>
  BY ProcessorLeaves
<1>3. /\ out' \in Seq(Messages)
      /\ (\E i \in DOMAIN out : Sent(i)) => \E i \in DOMAIN out' : Sent(i)'
  BY <1>2, OutKeeps DEF PlainRest
<1>4. /\ req \in [Slots -> PlainRequests] /\ req' \in [Slots -> PlainRequests]
      /\ \A s \in Slots : req'[s] = IF s = r THEN x ELSE req[s]
  BY <1>1 DEF PlainReq, Goes
<1>5. ASSUME NEW s \in Slots PROVE InPlace(req[s])'
  <2>1. CASE s # r
    BY <1>2, <1>4, <2>1 DEF PlainReq, InPlace
  <2>2. CASE s = r /\ x = NoRequest
    BY <1>4, <2>2 DEF NoRequest, InPlace
  <2>3. CASE s = r /\ x # NoRequest
    <3>1. x.cmd \in {"none", "jobsubmit", "jobresubmit", "jobcancel"}
      BY <1>1 DEF Goes, PlainRequests
    <3> QED
      BY <1>1, <1>2, <1>4, <2>3, <3>1 DEF Goes, InPlace
  <2> QED
    BY <2>1, <2>2, <2>3
<1>6. PlainReq'
  BY <1>4, <1>5 DEF PlainReq
<1>7. PlainRest' /\ CalmLB'
  BY <1>2, <1>3 DEF PlainRest, CalmLB, LBKeeps
<1>8. ASSUME (crashes = 0 \/ faults = 0)' PROVE Accounted'
  <2>1. Accounted /\ ~(crashes > 0 /\ faults' > 0)
    BY <1>2, <1>8 DEF PlainRest
  <2>2. CASE lb'.aborted \/ lb'.cancelled
    BY <2>2 DEF Accounted
  <2>3. CASE lb.aborted \/ lb.cancelled \/ lb.done = "ok"
    BY <1>2, <2>3 DEF Accounted, LBKeeps
  <2>4. CASE \E i \in DOMAIN out : Sent(i)
    BY <1>3, <2>4 DEF Accounted
  <2>5. CASE copies # <<>>
    BY <1>2, <2>5 DEF Accounted
  <2>6. ASSUME NEW s \in Slots, Live(s), lb'.done = lb.done PROVE Accounted'
    <3>1. CASE s # r
      <4>1. Live(s)'
        BY <1>2, <1>4, <2>6, <3>1 DEF Live, Pending, IsSubmission
      <4> QED
        BY <4>1 DEF Accounted
    <3>2. CASE s = r /\ x.cmd = req[r].cmd /\ x.pc # "delivered"
      <4>1. x.cmd \in {"jobsubmit", "jobresubmit"}
        BY <2>6, <3>2 DEF Live, Pending, IsSubmission
      <4>2. x.pc # "idle"
        BY <1>1, <4>1 DEF Goes, NoRequest
      <4>3. Live(s)'
        BY <1>4, <2>6, <3>2, <4>1, <4>2 DEF Live, Pending, IsSubmission
      <4> QED
        BY <4>3 DEF Accounted
    <3>3. CASE s = r /\ out' = Append(out, [kind |-> "Submit", tok |-> 0])
      <4>1. \E i \in DOMAIN out' : Sent(i)'
        BY <3>3, OutForms DEF PlainRest
      <4> QED
        BY <4>1 DEF Accounted
    <3> QED
      BY <1>1, <2>1, <2>2, <2>6, <3>1, <3>2, <3>3 DEF Keeps, Live
  <2> QED
    BY <1>2, <2>1, <2>2, <2>3, <2>4, <2>5, <2>6 DEF Accounted, LBKeeps
<1> QED
  BY <1>6, <1>7, <1>8

\* What follows from the delivery of a request to the workload manager.
LEMMA DeliveryPlain ==
  ASSUME PlainReq, Free # {}, NEW cmd \in {"jobresubmit", "jobcancel"},
         req' = deliver(req, cmd, 0), UNCHANGED <<up, crashes>>
  PROVE  /\ PlainReq'
         /\ \A s \in Slots : Pending(s) => req'[s] = req[s]
         /\ cmd = "jobresubmit" => \E r \in Slots : Live(r)'
<1>1. PICK r \in Free : req' = [req EXCEPT ![r] = Request(cmd, 0)]
  BY DeliverIsFree
<1>2. r \in Slots /\ req[r].loc = "none"
  BY DEF Free
<1>3. req \in [Slots -> PlainRequests]
  BY DEF PlainReq
<1> DEFINE y1 == [NoRequest EXCEPT !.cmd = cmd]
           y2 == [y1 EXCEPT !.loc = "new"]
           y3 == [y2 EXCEPT !.n0 = 0]
           x  == [y3 EXCEPT !.n = 0]
<1>4. Request(cmd, 0) = x
  BY DEF Request
<1>5. y1 \in PlainRequests /\ y1.cmd = cmd /\ y1.pc = "idle" /\ y1.limbo = FALSE
  BY DEF NoRequest, PlainRequests, PCs
<1> HIDE DEF y1
<1>6. /\ y2 \in PlainRequests /\ y2.cmd = cmd /\ y2.loc = "new" /\ y2.pc = "idle"
      /\ y2.limbo = FALSE
  BY <1>5 DEF PlainRequests
<1> HIDE DEF y2
<1>7. /\ y3 \in PlainRequests /\ y3.cmd = cmd /\ y3.loc = "new" /\ y3.pc = "idle"
      /\ y3.limbo = FALSE
  BY <1>6 DEF PlainRequests
<1> HIDE DEF y3
<1>8. /\ x \in PlainRequests /\ x.cmd = cmd /\ x.loc = "new" /\ x.pc = "idle"
      /\ x.limbo = FALSE
  BY <1>7 DEF PlainRequests
<1> HIDE DEF x
<1>9. /\ req' \in [Slots -> PlainRequests]
      /\ \A s \in Slots : req'[s] = IF s = r THEN x ELSE req[s]
  BY <1>1, <1>2, <1>3, <1>4, <1>8
<1>10. ~Pending(r)
  BY <1>2 DEF PlainReq, InPlace, Pending, IsSubmission
<1>11. ASSUME NEW s \in Slots PROVE InPlace(req[s])'
  <2>1. CASE s # r
    BY <1>9, <2>1 DEF PlainReq, InPlace
  <2>2. CASE s = r
    BY <1>8, <1>9, <2>2 DEF InPlace, SubmitPCs, CancelPCs
  <2> QED
    BY <2>1, <2>2
<1>12. cmd = "jobresubmit" => Live(r)'
  BY <1>2, <1>8, <1>9 DEF Live, Pending, IsSubmission
<1> QED
  BY <1>2, <1>9, <1>10, <1>11, <1>12 DEF PlainReq

\* Who has the job keeps it.
LEMMA SameAccount ==
  ASSUME Accounted, lb'.aborted = lb.aborted, lb'.cancelled = lb.cancelled,
         lb'.done = lb.done, up' = up,
         \A s \in Slots : Pending(s) => req'[s] = req[s],
         (\E i \in DOMAIN out : Sent(i)) => \E i \in DOMAIN out' : Sent(i)',
         copies # <<>> => copies' # <<>>
  PROVE  Accounted'
<1>1. ASSUME NEW s \in Slots, Live(s) PROVE Live(s)'
  BY <1>1 DEF Live, Pending, IsSubmission
<1> QED
  BY <1>1 DEF Accounted

\* What there is on CREAM.
LEMMA PlainCopy ==
  ASSUME PlainRest, NEW c \in DOMAIN copies
  PROVE  /\ c = 1 /\ Len(copies) = 1 /\ DOMAIN copies = {1} /\ copies # <<>>
         /\ copies[c] \in Copies /\ copies \in Seq(Copies) /\ Known(copies) # {}
<1>1. copies \in Seq(Copies) /\ Len(copies) \in {0, 1} /\ DOMAIN copies = 1 .. Len(copies)
  BY LenProperties DEF PlainRest
<1>2. Len(copies) = 1 /\ DOMAIN copies = {1} /\ c = 1
  BY <1>1
<1>3. copies # <<>>
  BY <1>2
<1>4. copies[c] \in Copies
  BY <1>1, <1>2, ElementOfSeq
<1>5. c \in Known(copies)
  BY <1>4 DEF Known, Copies
<1> QED
  BY <1>1, <1>2, <1>3, <1>4, <1>5

\* The job leaves ICE with an outcome or for a resubmission.
PlainAnswers ==
  /\ lb' \in LBs
  /\ \/ /\ req' = req /\ (lb'.aborted \/ lb'.cancelled \/ lb'.done = "ok")
        /\ sandbox' = sandbox \/ lb'.aborted \/ lb'.cancelled
     \/ /\ Free # {} /\ req' = deliver(req, "jobresubmit", 0) /\ sandbox' = sandbox
  /\ (lb.aborted => lb'.aborted) /\ (lb.cancelled => lb'.cancelled)

LEMMA AnswerAccounts ==
  ASSUME PlainInv, PlainAnswers, UNCHANGED <<rpl, up, crashes>>,
         tokens' \subseteq tokens, tmps' \subseteq tmps, faults' \in Nat,
         out' \in Seq(Messages), copies' = <<>>
  PROVE  PlainInv'
<1> USE DEF PlainInv
<1>1. PlainReq' /\ Accounted'
  <2>1. CASE req' = req /\ (lb'.aborted \/ lb'.cancelled \/ lb'.done = "ok")
    BY <2>1 DEF PlainReq, InPlace, Accounted
  <2>2. CASE Free # {} /\ req' = deliver(req, "jobresubmit", 0)
    <3>1. PlainReq' /\ \E r \in Slots : Live(r)'
      BY <2>2, DeliveryPlain
    <3> QED
      BY <3>1 DEF Accounted
  <2> QED
    BY <2>1, <2>2 DEF PlainAnswers
<1>2. ~sandbox' => lb'.aborted \/ lb'.cancelled
  <2>1. CASE lb'.aborted \/ lb'.cancelled
    BY <2>1
  <2>2. CASE ~lb'.aborted /\ ~lb'.cancelled
    BY <2>2 DEF PlainAnswers, PlainRest
  <2> QED
    BY <2>1, <2>2
<1>3. copies' \in Seq(Copies) /\ Len(copies') = 0
  BY EmptySeq
<1>4. PlainRest' /\ CalmLB'
  <2>1. tokens' \subseteq {0} /\ tmps' \subseteq {0}
    BY DEF PlainRest
  <2> QED
    BY <1>2, <1>3, <2>1 DEF PlainRest, CalmLB, PlainAnswers
<1> QED
  BY <1>1, <1>4

\* A copy that ICE has made, or CREAM has moved on, accounts for the job.
LEMMA CopyAccounts ==
  ASSUME PlainInv, UNCHANGED <<req, rpl, up, crashes, faults, tmps, sandbox>>,
         tokens' \subseteq tokens, LBSame, out' \in Seq(Messages),
         copies' \in Seq(Copies), Len(copies') = 1
  PROVE  PlainInv'
<1> USE DEF PlainInv
<1>1. copies' # <<>>
  BY EmptySeq
<1>2. PlainReq' /\ Accounted'
  BY <1>1 DEF PlainReq, InPlace, Accounted
<1>3. PlainRest' /\ CalmLB'
  <2>1. tokens' \subseteq {0} /\ (~sandbox' => lb'.aborted \/ lb'.cancelled)
    BY DEF PlainRest, LBSame
  <2> QED
    BY <2>1 DEF PlainRest, CalmLB, LBSame
<1> QED
  BY <1>2, <1>3

\* ICE never forgets the job, and has one copy of it: it takes a job only when it
\* knows none, and knows every copy that was not replaced by a reschedule.
LEMMA IceAccounts ==
  ASSUME PlainInv, ICE
  PROVE  PlainInv'
<1> USE DEF PlainInv
<1>1. out \in Seq(Messages) /\ faults \in Nat /\ faults + 1 \in Nat
  BY DEF PlainRest
<1>2. ASSUME NEW i \in DOMAIN out PROVE out[i] \in Messages
  BY <1>1, ElementOfSeq, LenProperties
<1>3. ASSUME NEW i \in DOMAIN out, out' = RemoveAt(out, i)
      PROVE  /\ out' \in Seq(Messages)
             /\ ~Sent(i) => ((\E g \in DOMAIN out : Sent(g)) => \E h \in DOMAIN out' : Sent(h)')
  <2>1. out' \in Seq(Messages)
    BY <1>1, <1>3, RemovedAt
  <2>2. \A g \in DOMAIN out : g # i => \E h \in DOMAIN out' : out'[h] = out[g]
    BY <1>1, <1>3, RemovedRest
  <2> QED
    BY <2>1, <2>2 DEF Sent
<1>4. ASSUME NEW i \in DOMAIN out, IceSubmit(i) PROVE PlainInv'
  <2>1. /\ out' = RemoveAt(out, i) /\ out[i].tok = 0
        /\ UNCHANGED <<tokens, tmps, sandbox, ctok, rpl, up, crashes>>
    BY <1>2, <1>4 DEF IceSubmit, files, counts, Messages
  <2>2. out' \in Seq(Messages)
    BY <1>3, <2>1
  <2>3. CASE Known(copies) # {}
    <3>1. UNCHANGED <<copies, lb, req, faults>>
      BY <1>4, <2>3 DEF IceSubmit
    <3>2. PICK c \in DOMAIN copies : TRUE
      BY <2>3 DEF Known
    <3>3. copies \in Seq(Copies) /\ Len(copies) = 1
      BY PlainCopy
    <3>4. LBSame
      BY <3>1, LogForms
    <3> QED
      BY <2>1, <2>2, <3>1, <3>3, <3>4, CopyAccounts
  <2>4. CASE Known(copies) = {}
    <3>1. copies = <<>>
      <4>1. DOMAIN copies = {}
        BY <2>4, PlainCopy
      <4>2. copies \in Seq(Copies) /\ Len(copies) \in {0, 1}
        BY DEF PlainRest
      <4> QED
        BY <4>1, <4>2, EmptySeq
    <3>2. CASE SubmitOk(copies, 0)
      <4> DEFINE x == [tok |-> 0, st |-> "queued", known |-> TRUE]
      <4>1. x \in Copies
        BY DEF Copies
      <4>2. /\ copies' = Append(<<>>, x) /\ req' = req /\ faults' = faults
            /\ lb' = Status("scheduled")
        BY <3>1, <3>2 DEF SubmitOk
      <4> HIDE DEF x
      <4>3. Append(<<>>, x) \in Seq(Copies) /\ Len(Append(<<>>, x)) = 1
        BY <4>1, EmptySeq, AppendProperties
      <4>4. LBSame
        BY <4>2, LogForms DEF Statuses
      <4> QED
        BY <2>1, <2>2, <4>2, <4>3, <4>4, CopyAccounts
    <3>3. CASE SubmitFails(copies)
      <4>1. /\ copies' = <<>> /\ faults' = faults + 1
            /\ \/ /\ Free # {} /\ req' = deliver(req, "jobresubmit", 0)
                  /\ lb' = [lb EXCEPT !.status = "waiting", !.done = "failed"]
               \/ lb' = log_abort /\ req' = req
        BY <3>1, <3>3 DEF SubmitFails, Fault
      <4>2. PlainAnswers
        <5>1. CASE lb' = log_abort /\ req' = req
          BY <2>1, <5>1, LogForms DEF PlainAnswers, LBAborts, log_abort, CalmLB, LBs
        <5>2. CASE /\ Free # {} /\ req' = deliver(req, "jobresubmit", 0)
                   /\ lb' = [lb EXCEPT !.status = "waiting", !.done = "failed"]
          BY <2>1, <5>2, OutcomeForms DEF PlainAnswers
        <5> QED
          BY <4>1, <5>1, <5>2
      <4> QED
        BY <1>1, <2>1, <2>2, <4>1, <4>2, AnswerAccounts
    <3> QED
      BY <1>4, <2>1, <2>4, <3>2, <3>3 DEF IceSubmit
  <2> QED
    BY <2>3, <2>4
<1>5. ASSUME NEW i \in DOMAIN out PROVE ~IceReschedule(i)
  BY <1>2 DEF IceReschedule, Messages
<1>6. ASSUME NEW i \in DOMAIN out, IceCancel(i) PROVE PlainInv'
  <2>1. /\ ~Sent(i) /\ out' = RemoveAt(out, i)
        /\ UNCHANGED <<lb, tokens, tmps, sandbox, ctok, rpl, up, crashes, faults, req>>
    BY <1>6 DEF IceCancel, Sent, files, counts
  <2>2. /\ copies' \in Seq(Copies) /\ Len(copies') = Len(copies)
        /\ copies' = <<>> <=> copies = <<>>
    BY <1>6, CancelCopies DEF IceCancel, PlainRest
  <2>3. /\ out' \in Seq(Messages)
        /\ (\E g \in DOMAIN out : Sent(g)) => \E h \in DOMAIN out' : Sent(h)'
    BY <1>3, <2>1
  <2>4. Accounted => Accounted'
    BY <2>1, <2>2, <2>3, SameAccount
  <2>5. PlainReq' /\ PlainRest' /\ CalmLB'
    BY <2>1, <2>2, <2>3 DEF PlainReq, InPlace, PlainRest, CalmLB
  <2> QED
    BY <2>1, <2>4, <2>5
<1>7. ASSUME NEW c \in DOMAIN copies, IceOutcome(c) PROVE PlainInv'
  <2>1. /\ copies' = RemoveAt(copies, c)
        /\ UNCHANGED <<rpl, out, up, crashes>>
    BY <1>7 DEF IceOutcome, counts
  <2>2. c = 1 /\ Len(copies) = 1 /\ copies \in Seq(Copies)
    BY PlainCopy
  <2>3. copies' = <<>>
    <3>1. copies' \in Seq(Copies) /\ Len(copies') = 0
      BY <2>1, <2>2, RemovedAt
    <3> QED
      BY <3>1, EmptySeq
  <2>4. PlainAnswers
    <3>1. CASE /\ lb' = [lb EXCEPT !.status = "done", !.done = "ok"]
               /\ UNCHANGED <<req, files>>
      BY <3>1, OutcomeForms DEF PlainAnswers, files
    <3>2. CASE /\ Free # {} /\ lb' = [lb EXCEPT !.status = "waiting", !.done = "failed"]
               /\ req' = deliver(req, "jobresubmit", 0) /\ UNCHANGED files
      BY <3>2, OutcomeForms DEF PlainAnswers, files
    <3>3. CASE lb' = [log_abort EXCEPT !.done = "failed"] /\ UNCHANGED <<req, files>>
      BY <3>3, OutcomeForms DEF PlainAnswers, files, LBAborts, log_abort, CalmLB, LBs
    <3>4. CASE lb' = log_cancelled /\ req' = req
      BY <3>4, LogForms DEF PlainAnswers, LBCancels
    <3> QED
      BY <1>7, <3>1, <3>2, <3>3, <3>4 DEF IceOutcome
  <2>5. tokens' \subseteq tokens /\ tmps' \subseteq tmps /\ faults' \in Nat
    BY <1>1, <1>7 DEF IceOutcome, files, Purge, Fault
  <2>6. out' \in Seq(Messages)
    BY <1>1, <2>1
  <2> QED
    BY <2>1, <2>3, <2>4, <2>5, <2>6, AnswerAccounts
<1> QED
  BY <1>4, <1>5, <1>6, <1>7 DEF ICE

\* CREAM keeps the copy it has.
LEMMA CreamAccounts ==
  ASSUME PlainInv, CREAM
  PROVE  PlainInv'
<1> USE DEF PlainInv
<1>1. PICK c \in DOMAIN copies : Start(c) \/ CopyFails(c) \/ CopyEnds(c) \/ Vanish(c)
  BY DEF CREAM
<1>2. /\ c = 1 /\ Len(copies) = 1 /\ copies \in Seq(Copies) /\ copies[c] \in Copies
      /\ copies[c].known = TRUE
  BY PlainCopy DEF Copies
<1>3. ~Vanish(c)
  BY <1>2 DEF Vanish
<1>4. /\ UNCHANGED <<req, rpl, up, crashes, faults, tmps, sandbox, out>>
      /\ tokens' \subseteq tokens /\ (lb' = lb \/ lb' = Status("running"))
      /\ \E s \in {"running", "failed", "ok"} : copies' = [copies EXCEPT ![c].st = s]
  BY <1>1, <1>3 DEF Start, CopyFails, CopyEnds, files, counts
<1>5. copies' \in Seq(Copies) /\ Len(copies') = 1
  <2>1. PICK s \in {"running", "failed", "ok"} : copies' = [copies EXCEPT ![c].st = s]
    BY <1>4
  <2> DEFINE x == [copies[c] EXCEPT !.st = s]
  <2>2. c \in 1 .. Len(copies)
    BY <1>2
  <2>3. x \in Copies
    BY <1>2 DEF Copies
  <2>4. copies' = [copies EXCEPT ![c] = x]
    BY <2>1
  <2> HIDE DEF x
  <2>5. copies' \in Seq(Copies) /\ Len(copies') = Len(copies)
    BY <1>2, <2>2, <2>3, <2>4, ExceptSeq
  <2> QED
    BY <1>2, <2>5
<1>6. LBSame
  BY <1>4, LogForms DEF Statuses
<1>7. out' \in Seq(Messages)
  BY <1>4 DEF PlainRest
<1> QED
  BY <1>4, <1>5, <1>6, <1>7, CopyAccounts

\* The user's cancellation is one more request.
LEMMA UserAccounts ==
  ASSUME PlainInv, UserCancels
  PROVE  PlainInv'
<1> USE DEF PlainInv
<1>1. /\ Free # {} /\ req' = deliver(req, "jobcancel", 0)
      /\ UNCHANGED <<tokens, tmps, sandbox, lb, rpl, out, copies, up, crashes, faults>>
  BY DEF UserCancels, files, cream
<1>2. PlainReq' /\ \A s \in Slots : Pending(s) => req'[s] = req[s]
  BY <1>1, DeliveryPlain
<1>3. Accounted => Accounted'
  <2>1. (\E i \in DOMAIN out : Sent(i)) => \E i \in DOMAIN out' : Sent(i)'
    BY <1>1 DEF Sent
  <2> QED
    BY <1>1, <1>2, <2>1, SameAccount
<1>4. PlainRest' /\ CalmLB'
  BY <1>1 DEF PlainRest, CalmLB
<1> QED
  BY <1>1, <1>2, <1>3, <1>4

\* The files of the requests survive a crash.
LEMMA OnDiskPlain ==
  ASSUME NEW x \in PlainRequests
  PROVE  /\ OnDisk(x) \in PlainRequests /\ OnDisk(x).cmd = x.cmd /\ OnDisk(x).loc = x.loc
         /\ OnDisk(x).pc = "idle" /\ OnDisk(x).limbo = FALSE
<1> DEFINE y1 == [NoRequest EXCEPT !.cmd = x.cmd]
           y2 == [y1 EXCEPT !.loc = x.loc]
           y3 == [y2 EXCEPT !.n0 = x.n0]
           y4 == [y3 EXCEPT !.n = x.n0]
           y5 == [y4 EXCEPT !.sent = x.sent]
<1>1. OnDisk(x) = y5
  BY DEF OnDisk
<1>2. /\ x.cmd \in {"none", "jobsubmit", "jobresubmit", "jobcancel"}
      /\ x.loc \in {"none", "new", "old"} /\ x.n0 = 0 /\ x.sent \in Nat
  BY DEF PlainRequests
<1>3. y1 \in PlainRequests /\ y1.cmd = x.cmd /\ y1.pc = "idle" /\ y1.limbo = FALSE
  BY <1>2 DEF NoRequest, PlainRequests, PCs
<1> HIDE DEF y1
<1>4. /\ y2 \in PlainRequests /\ y2.cmd = x.cmd /\ y2.loc = x.loc /\ y2.pc = "idle"
      /\ y2.limbo = FALSE
  BY <1>2, <1>3 DEF PlainRequests
<1> HIDE DEF y2
<1>5. /\ y3 \in PlainRequests /\ y3.cmd = x.cmd /\ y3.loc = x.loc /\ y3.pc = "idle"
      /\ y3.limbo = FALSE
  BY <1>2, <1>4 DEF PlainRequests
<1> HIDE DEF y3
<1>6. /\ y4 \in PlainRequests /\ y4.cmd = x.cmd /\ y4.loc = x.loc /\ y4.pc = "idle"
      /\ y4.limbo = FALSE
  BY <1>2, <1>5 DEF PlainRequests
<1> HIDE DEF y4
<1>7. /\ y5 \in PlainRequests /\ y5.cmd = x.cmd /\ y5.loc = x.loc /\ y5.pc = "idle"
      /\ y5.limbo = FALSE
  BY <1>2, <1>6 DEF PlainRequests
<1> QED
  BY <1>1, <1>7

LEMMA CrashAccounts ==
  ASSUME PlainInv, Crash
  PROVE  PlainInv'
<1> USE DEF PlainInv
<1>1. /\ ~up' /\ crashes' = crashes + 1 /\ rpl' = [pc |-> "idle", tmp |-> FALSE, t |-> 0]
      /\ req' = [r \in Slots |-> OnDisk(req[r])]
      /\ UNCHANGED <<tokens, tmps, sandbox, lb, out, copies, faults>>
  BY DEF Crash, files, cream
<1>2. ASSUME NEW s \in Slots
      PROVE  /\ req'[s] \in PlainRequests /\ req'[s].cmd = req[s].cmd
             /\ req'[s].loc = req[s].loc /\ req'[s].pc = "idle" /\ req'[s].limbo = FALSE
  <2>1. req[s] \in PlainRequests /\ req'[s] = OnDisk(req[s])
    BY <1>1 DEF PlainReq
  <2> QED
    BY <2>1, OnDiskPlain
<1>3. PlainReq'
  <2>1. req' \in [Slots -> PlainRequests]
    BY <1>1, <1>2
  <2>2. ASSUME NEW s \in Slots PROVE InPlace(req[s])'
    BY <1>1, <1>2 DEF InPlace, PlainReq, SubmitPCs, CancelPCs
  <2> QED
    BY <2>1, <2>2 DEF PlainReq
<1>4. PlainRest' /\ CalmLB'
  BY <1>1 DEF PlainRest, CalmLB
<1>5. Accounted => Accounted'
  <2>1. ASSUME NEW s \in Slots, Live(s) PROVE Live(s)'
    BY <1>1, <1>2, <2>1 DEF Live, Pending, IsSubmission
  <2> QED
    BY <1>1, <2>1 DEF Accounted, Sent
<1>6. (crashes = 0 \/ faults = 0)' => crashes = 0 \/ faults = 0
  BY <1>1 DEF PlainRest
<1> QED
  BY <1>3, <1>4, <1>5, <1>6

\* What recovery() makes of a request.
LEMMA RecoveredPlain ==
  ASSUME NEW x \in PlainRequests, NEW answers \in BOOLEAN, x.loc # "none"
  PROVE  LET y == Recovered(x, answers) IN
         /\ y \in PlainRequests /\ y.cmd = x.cmd /\ y.loc = "old"
         /\ \/ y.pc = "queued"
            \/ x.cmd = "jobsubmit" /\ lb.done = "failed" /\ y.pc = x.pc
<1> DEFINE w == /\ x.cmd # "jobcancel"
                /\ answers => lb.status # "waiting" /\ in_limbo
           z1 == [x EXCEPT !.loc = "old"]
           z2 == [z1 EXCEPT !.pc = "queued"]
           z3 == [z2 EXCEPT !.limbo = w]
<1>1. \/ Recovered(x, answers) = z3
      \/ Recovered(x, answers) = z1 /\ x.cmd = "jobsubmit" /\ lb.done = "failed"
  BY DEF Recovered
<1>2. w \in BOOLEAN
  OBVIOUS
<1> HIDE DEF w
<1>3. z1 \in PlainRequests /\ z1.cmd = x.cmd /\ z1.loc = "old" /\ z1.pc = x.pc
  BY DEF PlainRequests
<1> HIDE DEF z1
<1>4. z2 \in PlainRequests /\ z2.cmd = x.cmd /\ z2.loc = "old" /\ z2.pc = "queued"
  BY <1>3 DEF PlainRequests, PCs
<1> HIDE DEF z2
<1>5. z3 \in PlainRequests /\ z3.cmd = x.cmd /\ z3.loc = "old" /\ z3.pc = "queued"
  BY <1>2, <1>4 DEF PlainRequests
<1> HIDE DEF z3
<1> QED
  BY <1>1, <1>3, <1>5

LEMMA RestartAccounts ==
  ASSUME PlainInv, Restart
  PROVE  PlainInv'
<1> USE DEF PlainInv
<1>1. /\ ~up /\ up'
      /\ UNCHANGED <<tokens, tmps, sandbox, lb, rpl, out, copies, crashes, faults>>
  BY DEF Restart, cream
<1>2. PICK answers \in BOOLEAN : req' = [r \in Slots |-> Recovered(req[r], answers)]
  BY DEF Restart
<1>3. ASSUME NEW s \in Slots
      PROVE  /\ req'[s] \in PlainRequests /\ req'[s].cmd = req[s].cmd
             /\ req[s].loc = "none" => req'[s] = req[s]
             /\ req[s].loc # "none" =>
                  /\ req'[s].loc = "old"
                  /\ \/ req'[s].pc = "queued"
                     \/ req[s].cmd = "jobsubmit" /\ lb.done = "failed" /\ req'[s].pc = req[s].pc
  <2>1. req[s] \in PlainRequests /\ req'[s] = Recovered(req[s], answers)
    BY <1>2 DEF PlainReq
  <2>2. CASE req[s].loc = "none"
    BY <2>1, <2>2 DEF Recovered
  <2>3. CASE req[s].loc # "none"
    BY <2>1, <2>3, RecoveredPlain
  <2> QED
    BY <2>2, <2>3
<1>4. PlainReq'
  <2>1. req' \in [Slots -> PlainRequests]
    BY <1>2, <1>3
  <2>2. ASSUME NEW s \in Slots PROVE InPlace(req[s])'
    <3>1. crashes' # 0
      BY <1>1 DEF PlainRest
    <3>2. InPlace(req[s])
      BY DEF PlainReq
    <3> QED
      BY <1>3, <3>1, <3>2 DEF InPlace, SubmitPCs, CancelPCs
  <2> QED
    BY <2>1, <2>2 DEF PlainReq
<1>5. PlainRest' /\ CalmLB'
  BY <1>1 DEF PlainRest, CalmLB
<1>6. Accounted => Accounted'
  <2>1. ASSUME NEW s \in Slots, Live(s) PROVE Live(s)'
    <3>1. req[s].loc # "none"
      BY <2>1 DEF PlainReq, InPlace, Live, Pending, IsSubmission
    <3> QED
      BY <1>1, <1>3, <2>1, <3>1 DEF Live, Pending, IsSubmission
  <2> QED
    BY <1>1, <2>1 DEF Accounted, Sent
<1> QED
  BY <1>1, <1>4, <1>5, <1>6

\* The job as it is submitted.
LEMMA PlainInit ==
  ASSUME Init
  PROVE  PlainInv
<1> DEFINE x == Request("jobsubmit", 0)
<1>1. req = [s \in Slots |-> IF s = 1 THEN x ELSE NoRequest] /\ 1 \in Slots
  BY JobAssumption DEF Init
<1>2. /\ req \in [Slots -> CalmRequests] /\ CalmLB
      /\ \A s \in Slots : /\ req[s].loc = "none" <=> req[s].cmd = "none"
                          /\ req[s].pc = "idle" <=> req[s].loc # "old"
                          /\ req[s].cmd = "jobcancel" => req[s].pc \in CancelPCs
                          /\ IsSubmission(s) => req[s].pc \in SubmitPCs
  BY JobInit DEF JobInv, Calm, CalmInv, CalmReq, Init
<1>3. NoRequest \in PlainRequests
  BY DEF NoRequest, PlainRequests, PCs
<1>4. x \in PlainRequests
  <2> DEFINE y1 == [NoRequest EXCEPT !.cmd = "jobsubmit"]
             y2 == [y1 EXCEPT !.loc = "new"]
             y3 == [y2 EXCEPT !.n0 = 0]
             y4 == [y3 EXCEPT !.n = 0]
  <2>1. x = y4
    BY DEF Request
  <2>2. y1 \in PlainRequests
    BY <1>3 DEF PlainRequests
  <2> HIDE DEF y1
  <2>3. y2 \in PlainRequests
    BY <2>2 DEF PlainRequests
  <2> HIDE DEF y2
  <2>4. y3 \in PlainRequests
    BY <2>3 DEF PlainRequests
  <2> HIDE DEF y3
  <2>5. y4 \in PlainRequests
    BY <2>4 DEF PlainRequests
  <2> QED
    BY <2>1, <2>5
<1>5. req \in [Slots -> PlainRequests]
  <2> HIDE DEF x
  <2> QED
    BY <1>1, <1>3, <1>4
<1>6. \A s \in Slots : req[s].limbo = FALSE
  BY <1>2 DEF CalmRequests
<1>7. PlainReq
  BY <1>2, <1>6, <1>5 DEF PlainReq, InPlace, IsSubmission
<1>8. PlainRest
  BY EmptySeq DEF Init, PlainRest
<1>9. Accounted
  <2>1. req[1] = x /\ x.cmd = "jobsubmit" /\ x.loc = "new" /\ x.pc = "idle"
    BY <1>1 DEF Request, NoRequest
  <2>2. Live(1)
    BY <2>1 DEF Live, Pending, IsSubmission, Init
  <2> QED
    BY <1>1, <2>2 DEF Accounted
<1> QED
  BY <1>2, <1>7, <1>8, <1>9 DEF PlainInv

\* The inductive invariant for a job that may meet crashes.
CrashInv == replans \in Nat /\ (replans = 0 => PlainInv)

LEMMA CrashNext ==
  ASSUME CrashInv, [Next]_vars
  PROVE  CrashInv'
<1>1. replans' \in Nat /\ replans <= replans'
  BY CountsRise DEF CrashInv
<1>2. ASSUME replans' = 0 PROVE PlainInv'
  <2>1. PlainInv /\ replans = 0 /\ rpl.pc = "idle"
    BY <1>1, <1>2 DEF CrashInv, PlainInv, PlainRest
  <2>2. ~Replanner
    BY <1>2, <2>1 DEF Replanner, ReplanLook, ReplanRename, ReplanLog, ReplanDeliver,
                      ReplanDeliverFails, ReplanDelivered
  <2>3. CASE \E r \in Slots : Dequeue(r) \/ Submission(r) \/ Cancellation(r)
    BY <2>1, <2>3, ProcessorAccounts
  <2>4. CASE ICE \/ CREAM
    BY <2>1, <2>4, IceAccounts, CreamAccounts
  <2>5. CASE UserCancels \/ Crash \/ Restart
    BY <2>1, <2>5, UserAccounts, CrashAccounts, RestartAccounts
  <2>6. CASE UNCHANGED vars
    <3>1. UNCHANGED <<req, tokens, tmps, sandbox, lb, rpl, out, copies, up, crashes, faults>>
      BY <2>6 DEF vars
    <3> QED
      BY <2>1, <3>1 DEF PlainInv, PlainReq, InPlace, PlainRest, CalmLB, Accounted, Live,
                        Pending, Sent, IsSubmission
  <2> QED
    BY <2>2, <2>3, <2>4, <2>5, <2>6 DEF Next
<1> QED
  BY <1>1, <1>2 DEF CrashInv

\* What holds of a job that is not replanned, however often the workload manager
\* crashes.
THEOREM CrashInvariance == Spec => []CrashInv
<1>1. Init => CrashInv
  <2>1. Init => replans = 0
    BY DEF Init
  <2> QED
    BY <2>1, PlainInit DEF CrashInv
<1>2. CrashInv /\ [Next]_vars => CrashInv'
  BY CrashNext
<1> QED
  BY <1>1, <1>2, PTL DEF Spec

\* Two copies of a job that is not replanned never run at the same time, whatever
\* fails, however often the job is resubmitted and the workload manager crashes: ICE
\* knows every copy, and iceCommandSubmit leaves out a job that it knows.
THEOREM OneCopyRuns == Spec => [](replans = 0 => AtMostOneRunning)
<1>1. ASSUME CrashInv, replans = 0 PROVE AtMostOneRunning
  <2> DEFINE S == {c \in DOMAIN copies : copies[c].st = "running"}
  <2>1. PlainRest
    BY <1>1 DEF CrashInv, PlainInv
  <2>2. S \subseteq {1}
    BY <2>1, PlainCopy
  <2>3. IsFiniteSet({1}) /\ Cardinality({1}) = 1
    BY FS_Singleton
  <2>4. Cardinality(S) <= Cardinality({1})
    BY <2>2, <2>3, FS_Subset
  <2> QED
    BY <2>3, <2>4 DEF AtMostOneRunning
<1>2. CrashInv => (replans = 0 => AtMostOneRunning)
  BY <1>1
<1> QED
  BY <1>2, CrashInvariance, PTL

\* A job that is not replanned and that nobody handles any more has come to an end the
\* user can see, whatever fails if the workload manager never crashes, and however
\* often it crashes if the environment does not fail it: recovery() leaves out the
\* submission of a job that has failed, never the resubmission that took it over.
THEOREM OutcomeIsTold ==
  Spec => [](replans = 0 /\ (crashes = 0 \/ faults = 0) => NotForgotten)
<1>1. ASSUME CrashInv, replans = 0, crashes = 0 \/ faults = 0, Quiet
      PROVE  lb.aborted \/ lb.cancelled \/ lb.done = "ok"
  <2>1. PlainReq /\ Accounted
    BY <1>1 DEF CrashInv, PlainInv
  <2>2. ASSUME NEW r \in Slots, Live(r) PROVE FALSE
    BY <1>1, <2>1, <2>2 DEF Quiet, Resting, PlainReq, InPlace, Live, Pending, IsSubmission
  <2> QED
    BY <1>1, <2>1, <2>2 DEF Accounted, Quiet
<1>2. CrashInv => (replans = 0 /\ (crashes = 0 \/ faults = 0) => NotForgotten)
  BY <1>1 DEF NotForgotten
<1> QED
  BY <1>2, CrashInvariance, PTL
=============================================================================
