------------------------- MODULE WMJobReplanProofs -------------------------
(***************************************************************************)
(* A job that is replanned.  The user is told how it ended however often   *)
(* it is replanned.  A job without retries starts once, one copy of it     *)
(* runs at a time and one token of it exists, however often it is          *)
(* replanned, cancelled and failed by the environment, as long as the      *)
(* workload manager does not crash.                                        *)
(*                                                                         *)
(* Both need requests, messages and copies with any replans count, where   *)
(* WMJobProofs has the count 0: first what the processors make of such a   *)
(* request, then one invariant after the other.                            *)
(***************************************************************************)
EXTENDS WMJobProofs

\* The requests, messages and copies of a job with any replans count.
AnyRequests ==
  [cmd : {"none", "jobsubmit", "jobresubmit", "jobcancel"},
   loc : {"none", "new", "old"}, pc : PCs, n0 : Nat, n : Nat, k : Nat,
   deep : Nat, shallow : Nat, limbo : BOOLEAN, queued : Nat, rp : BOOLEAN,
   sent : Nat]
AnyMessages == [kind : {"Submit", "Reschedule", "Cancel"}, tok : Nat]
AnyCopies == [tok : Nat, known : BOOLEAN,
              st : {"queued", "running", "ok", "failed", "cancelled"}]

\* The submission as the user wrote it, which has not been delivered to ICE.
Unsent(r) == req[r].cmd = "jobsubmit" /\ req[r].n0 = 0 /\ req[r].sent = 0

\* Request r is where it can be; one that has the job to itself does not rest, and
\* only a replan has a count.
Placed(r) ==
  LET x == req[r] IN
  /\ x.loc = "none" <=> x.cmd = "none"
  /\ x.pc # "idle" => x.loc = "old" /\ up
  /\ x.cmd = "jobcancel" => x.pc \in CancelPCs
  /\ x.cmd \in {"jobsubmit", "jobresubmit"} => x.pc \in SubmitPCs
  /\ up /\ x.loc = "old" /\ (Unsent(r) \/ x.cmd = "jobresubmit") => x.pc # "idle"
  /\ crashes = 0 => ~x.limbo
  /\ x.rp => /\ x.cmd = "jobsubmit" /\ x.n > 0
             /\ x.pc \in {"plan", "check", "deliver", "delivered"}
  /\ x.pc = "delivered" => x.sent > 0
  /\ Unsent(r) => x.n = 0 /\ x.k = 0

AnyReq == req \in [Slots -> AnyRequests] /\ \A r \in Slots : Placed(r)

\* The values of the rest of the state.
AnyRest ==
  /\ lb \in LBs /\ limits \in Limits
  /\ tokens \subseteq Nat /\ tmps \subseteq Nat /\ runs \in Nat
  /\ ~sandbox => tokens = {} /\ tmps = {} /\ (lb.aborted \/ lb.cancelled)
  /\ rpl \in [pc : {"idle", "rename", "log", "deliver", "delivered"},
              tmp : BOOLEAN, t : Nat]
  /\ ~up => crashes # 0 /\ rpl.pc = "idle"
  /\ crashes \in Nat /\ faults \in Nat
  /\ out \in Seq(AnyMessages) /\ copies \in Seq(AnyCopies)

\* As long as the user's submission is not delivered nobody else has the job.
Newborn(r) ==
  Unsent(r) =>
    /\ copies = <<>> /\ rpl.pc = "idle"
    /\ lb.status # "scheduled" /\ lb.done # "failed"
    /\ tokens \subseteq {0} /\ tmps \subseteq {0}
    /\ \A i \in DOMAIN out : out[i].kind = "Cancel"
    /\ \A s \in Slots \ {r} : req[s].cmd \in {"none", "jobcancel"}

\* Request r will still be handled, whatever crashes.
Handled(r) == Unsent(r) \/ (req[r].cmd = "jobresubmit" /\ req[r].pc # "delivered")

\* The job has an outcome, or ICE or a request has it.
Promised ==
  \/ lb.aborted \/ lb.cancelled \/ lb.done = "ok"
  \/ \E i \in DOMAIN out : out[i].kind = "Submit"
  \/ \E c \in DOMAIN copies : copies[c].known
  \/ \E r \in Slots : Handled(r)

\* The inductive invariant.
AnyInv == /\ AnyReq /\ AnyRest /\ \A r \in Slots : Newborn(r)
          /\ crashes = 0 \/ faults = 0 => Promised

-----------------------------------------------------------------------------
(* What the processors make of a request                                   *)

Becomes(r, x) ==
  /\ x \in AnyRequests /\ req' \in [Slots -> AnyRequests]
  /\ \A s \in Slots : req'[s] = IF s = r THEN x ELSE req[s]

\* y is x with its command, its place, its counts and its checkpoint ...
Alike(x, y) == /\ y.cmd = x.cmd /\ y.loc = x.loc /\ y.n0 = x.n0 /\ y.n = x.n
               /\ y.sent = x.sent /\ y.limbo = x.limbo

\* ... at another place of the code, or back in the event queue, or gone.
Moved(x, y, p) == Alike(x, y) /\ y.k = x.k /\ y.rp = x.rp /\ y.queued = x.queued /\ y.pc = p
Requeued(x, y) == Alike(x, y) /\ y.k = 0 /\ y.rp = FALSE /\ y.pc = "queued"
Ended(x, y) == \/ x.queued = 0 /\ y = NoRequest
               \/ x.queued # 0 /\ Requeued(x, y)

\* What the steps that change more of a request make of it.
Carries(x, y) == y.cmd = x.cmd /\ y.n0 = x.n0 /\ y.sent = x.sent
Dequeued(x, y) == /\ Carries(x, y) /\ y.n = x.n /\ y.k = x.k /\ y.limbo = x.limbo
                  /\ y.rp = x.rp /\ y.queued = x.queued
                  /\ y.loc = "old" /\ y.pc = "queued"
Stopped(x, y) == /\ \/ y = NoRequest
                    \/ /\ Carries(x, y) /\ y.loc = x.loc /\ y.n = x.n /\ y.k = 0
                       /\ y.rp = FALSE /\ (y.limbo => x.limbo) /\ y.pc = "queued"
                 /\ ~x.limbo /\ x.queued = 0 => y = NoRequest
Begun(x, y) == /\ Carries(x, y) /\ y.loc = x.loc /\ y.k = x.k /\ y.rp = x.rp
               /\ y.pc = "scan" /\ (y.limbo => x.limbo)
               /\ ~x.limbo => y.queued = x.queued
               /\ y.n = IF x.cmd = "jobsubmit" THEN x.n ELSE 0
Cleared(x, y) == /\ Carries(x, y) /\ y.loc = x.loc /\ y.n = x.n /\ y.k = x.k /\ y.rp = x.rp
                 /\ y.queued = x.queued /\ y.pc = x.pc /\ y.limbo = FALSE
Scanned(x, y) == /\ Carries(x, y) /\ y.loc = x.loc /\ y.limbo = x.limbo
                 /\ y.rp = x.rp /\ y.queued = x.queued /\ y.pc = "token"
                 /\ IF tokens \cup tmps = {} THEN y.k = 0 /\ y.n = x.n
                    ELSE y.k \in tokens \cup tmps /\ (y.n = x.n \/ y.n = y.k)
Replaces(x, y) == /\ Carries(x, y) /\ y.loc = x.loc /\ y.n = x.n /\ y.k = x.k
                  /\ y.limbo = x.limbo /\ y.queued = x.queued
                  /\ y.rp = TRUE /\ y.pc = "plan"
Delivers(x, y) == /\ y.cmd = x.cmd /\ y.loc = x.loc /\ y.n0 = x.n0 /\ y.n = x.n
                /\ y.sent = x.sent + 1 /\ y.limbo = x.limbo /\ y.k = x.k /\ y.rp = x.rp
                /\ y.queued = x.queued /\ y.pc = "delivered"

\* What Left makes of a request.
LEMMA LeftForms ==
  ASSUME NEW x \in AnyRequests
  PROVE  /\ NoRequest \in AnyRequests /\ Left(x) \in AnyRequests /\ Ended(x, Left(x))
         /\ x.queued # 0 => Left(x).queued = x.queued - 1
<1>1. NoRequest \in AnyRequests
  BY DEF AnyRequests, NoRequest, PCs
<1>2. CASE x.queued = 0
  BY <1>1, <1>2 DEF Left, Ended
<1>3. CASE x.queued # 0
  <2> DEFINE w  == x.queued - 1
             z1 == [x EXCEPT !.pc = "queued"]
             z2 == [z1 EXCEPT !.queued = w]
             z3 == [z2 EXCEPT !.k = 0]
             z4 == [z3 EXCEPT !.rp = FALSE]
             z5 == [z4 EXCEPT !.deep = 0]
             z6 == [z5 EXCEPT !.shallow = 0]
             Same(z) == z \in AnyRequests /\ Alike(x, z) /\ z.pc = "queued"
  <2>1. w \in Nat
    BY <1>3 DEF AnyRequests
  <2>2. Left(x) = z6
    BY <1>3 DEF Left
  <2> HIDE DEF w
  <2>3. Same(z1)
    BY DEF AnyRequests, PCs, Alike
  <2> HIDE DEF z1
  <2>4. Same(z2) /\ z2.queued = w
    BY <2>1, <2>3 DEF AnyRequests, Alike
  <2> HIDE DEF z2
  <2>5. Same(z3) /\ z3.queued = w /\ z3.k = 0
    BY <2>4 DEF AnyRequests, Alike
  <2> HIDE DEF z3
  <2>6. Same(z4) /\ z4.queued = w /\ z4.k = 0 /\ z4.rp = FALSE
    BY <2>5 DEF AnyRequests, Alike
  <2> HIDE DEF z4
  <2>7. Same(z5) /\ z5.queued = w /\ z5.k = 0 /\ z5.rp = FALSE
    BY <2>6 DEF AnyRequests, Alike
  <2> HIDE DEF z5
  <2>8. Same(z6) /\ z6.queued = w /\ z6.k = 0 /\ z6.rp = FALSE
    BY <2>7 DEF AnyRequests, Alike
  <2> HIDE DEF z6
  <2> QED
    BY <1>1, <1>3, <2>2, <2>8 DEF w, Ended, Requeued
<1> QED
  BY <1>2, <1>3

\* A request that is postponed stays, and so does the number of its events.
LEMMA PostponedForms ==
  ASSUME NEW x \in AnyRequests
  PROVE  /\ Postponed(x) \in AnyRequests /\ Requeued(x, Postponed(x))
         /\ Postponed(x).queued = x.queued
<1> DEFINE v == x.queued + 1
           y == [x EXCEPT !.queued = v]
<1>1. v \in Nat /\ v # 0 /\ v - 1 = x.queued
  BY DEF AnyRequests
<1>2. Postponed(x) = Left(y)
  BY DEF Postponed
<1> HIDE DEF v
<1>3. y \in AnyRequests /\ y.queued = v /\ Alike(x, y)
  BY <1>1 DEF AnyRequests, Alike
<1> HIDE DEF y
<1>4. /\ Left(y) \in AnyRequests /\ Ended(y, Left(y)) /\ Left(y).queued = x.queued
  BY <1>1, <1>3, LeftForms
<1> QED
  BY <1>1, <1>2, <1>3, <1>4 DEF Ended, Requeued, Alike

\* A request that goes, is postponed, or moves on.
LEMMA MoveOns ==
  ASSUME req \in [Slots -> AnyRequests], NEW r \in Slots
  PROVE  /\ End(r) => \E x : Becomes(r, x) /\ Ended(req[r], x)
         /\ req' = [req EXCEPT ![r] = Postponed(@)]
              => \E x : /\ Becomes(r, x) /\ Requeued(req[r], x)
                        /\ x.queued = req[r].queued
         /\ \A p \in PCs : req' = [req EXCEPT ![r].pc = p]
              => \E x : Becomes(r, x) /\ Moved(req[r], x, p)
<1>1. req[r] \in AnyRequests
  OBVIOUS
<1>2. ASSUME NEW x \in AnyRequests, req' = [req EXCEPT ![r] = x] PROVE Becomes(r, x)
  BY <1>2 DEF Becomes
<1>3. ASSUME End(r) PROVE \E x : Becomes(r, x) /\ Ended(req[r], x)
  <2>1. PICK x : x = Left(req[r])
    OBVIOUS
  <2>2. req' = [req EXCEPT ![r] = x]
    BY <1>3, <2>1 DEF End
  <2> QED
    BY <1>1, <1>2, <2>1, <2>2, LeftForms
<1>4. ASSUME req' = [req EXCEPT ![r] = Postponed(@)]
      PROVE  \E x : /\ Becomes(r, x) /\ Requeued(req[r], x)
                    /\ x.queued = req[r].queued
  <2>1. PICK x : x = Postponed(req[r])
    OBVIOUS
  <2>2. req' = [req EXCEPT ![r] = x]
    BY <1>4, <2>1
  <2> QED
    BY <1>1, <1>2, <2>1, <2>2, PostponedForms
<1>5. ASSUME NEW p \in PCs, req' = [req EXCEPT ![r].pc = p]
      PROVE  \E x : Becomes(r, x) /\ Moved(req[r], x, p)
  <2> DEFINE x == [req[r] EXCEPT !.pc = p]
  <2>1. req' = [req EXCEPT ![r] = x]
    BY <1>5
  <2>2. x \in AnyRequests /\ Moved(req[r], x, p)
    BY <1>1 DEF AnyRequests, Moved, Alike
  <2> HIDE DEF x
  <2> QED
    BY <1>2, <2>1, <2>2
<1> QED
  BY <1>3, <1>4, <1>5

\* A request whose processing ends, at once or after it was put back in limbo.
LEMMA StopForms ==
  ASSUME NEW x \in AnyRequests, NEW y \in AnyRequests, Alike(x, y) \/ 
         (Carries(x, y) /\ y.loc = x.loc /\ y.n = x.n /\ (y.limbo => x.limbo)),
         ~x.limbo => y.queued = x.queued, NEW z, Ended(y, z)
  PROVE  Stopped(x, z)
BY DEF AnyRequests, Stopped, Ended, Requeued, Alike, Carries, NoRequest

\* The steps of a processor change its request in one of these ways.
LEMMA StepShapes ==
  ASSUME req \in [Slots -> AnyRequests], lb \in LBs, tokens \subseteq Nat, tmps \subseteq Nat,
         NEW r \in Slots
  PROVE  /\ Dequeue(r) => \E x : Becomes(r, x) /\ Dequeued(req[r], x)
         /\ End(r) => \E x : Becomes(r, x) /\ Stopped(req[r], x)
         /\ Begin(r) => \E x : /\ Becomes(r, x)
                               /\ IF ctok THEN Stopped(req[r], x) ELSE Begun(req[r], x)
         /\ req' = [req EXCEPT ![r].limbo = FALSE]
              => \E x : Becomes(r, x) /\ Cleared(req[r], x)
         /\ Scan(r) /\ sandbox => \E x : Becomes(r, x) /\ Scanned(req[r], x)
         /\ req' = [req EXCEPT ![r].pc = "plan", ![r].rp = TRUE]
              => \E x : Becomes(r, x) /\ Replaces(req[r], x)
         /\ Deliver(r) => \E x : Becomes(r, x) /\ Delivers(req[r], x)
<1>1. req[r] \in AnyRequests
  OBVIOUS
<1>2. ASSUME NEW x \in AnyRequests, req' = [req EXCEPT ![r] = x] PROVE Becomes(r, x)
  BY <1>2 DEF Becomes
<1>3. ASSUME Dequeue(r) PROVE \E x : Becomes(r, x) /\ Dequeued(req[r], x)
  <2> DEFINE y == [req[r] EXCEPT !.loc = "old"]  x == [y EXCEPT !.pc = "queued"]
  <2>1. req' = [req EXCEPT ![r] = x]
    BY <1>3 DEF Dequeue
  <2>2. y \in AnyRequests /\ y.loc = "old" /\ Carries(req[r], y) /\ y.n = req[r].n
        /\ y.k = req[r].k /\ y.limbo = req[r].limbo /\ y.rp = req[r].rp
        /\ y.queued = req[r].queued
    BY <1>1 DEF AnyRequests, Carries
  <2> HIDE DEF y
  <2>3. x \in AnyRequests /\ Dequeued(req[r], x)
    BY <2>2 DEF AnyRequests, PCs, Carries, Dequeued
  <2> HIDE DEF x
  <2> QED
    BY <1>2, <2>1, <2>3
<1>4. ASSUME End(r) PROVE \E x : Becomes(r, x) /\ Stopped(req[r], x)
  <2>1. PICK x : Becomes(r, x) /\ Ended(req[r], x)
    BY <1>4, MoveOns
  <2> QED
    BY <1>1, <2>1, StopForms DEF Alike
<1>5. ASSUME Begin(r)
      PROVE  \E x : /\ Becomes(r, x)
                    /\ IF ctok THEN Stopped(req[r], x) ELSE Begun(req[r], x)
  <2> DEFINE waits == req[r].limbo /\ in_limbo
             q == req[r].queued + (IF waits THEN 1 ELSE 0)
             w == [req[r] EXCEPT !.limbo = waits]
             x == [w EXCEPT !.queued = q]
             y == [x EXCEPT !.pc = "scan"]
             z1 == [y EXCEPT !.n = 0]
             z2 == [z1 EXCEPT !.deep = lb.deep]
             z == [z2 EXCEPT !.shallow = lb.shallow]
  <2>1. /\ IsSubmission(r)
        /\ req' = [req EXCEPT ![r] = IF ctok THEN Left(x)
                                     ELSE IF x.cmd = "jobsubmit" THEN y
                                     ELSE z]
    BY <1>5 DEF Begin
  <2>2. q \in Nat /\ waits \in BOOLEAN /\ (waits => req[r].limbo)
        /\ (~req[r].limbo => q = req[r].queued)
    BY <1>1 DEF in_limbo, AnyRequests
  <2> HIDE DEF waits, q
  <2> DEFINE Same(v) == /\ v \in AnyRequests /\ Carries(req[r], v) /\ v.loc = req[r].loc
                        /\ v.k = req[r].k /\ v.rp = req[r].rp /\ v.limbo = waits
  <2>3. Same(w) /\ w.n = req[r].n
    BY <1>1, <2>2 DEF AnyRequests, Carries
  <2> HIDE DEF w
  <2>4. Same(x) /\ x.n = req[r].n /\ x.queued = q
    BY <2>2, <2>3 DEF AnyRequests, Carries
  <2> HIDE DEF x
  <2>5. Same(y) /\ y.n = req[r].n /\ y.queued = q /\ y.pc = "scan"
    BY <2>4 DEF AnyRequests, PCs, Carries
  <2> HIDE DEF y
  <2>6. Same(z1) /\ z1.n = 0 /\ z1.queued = q /\ z1.pc = "scan"
    BY <2>5 DEF AnyRequests, Carries
  <2> HIDE DEF z1
  <2>7. Same(z2) /\ z2.n = 0 /\ z2.queued = q /\ z2.pc = "scan"
    BY <2>6 DEF AnyRequests, Carries, LBs
  <2> HIDE DEF z2
  <2>8. Same(z) /\ z.n = 0 /\ z.queued = q /\ z.pc = "scan"
    BY <2>7 DEF AnyRequests, Carries, LBs
  <2> HIDE DEF z
  <2>9. CASE ctok
    <3>1. PICK v : v = Left(x)
      OBVIOUS
    <3>2. v \in AnyRequests /\ Ended(x, v)
      BY <2>4, <3>1, LeftForms
    <3>3. Stopped(req[r], v)
      BY <1>1, <2>2, <2>4, <3>2, StopForms
    <3>4. req' = [req EXCEPT ![r] = v]
      BY <2>1, <2>9, <3>1
    <3> QED
      BY <1>2, <2>9, <3>2, <3>3, <3>4
  <2>10. CASE ~ctok /\ req[r].cmd = "jobsubmit"
    BY <1>2, <2>1, <2>2, <2>4, <2>5, <2>10 DEF Begun, Carries
  <2>11. CASE ~ctok /\ req[r].cmd # "jobsubmit"
    BY <1>2, <2>1, <2>2, <2>4, <2>8, <2>11 DEF Begun, Carries
  <2> QED
    BY <2>9, <2>10, <2>11
<1>6. ASSUME req' = [req EXCEPT ![r].limbo = FALSE]
      PROVE  \E x : Becomes(r, x) /\ Cleared(req[r], x)
  <2> DEFINE x == [req[r] EXCEPT !.limbo = FALSE]
  <2>1. req' = [req EXCEPT ![r] = x]
    BY <1>6
  <2>2. x \in AnyRequests /\ Cleared(req[r], x)
    BY <1>1 DEF AnyRequests, Cleared, Carries
  <2> HIDE DEF x
  <2> QED
    BY <1>2, <2>1, <2>2
<1>7. ASSUME Scan(r), sandbox PROVE \E x : Becomes(r, x) /\ Scanned(req[r], x)
  <2>1. PICK f \in IF Names = {} THEN {<<FALSE, 0>>} ELSE Names :
          req' = [req EXCEPT ![r].pc = "token", ![r].k = f[2],
                       ![r].n = IF Names # {} /\ (@ = 0 \/ overwrites)
                                THEN f[2] ELSE @]
    BY <1>7 DEF Scan
  <2>2. Names = {} <=> tokens \cup tmps = {}
    BY DEF Names
  <2>3. IF tokens \cup tmps = {} THEN f[2] = 0 ELSE f[2] \in tokens \cup tmps
    <3>1. CASE tokens \cup tmps = {}
      <4>1. f = <<FALSE, 0>>
        BY <2>1, <2>2, <3>1
      <4>2. f[2] = 0
        BY <4>1
      <4> QED
        BY <3>1, <4>2
    <3>2. CASE tokens \cup tmps # {}
      <4>1. \E b, n : n \in tokens \cup tmps /\ f = <<b, n>>
        BY <2>1, <2>2, <3>2 DEF Names
      <4>2. ASSUME NEW b, NEW n \in tokens \cup tmps, f = <<b, n>> PROVE f[2] \in tokens \cup tmps
        <5>1. f[2] = n
          BY <4>2
        <5> QED
          BY <5>1
      <4> QED
        BY <3>2, <4>1, <4>2
    <3> QED
      BY <3>1, <3>2
  <2> DEFINE j == f[2]
             v == IF Names # {} /\ (req[r].n = 0 \/ overwrites) THEN f[2] ELSE req[r].n
             y == [req[r] EXCEPT !.pc = "token"]
             z == [y EXCEPT !.k = j]
             x == [z EXCEPT !.n = v]
  <2>4. req' = [req EXCEPT ![r] = x]
    BY <2>1, <1>1
  <2>5. /\ j \in Nat /\ v \in Nat
        /\ IF tokens \cup tmps = {} THEN j = 0 /\ v = req[r].n
           ELSE j \in tokens \cup tmps /\ (v = req[r].n \/ v = j)
    <3>1. req[r].n \in Nat
      BY <1>1 DEF AnyRequests
    <3>2. v = req[r].n \/ (v = j /\ Names # {})
      OBVIOUS
    <3> HIDE DEF v
    <3>3. CASE tokens \cup tmps = {}
      <4>1. j = 0 /\ Names = {}
        BY <2>2, <2>3, <3>3
      <4> QED
        BY <3>1, <3>2, <3>3, <4>1
    <3>4. CASE tokens \cup tmps # {}
      <4>1. j \in tokens \cup tmps
        BY <2>3, <3>4
      <4> HIDE DEF j
      <4> QED
        BY <3>1, <3>2, <3>4, <4>1
    <3> QED
      BY <3>3, <3>4
  <2> HIDE DEF j, v
  <2> DEFINE Same(u) == /\ u \in AnyRequests /\ Carries(req[r], u) /\ u.loc = req[r].loc
                        /\ u.limbo = req[r].limbo /\ u.rp = req[r].rp
                        /\ u.queued = req[r].queued /\ u.pc = "token"
  <2>6. Same(y) /\ y.n = req[r].n
    BY <1>1 DEF AnyRequests, PCs, Carries
  <2> HIDE DEF y
  <2>7. Same(z) /\ z.n = req[r].n /\ z.k = j
    BY <2>5, <2>6 DEF AnyRequests, Carries
  <2> HIDE DEF z
  <2>8. Same(x) /\ x.n = v /\ x.k = j
    BY <2>5, <2>7 DEF AnyRequests, Carries
  <2> HIDE DEF x
  <2> QED
    BY <1>2, <2>4, <2>5, <2>8 DEF Scanned
<1>8. ASSUME req' = [req EXCEPT ![r].pc = "plan", ![r].rp = TRUE]
      PROVE  \E x : Becomes(r, x) /\ Replaces(req[r], x)
  <2> DEFINE y == [req[r] EXCEPT !.pc = "plan"]  x == [y EXCEPT !.rp = TRUE]
  <2>1. req' = [req EXCEPT ![r] = x]
    BY <1>8, <1>1
  <2>2. y \in AnyRequests /\ Moved(req[r], y, "plan")
    BY <1>1 DEF AnyRequests, PCs, Moved, Alike
  <2> HIDE DEF y
  <2>3. x \in AnyRequests /\ Replaces(req[r], x)
    BY <2>2 DEF AnyRequests, Moved, Alike, Carries, Replaces
  <2> HIDE DEF x
  <2> QED
    BY <1>2, <2>1, <2>3
<1>9. ASSUME Deliver(r) PROVE \E x : Becomes(r, x) /\ Delivers(req[r], x)
  <2> DEFINE v == req[r].sent + 1
             y == [req[r] EXCEPT !.pc = "delivered"]  x == [y EXCEPT !.sent = v]
  <2>1. req' = [req EXCEPT ![r] = x]
    BY <1>9, <1>1 DEF Deliver
  <2>2. v \in Nat /\ v = req[r].sent + 1
    BY <1>1 DEF AnyRequests
  <2> HIDE DEF v
  <2>3. y \in AnyRequests /\ Moved(req[r], y, "delivered")
    BY <1>1 DEF AnyRequests, PCs, Moved, Alike
  <2> HIDE DEF y
  <2>4. x \in AnyRequests /\ Delivers(req[r], x)
    BY <2>2, <2>3 DEF AnyRequests, Moved, Alike, Delivers
  <2> HIDE DEF x
  <2> QED
    BY <1>2, <2>1, <2>4
<1> QED
  BY <1>3, <1>4, <1>5, <1>6, <1>7, <1>8, <1>9

-----------------------------------------------------------------------------
(* What the processors do to the rest of the state                         *)

\* The log calls of the workload manager keep an outcome, and none of them makes the
\* job scheduled.
Logged ==
  /\ lb' \in LBs /\ lb'.done = lb.done
  /\ lb'.status = lb.status \/ lb'.status # "scheduled"
  /\ \/ lb'.aborted = lb.aborted /\ lb'.cancelled = lb.cancelled
     \/ lb'.aborted \/ lb'.cancelled

\* What the handlers log: an outcome stays, or another one takes its place.
LEMMA LogsForms ==
  ASSUME lb \in LBs
  PROVE  /\ lb' = lb => Logged
         /\ \A s \in Statuses : lb' = Status(s) /\ s # "scheduled" => Logged
         /\ \A e \in {"fail", "ok"} : lb' = [lb EXCEPT !.enq = e] => Logged
         /\ lb' = [lb EXCEPT !.status = "ready", !.enq = "start"] => Logged
         /\ lb' = log_abort => Logged /\ lb'.aborted /\ lb'.status # "scheduled"
         /\ lb' = [log_abort EXCEPT !.enq = "fail"] => Logged /\ lb'.aborted
         /\ lb' = log_cancelled => Logged /\ lb'.cancelled
         /\ lb' = [lb EXCEPT !.status = "waiting", !.shallow = @ + 1] => Logged
         /\ lb' = [lb EXCEPT !.status = "waiting", !.deep = @ + 1, !.shallow = 0] => Logged
         /\ lb' = [lb EXCEPT !.status = "waiting", !.shallow = @ + 1, !.enq = "start"]
              => Logged /\ lb'.status # "scheduled"
<1>1. lb.shallow + 1 \in Nat /\ lb.deep + 1 \in Nat
  BY DEF LBs
<1>2. \A s \in Statuses : lb' = Status(s) /\ s # "scheduled" => Logged
  BY DEF Status, LBs, Statuses, Logged
<1>3. lb' = lb => Logged
  BY DEF Logged
<1>4. \A e \in {"fail", "ok"} : lb' = [lb EXCEPT !.enq = e] => Logged
  BY DEF LBs, Logged
<1>5. lb' = [lb EXCEPT !.status = "ready", !.enq = "start"] => Logged
  BY DEF LBs, Statuses, Logged
<1>6. lb' = log_abort => Logged /\ lb'.aborted /\ lb'.status # "scheduled"
  BY DEF LBs, Statuses, Logged, log_abort
<1>7. lb' = [log_abort EXCEPT !.enq = "fail"] => Logged /\ lb'.aborted
  BY DEF LBs, Statuses, Logged, log_abort
<1>8. lb' = log_cancelled => Logged /\ lb'.cancelled
  BY DEF LBs, Statuses, Logged, log_cancelled
<1> DEFINE m == lb.shallow + 1  d == lb.deep + 1
           w == [lb EXCEPT !.status = "waiting"]
<1>9. w \in LBs /\ w.status = "waiting" /\ w.done = lb.done /\ w.aborted = lb.aborted
      /\ w.cancelled = lb.cancelled /\ m \in Nat /\ d \in Nat
  BY <1>1 DEF LBs, Statuses
<1>10. lb' = [w EXCEPT !.shallow = m] => Logged /\ lb'.status # "scheduled"
  <2> HIDE DEF m, w
  <2> QED
    BY <1>9 DEF LBs, Logged
<1>11. lb' = [[w EXCEPT !.deep = d] EXCEPT !.shallow = 0] => Logged
  <2> DEFINE v == [w EXCEPT !.deep = d]
  <2> HIDE DEF d, w
  <2>1. v \in LBs /\ v.status = "waiting" /\ v.done = lb.done /\ v.aborted = lb.aborted
        /\ v.cancelled = lb.cancelled
    BY <1>9 DEF LBs
  <2> HIDE DEF v
  <2>2. lb' = [v EXCEPT !.shallow = 0] => Logged
    BY <2>1 DEF LBs, Logged
  <2> QED
    BY <2>2 DEF v
<1>12. lb' = [[w EXCEPT !.shallow = m] EXCEPT !.enq = "start"]
         => Logged /\ lb'.status # "scheduled"
  <2> DEFINE v == [w EXCEPT !.shallow = m]
  <2> HIDE DEF m, w
  <2>1. v \in LBs /\ v.status = "waiting" /\ v.done = lb.done /\ v.aborted = lb.aborted
        /\ v.cancelled = lb.cancelled
    BY <1>9 DEF LBs
  <2> HIDE DEF v
  <2>2. lb' = [v EXCEPT !.enq = "start"] => Logged /\ lb'.status # "scheduled"
    BY <2>1 DEF LBs, Logged
  <2> QED
    BY <2>2 DEF v
<1> QED
  BY <1>2, <1>3, <1>4, <1>5, <1>6, <1>7, <1>8, <1>10, <1>11, <1>12

\* What a step of a processor may do to the token, the sandbox, ICE's input and the LB.
LEMMA ProcessorRest ==
  ASSUME AnyReq, AnyRest, NEW r \in Slots, Dequeue(r) \/ Submission(r) \/ Cancellation(r)
  PROVE  /\ Logged
         /\ tokens' \subseteq tokens \cup tmps \cup {req[r].k}
         /\ tmps' \subseteq tokens \cup tmps \cup {req[r].k}
         /\ ~sandbox' => tokens' = {} /\ tmps' = {} /\ (lb'.aborted \/ lb'.cancelled)
         /\ tokens' \cup tmps' \subseteq tokens \cup tmps \/ IsSubmission(r)
         /\ out' = out \/ out' = Append(out, [kind |-> "Cancel", tok |-> 0]) \/ Deliver(r)
         /\ faults' \in Nat /\ (faults' = 0 => faults = 0)
         /\ up /\ UNCHANGED <<rpl, copies, runs, up, limits, crashes, replans>>
<1>1. /\ lb \in LBs /\ tokens \subseteq Nat /\ tmps \subseteq Nat /\ faults \in Nat
      /\ ~sandbox => tokens = {} /\ tmps = {} /\ (lb.aborted \/ lb.cancelled)
  BY DEF AnyRest
<1>2. up /\ UNCHANGED <<rpl, copies, runs, up, limits, crashes, replans>>
  BY DEF Dequeue, Submission, Cancellation, Begin, LBFails, Scan, TakeToken, Count, NewToken,
     RestoreToken, Plan, PlanFails, CheckCancel, Deliver, DeliverFails, Delivered,
     ProxyExpired, CancelLook, CancelLBFails, CancelForward, CancelFail, At, counts, cream
<1>3. faults' \in Nat /\ (faults' = 0 => faults = 0)
  <2>1. faults' = faults \/ faults' = faults + 1
    BY DEF Dequeue, Submission, Cancellation, Begin, LBFails, Scan, TakeToken, Count, NewToken,
       RestoreToken, Plan, PlanFails, CheckCancel, Deliver, DeliverFails, Delivered,
       ProxyExpired, CancelLook, CancelLBFails, CancelForward, CancelFail, Fault
  <2> QED
    BY <1>1, <2>1
<1>4. /\ tokens' \subseteq tokens \cup tmps \cup {req[r].k}
      /\ tmps' \subseteq tokens \cup tmps \cup {req[r].k}
  BY DEF Dequeue, Submission, Cancellation, Begin, LBFails, Scan, TakeToken, Count,
     NewToken, RestoreToken, Plan, PlanFails, CheckCancel, Deliver, DeliverFails, Delivered,
     ProxyExpired, CancelLook, CancelLBFails, CancelForward, CancelFail, Purge, files
<1>5. out' = out \/ out' = Append(out, [kind |-> "Cancel", tok |-> 0]) \/ Deliver(r)
  BY DEF Dequeue, Submission, Cancellation, Begin, LBFails, Scan, TakeToken, Count,
     NewToken, RestoreToken, Plan, PlanFails, CheckCancel, DeliverFails, Delivered,
     ProxyExpired, CancelLook, CancelLBFails, CancelForward, CancelFail
<1>6. \/ lb' = log_cancelled \/ lb' = log_abort \/ lb' = [log_abort EXCEPT !.enq = "fail"]
      \/ lb' = Status("waiting") \/ lb' = lb \/ lb' = [lb EXCEPT !.enq = "ok"]
      \/ lb' = [lb EXCEPT !.status = "ready", !.enq = "start"]
      \/ lb' = [lb EXCEPT !.status = "waiting", !.shallow = @ + 1]
      \/ lb' = [lb EXCEPT !.status = "waiting", !.deep = @ + 1, !.shallow = 0]
  BY DEF Dequeue, Submission, Cancellation, Begin, LBFails, Scan, TakeToken, Count,
     NewToken, RestoreToken, Plan, PlanFails, CheckCancel, Deliver, DeliverFails, Delivered,
     ProxyExpired, CancelLook, CancelLBFails, CancelForward, CancelFail, Unrecoverable,
     Postpone
<1>7. Logged
  BY <1>1, <1>6, LogsForms DEF Statuses
<1>8. \/ /\ lb' = log_cancelled \/ lb' = log_abort
         /\ tokens' = {} /\ tmps' = {}
      \/ sandbox' = sandbox /\ (~sandbox => tokens' = {} /\ tmps' = {})
  BY <1>1 DEF Dequeue, Submission, Cancellation, Begin, LBFails, Scan, TakeToken, Count,
     NewToken, RestoreToken, Plan, PlanFails, CheckCancel, Deliver, DeliverFails, Delivered,
     ProxyExpired, CancelLook, CancelLBFails, CancelForward, CancelFail, Purge, files
<1>9. ~sandbox' => tokens' = {} /\ tmps' = {} /\ (lb'.aborted \/ lb'.cancelled)
  BY <1>1, <1>7, <1>8, LogsForms DEF Logged
<1>10. tokens' \cup tmps' \subseteq tokens \cup tmps \/ IsSubmission(r)
  <2>1. \/ tokens' \cup tmps' \subseteq tokens \cup tmps
        \/ req[r].pc \in {"token", "count", "restore"}
    BY DEF Dequeue, Submission, Cancellation, Begin, LBFails, Scan, TakeToken, Count,
       NewToken, RestoreToken, Plan, PlanFails, CheckCancel, Deliver, DeliverFails, Delivered,
       ProxyExpired, CancelLook, CancelLBFails, CancelForward, CancelFail, Purge, files, At
  <2>2. req[r].pc \in {"token", "count", "restore"} => IsSubmission(r)
    BY DEF AnyReq, AnyRequests, Placed, CancelPCs, IsSubmission
  <2> QED
    BY <2>1, <2>2
<1> QED
  BY <1>2, <1>3, <1>4, <1>5, <1>7, <1>9, <1>10

-----------------------------------------------------------------------------
(* ICE's input, and the copies on CREAM                                    *)

\* One more element; the others stay where they are.
LEMMA AppendForms ==
  ASSUME NEW S, NEW s \in Seq(S), NEW e \in S
  PROVE  /\ Append(s, e) \in Seq(S)
         /\ Len(s) + 1 \notin DOMAIN s
         /\ DOMAIN Append(s, e) = DOMAIN s \cup {Len(s) + 1}
         /\ Append(s, e)[Len(s) + 1] = e
         /\ \A i \in DOMAIN s : Append(s, e)[i] = s[i]
<1>1. Len(s) \in Nat /\ DOMAIN s = 1 .. Len(s)
  BY LenProperties
<1>2. /\ Append(s, e) \in Seq(S) /\ Len(Append(s, e)) = Len(s) + 1
      /\ \A i \in 1 .. Len(s) : Append(s, e)[i] = s[i]
      /\ Append(s, e)[Len(s) + 1] = e
  BY AppendProperties
<1>3. DOMAIN Append(s, e) = 1 .. Len(s) + 1
  BY <1>2, LenProperties
<1>4. 1 .. Len(s) + 1 = 1 .. Len(s) \cup {Len(s) + 1} /\ Len(s) + 1 \notin 1 .. Len(s)
  BY <1>1
<1> QED
  BY <1>1, <1>2, <1>3, <1>4

\* What is left is what was there besides, each element once.
LEMMA RemoveForms ==
  ASSUME NEW S, NEW s \in Seq(S), NEW i \in DOMAIN s
  PROVE  /\ RemoveAt(s, i) \in Seq(S)
         /\ \A h \in DOMAIN RemoveAt(s, i) :
              \E g \in DOMAIN s \ {i} : RemoveAt(s, i)[h] = s[g]
         /\ \A g \in DOMAIN s \ {i} :
              \E h \in DOMAIN RemoveAt(s, i) : RemoveAt(s, i)[h] = s[g]
         /\ \A h, k \in DOMAIN RemoveAt(s, i) :
              \E f, g \in DOMAIN s \ {i} :
                /\ RemoveAt(s, i)[h] = s[f] /\ RemoveAt(s, i)[k] = s[g]
                /\ f = g => h = k
<1> DEFINE t == RemoveAt(s, i)
<1>1. /\ t \in Seq(S) /\ Len(t) = Len(s) - 1
      /\ \A h \in DOMAIN t : \E g \in DOMAIN s : /\ t[h] = s[g]
                                               /\ g = (IF h < i THEN h ELSE h + 1)
  BY RemovedAt
<1>2. \A g \in DOMAIN s : g # i => \E h \in DOMAIN t : t[h] = s[g]
  BY RemovedRest
<1> HIDE DEF t
<1>3. /\ DOMAIN t = 1 .. Len(s) - 1 /\ DOMAIN s = 1 .. Len(s) /\ Len(s) \in Nat
  BY <1>1, LenProperties
<1>4. ASSUME NEW h \in DOMAIN t
      PROVE  \E g \in DOMAIN s \ {i} : t[h] = s[g] /\ g = (IF h < i THEN h ELSE h + 1)
  <2>1. PICK g \in DOMAIN s : t[h] = s[g] /\ g = (IF h < i THEN h ELSE h + 1)
    BY <1>1
  <2>2. g # i
    BY <1>3, <2>1
  <2> QED
    BY <2>1, <2>2
<1>5. ASSUME NEW h \in DOMAIN t, NEW k \in DOMAIN t
      PROVE  \E f, g \in DOMAIN s \ {i} : t[h] = s[f] /\ t[k] = s[g] /\ (f = g => h = k)
  <2>1. PICK f \in DOMAIN s \ {i} : t[h] = s[f] /\ f = (IF h < i THEN h ELSE h + 1)
    BY <1>4
  <2>2. PICK g \in DOMAIN s \ {i} : t[k] = s[g] /\ g = (IF k < i THEN k ELSE k + 1)
    BY <1>4
  <2>3. f = g => h = k
    BY <1>3, <2>1, <2>2
  <2> QED
    BY <2>1, <2>2, <2>3
<1> QED
  BY <1>1, <1>2, <1>4, <1>5 DEF t

\* A sequence of copies with the same tokens.
Resembles(q, p) == /\ p \in Seq(AnyCopies) /\ DOMAIN p = DOMAIN q
                   /\ \A c \in DOMAIN q : p[c].tok = q[c].tok

\* What happens to the copies at once, and what happens to one of them.
LEMMA CopyForms ==
  ASSUME copies \in Seq(AnyCopies)
  PROVE  /\ Resembles(copies, Forget(copies))
         /\ \A c \in DOMAIN copies : Forget(copies)[c].st = copies[c].st
         /\ \A i : IceCancel(i) =>
              /\ Resembles(copies, copies')
              /\ \A c \in DOMAIN copies : /\ copies'[c].known = copies[c].known
                                          /\ copies'[c].st \in {copies[c].st, "cancelled"}
         /\ \A c \in DOMAIN copies, s \in {"running", "failed", "ok"} :
              copies' = [copies EXCEPT ![c].st = s] =>
                /\ Resembles(copies, copies')
                /\ \A d \in DOMAIN copies :
                     /\ copies'[d].known = copies[d].known
                     /\ copies'[d].st = IF d = c THEN s ELSE copies[d].st
<1>1. /\ DOMAIN copies = 1 .. Len(copies) /\ Len(copies) \in Nat
      /\ \A c \in DOMAIN copies : copies[c] \in AnyCopies
  BY LenProperties, ElementOfSeq
<1>2. ASSUME NEW p, DOMAIN p = DOMAIN copies, p = [c \in DOMAIN copies |-> p[c]],
             \A c \in DOMAIN copies : p[c] \in AnyCopies
      PROVE  p \in Seq(AnyCopies)
  BY <1>1, <1>2, SeqDef
<1>3. /\ Resembles(copies, Forget(copies))
      /\ \A c \in DOMAIN copies : Forget(copies)[c].st = copies[c].st
  <2> DEFINE p == Forget(copies)
  <2>1. /\ p = [c \in DOMAIN copies |-> p[c]] /\ DOMAIN p = DOMAIN copies
        /\ \A c \in DOMAIN copies : p[c] = [copies[c] EXCEPT !.known = FALSE]
    BY DEF Forget
  <2> HIDE DEF p
  <2>2. \A c \in DOMAIN copies : /\ p[c] \in AnyCopies /\ p[c].tok = copies[c].tok
                                 /\ p[c].st = copies[c].st
    BY <1>1, <2>1 DEF AnyCopies
  <2>3. p \in Seq(AnyCopies)
    BY <1>2, <2>1, <2>2
  <2>4. Resembles(copies, p) /\ \A c \in DOMAIN copies : p[c].st = copies[c].st
    BY <2>1, <2>2, <2>3 DEF Resembles
  <2> QED
    BY <2>4 DEF p
<1>4. ASSUME NEW i, IceCancel(i)
      PROVE  /\ Resembles(copies, copies')
             /\ \A c \in DOMAIN copies : /\ copies'[c].known = copies[c].known
                                         /\ copies'[c].st \in {copies[c].st, "cancelled"}
  <2>1. /\ copies' = [c \in DOMAIN copies |-> copies'[c]] /\ DOMAIN copies' = DOMAIN copies
        /\ \A c \in DOMAIN copies : copies'[c] \in {copies[c], [copies[c] EXCEPT !.st = "cancelled"]}
    BY <1>4 DEF IceCancel
  <2>2. \A c \in DOMAIN copies : /\ copies'[c] \in AnyCopies /\ copies'[c].tok = copies[c].tok
                                 /\ copies'[c].known = copies[c].known
                                 /\ copies'[c].st \in {copies[c].st, "cancelled"}
    BY <1>1, <2>1 DEF AnyCopies
  <2>3. copies' \in Seq(AnyCopies)
    BY <1>2, <2>1, <2>2
  <2> QED
    BY <2>1, <2>2, <2>3 DEF Resembles
<1>5. ASSUME NEW c \in DOMAIN copies, NEW s \in {"running", "failed", "ok"},
             copies' = [copies EXCEPT ![c].st = s]
      PROVE  /\ Resembles(copies, copies')
             /\ \A d \in DOMAIN copies :
                  /\ copies'[d].known = copies[d].known
                  /\ copies'[d].st = IF d = c THEN s ELSE copies[d].st
  <2> DEFINE x == [copies[c] EXCEPT !.st = s]
  <2>1. x \in AnyCopies /\ x.tok = copies[c].tok /\ x.known = copies[c].known /\ x.st = s
    BY <1>1 DEF AnyCopies
  <2>2. copies' = [copies EXCEPT ![c] = x]
    BY <1>5
  <2> HIDE DEF x
  <2>3. copies' \in Seq(AnyCopies)
    BY <1>1, <2>1, <2>2, ExceptSeq
  <2>4. DOMAIN copies' = DOMAIN copies
        /\ \A d \in DOMAIN copies : copies'[d] = IF d = c THEN x ELSE copies[d]
    BY <2>2
  <2> QED
    BY <2>1, <2>3, <2>4 DEF Resembles
<1> QED
  BY <1>3, <1>4, <1>5

-----------------------------------------------------------------------------
(* The steps of the processors                                             *)

\* What a step of a processor makes of its request: x.
Advances(r, x) ==
  /\ Becomes(r, x)
  /\ \/ x = NoRequest
     \/ /\ x.cmd = req[r].cmd /\ x.n0 = req[r].n0 /\ (x.sent = 0 => req[r].sent = 0)
        /\ x.cmd # "none" /\ x.loc = "old" /\ x.pc # "idle"
        /\ x.cmd = "jobcancel" => x.pc \in CancelPCs
        /\ x.cmd # "jobcancel" => x.pc \in SubmitPCs
        /\ crashes = 0 => ~x.limbo
        /\ x.rp => /\ x.cmd = "jobsubmit" /\ x.n > 0
                   /\ x.pc \in {"plan", "check", "deliver", "delivered"}
        /\ x.pc = "delivered" => x.sent > 0
        /\ Unsent(r) => x.n = 0 /\ x.k = 0

\* The request does not leave with the job, unless the LB failed it in limbo.
Hands(r, x) ==
  Handled(r) =>
    \/ /\ x.cmd = req[r].cmd /\ x.n0 = req[r].n0 /\ x.pc # "delivered"
       /\ Unsent(r) => x.sent = 0
    \/ lb'.aborted \/ lb'.cancelled
    \/ out' = Append(out, [kind |-> "Submit", tok |-> req[r].n])
    \/ crashes > 0 /\ faults' > 0

\* Every step of a processor advances its request, and hands the job on if it ends.
LEMMA ProcessorAdvances ==
  ASSUME AnyReq, AnyRest, NEW r \in Slots, Newborn(r),
         Dequeue(r) \/ Submission(r) \/ Cancellation(r)
  PROVE  \E x : Advances(r, x) /\ Hands(r, x)
<1>1. /\ req[r] \in AnyRequests /\ req \in [Slots -> AnyRequests] /\ Placed(r)
      /\ lb \in LBs /\ tokens \subseteq Nat /\ tmps \subseteq Nat /\ faults \in Nat
      /\ crashes \in Nat /\ (~sandbox => lb.aborted \/ lb.cancelled)
  BY DEF AnyReq, AnyRest
<1>2. /\ req[r].n \in Nat /\ req[r].n0 \in Nat /\ req[r].k \in Nat /\ req[r].rp \in BOOLEAN
      /\ req[r].limbo \in BOOLEAN /\ req[r].queued \in Nat /\ req[r].sent \in Nat
      /\ req[r].cmd \in {"none", "jobsubmit", "jobresubmit", "jobcancel"}
      /\ req[r].loc \in {"none", "new", "old"}
  BY <1>1 DEF AnyRequests
<1>3. /\ req[r].loc = "none" <=> req[r].cmd = "none"
      /\ req[r].pc # "idle" => req[r].loc = "old"
      /\ req[r].cmd = "jobcancel" => req[r].pc \in CancelPCs
      /\ req[r].cmd \in {"jobsubmit", "jobresubmit"} => req[r].pc \in SubmitPCs
      /\ crashes = 0 => ~req[r].limbo
      /\ req[r].rp => /\ req[r].cmd = "jobsubmit" /\ req[r].n > 0
                      /\ req[r].pc \in {"plan", "check", "deliver", "delivered"}
      /\ req[r].pc = "delivered" => req[r].sent > 0
      /\ Unsent(r) => req[r].n = 0 /\ req[r].k = 0
  BY <1>1 DEF Placed
<1> DEFINE Goal == \E x : Advances(r, x) /\ Hands(r, x)
           Excused == lb'.aborted \/ lb'.cancelled \/ (crashes > 0 /\ faults' > 0)
<1> SUFFICES Goal
  OBVIOUS
<1>4. ASSUME NEW p \in SubmitPCs \ {"idle", "delivered"},
             req[r].pc \in SubmitPCs \ {"idle", "queued", "deliver", "delivered"},
             req[r].pc \in {"plan", "check"} => p \in {"check", "deliver"},
             req' = [req EXCEPT ![r].pc = p]
      PROVE  Goal
  <2>1. req[r].loc = "old" /\ req[r].cmd # "jobcancel" /\ p \in PCs /\ p # "idle"
        /\ p \in SubmitPCs /\ p # "delivered"
    BY <1>3, <1>4 DEF SubmitPCs, CancelPCs, PCs
  <2>2. PICK x : Becomes(r, x) /\ Moved(req[r], x, p)
    BY <1>1, <1>4, <2>1, MoveOns
  <2>3. x.rp => x.pc \in {"check", "deliver"}
    BY <1>3, <1>4, <2>2 DEF Moved
  <2>4. Advances(r, x)
    BY <1>2, <1>3, <2>1, <2>2, <2>3 DEF Moved, Alike, Advances, Unsent
  <2>5. Hands(r, x)
    BY <1>2, <1>3, <2>1, <2>2 DEF Moved, Alike, Hands, Unsent
  <2> QED
    BY <2>4, <2>5
<1>5. ASSUME req[r].pc \notin {"idle", "deliver", "delivered"},
             req' = [req EXCEPT ![r] = Postponed(@)]
      PROVE  Goal
  <2>1. PICK x : Becomes(r, x) /\ Requeued(req[r], x)
    BY <1>1, <1>5, MoveOns
  <2>2. Advances(r, x)
    BY <1>2, <1>3, <1>5, <2>1 DEF Requeued, Alike, Advances, Unsent, SubmitPCs, CancelPCs
  <2>3. Hands(r, x)
    BY <1>2, <1>3, <1>5, <2>1 DEF Requeued, Alike, Hands, Unsent
  <2> QED
    BY <2>2, <2>3
<1>6. ASSUME NEW x, Becomes(r, x), Stopped(req[r], x), req[r].pc # "idle"
      PROVE  Advances(r, x)
  BY <1>2, <1>3, <1>6 DEF Stopped, Carries, Advances, Unsent, SubmitPCs, CancelPCs
<1>7. ASSUME End(r), req[r].pc # "idle", ~Handled(r) \/ Excused
      PROVE  Goal
  <2>1. PICK x : Becomes(r, x) /\ Stopped(req[r], x)
    BY <1>1, <1>7, StepShapes
  <2>2. Hands(r, x)
    BY <1>7 DEF Hands
  <2> QED
    BY <1>6, <1>7, <2>1, <2>2
<1>8. lb' = log_abort \/ lb' = [log_abort EXCEPT !.enq = "fail"] => Excused
  BY <1>1, LogsForms
<1>9. lb' = log_cancelled => lb'.cancelled /\ Excused
  BY <1>1, LogsForms
<1>10. (lb' = lb /\ ~sandbox) \/ (crashes > 0 /\ faults' > 0) => Excused
  BY <1>1
<1> HIDE DEF Goal, Excused
<1>11. CASE Dequeue(r)
  <2>1. PICK x : Becomes(r, x) /\ Dequeued(req[r], x)
    BY <1>1, <1>11, StepShapes
  <2>2. req[r].loc = "new" /\ req[r].pc = "idle"
    BY <1>3, <1>11 DEF Dequeue
  <2>3. Advances(r, x)
    BY <1>2, <1>3, <2>1, <2>2 DEF Dequeued, Carries, Advances, Unsent, SubmitPCs, CancelPCs
  <2>4. Hands(r, x)
    BY <1>2, <1>3, <2>1, <2>2 DEF Dequeued, Carries, Hands, Unsent
  <2> QED
    BY <2>3, <2>4 DEF Goal
<1>12. CASE Begin(r)
  <2>1. At(r, "queued") /\ IsSubmission(r) /\ (ctok => lb'.cancelled)
    BY <1>9, <1>12 DEF Begin
  <2>2. PICK x : Becomes(r, x) /\ IF ctok THEN Stopped(req[r], x) ELSE Begun(req[r], x)
    BY <1>1, <1>12, StepShapes
  <2>3. req[r].pc = "queued" /\ req[r].cmd \in {"jobsubmit", "jobresubmit"}
    BY <2>1 DEF At, IsSubmission
  <2>4. CASE ctok
    <3>1. Hands(r, x)
      BY <2>1, <2>4 DEF Hands
    <3> QED
      BY <1>6, <2>2, <2>3, <2>4, <3>1 DEF Goal
  <2>5. CASE ~ctok
    <3>1. Advances(r, x)
      BY <1>2, <1>3, <2>2, <2>3, <2>5 DEF Begun, Carries, Advances, Unsent, SubmitPCs
    <3>2. Hands(r, x)
      BY <1>2, <1>3, <2>2, <2>3, <2>5 DEF Begun, Carries, Hands, Unsent
    <3> QED
      BY <3>1, <3>2 DEF Goal
  <2> QED
    BY <2>4, <2>5
<1>13. CASE LBFails(r)
  <2>1. At(r, "queued") /\ IsSubmission(r) /\ req[r].pc = "queued"
    BY <1>13 DEF LBFails, At
  <2>2. CASE Postpone(r)
    BY <1>5, <2>1, <2>2 DEF Postpone, Goal
  <2>3. CASE Unrecoverable(r)
    BY <1>7, <1>8, <2>1, <2>3 DEF Unrecoverable, Goal
  <2>4. CASE req[r].limbo /\ End(r)
    <3>1. crashes > 0 /\ faults' > 0
      BY <1>1, <1>3, <1>13, <2>4 DEF LBFails, Fault
    <3> QED
      BY <1>7, <1>10, <2>1, <2>4, <3>1 DEF Goal
  <2>5. CASE req' = [req EXCEPT ![r].limbo = FALSE]
    <3>1. PICK x : Becomes(r, x) /\ Cleared(req[r], x)
      BY <1>1, <2>5, StepShapes
    <3>2. req[r].cmd \in {"jobsubmit", "jobresubmit"}
      BY <2>1 DEF IsSubmission
    <3>3. Advances(r, x)
      BY <1>2, <1>3, <2>1, <3>1, <3>2 DEF Cleared, Carries, Advances, Unsent, SubmitPCs
    <3>4. Hands(r, x)
      BY <1>2, <1>3, <2>1, <3>1, <3>2 DEF Cleared, Carries, Hands, Unsent
    <3> QED
      BY <3>3, <3>4 DEF Goal
  <2> QED
    BY <1>13, <2>2, <2>3, <2>4, <2>5 DEF LBFails
<1>14. CASE Scan(r)
  <2>1. req[r].pc = "scan" /\ req[r].loc = "old" /\ req[r].cmd \notin {"none", "jobcancel"}
    BY <1>3, <1>14 DEF Scan, At, CancelPCs
  <2>2. CASE ~sandbox
    <3>1. End(r) /\ lb' = lb
      BY <1>14, <2>2 DEF Scan
    <3> QED
      BY <1>7, <1>10, <2>1, <2>2, <3>1 DEF Goal
  <2>3. CASE sandbox
    <3>1. PICK x : Becomes(r, x) /\ Scanned(req[r], x)
      BY <1>1, <1>14, <2>3, StepShapes
    <3>2. Unsent(r) => tokens \subseteq {0} /\ tmps \subseteq {0}
      BY DEF Newborn
    <3>3. Unsent(r) => x.n = 0 /\ x.k = 0
      BY <1>3, <3>1, <3>2 DEF Scanned
    <3>4. Advances(r, x)
      BY <1>2, <1>3, <2>1, <3>1, <3>3 DEF Scanned, Carries, Advances, Unsent, SubmitPCs
    <3>5. Hands(r, x)
      BY <1>2, <1>3, <2>1, <3>1 DEF Scanned, Carries, Hands, Unsent
    <3> QED
      BY <3>4, <3>5 DEF Goal
  <2> QED
    BY <2>2, <2>3
<1>15. CASE TakeToken(r)
  BY <1>15, <1>4 DEF TakeToken, At, SubmitPCs, Goal
<1>16. CASE Count(r)
  <2>1. req[r].pc = "count"
    BY <1>16 DEF Count, At
  <2>2. \/ Unrecoverable(r) \/ req' = [req EXCEPT ![r] = Postponed(@)]
        \/ req' = [req EXCEPT ![r].pc = "restore"]
    BY <1>16 DEF Count
  <2> QED
    BY <1>4, <1>5, <1>7, <1>8, <2>1, <2>2 DEF Unrecoverable, SubmitPCs, Goal
<1>17. CASE NewToken(r)
  <2>1. req[r].pc = "token" /\ req[r].cmd = "jobsubmit" /\ req[r].loc = "old"
    BY <1>3, <1>17 DEF NewToken, At
  <2>2. CASE req[r].n > 0 /\ req' = [req EXCEPT ![r].pc = "plan", ![r].rp = TRUE]
    <3>1. PICK x : Becomes(r, x) /\ Replaces(req[r], x)
      BY <1>1, <2>2, StepShapes
    <3>2. Advances(r, x)
      BY <1>2, <1>3, <2>1, <2>2, <3>1 DEF Replaces, Carries, Advances, Unsent, SubmitPCs
    <3>3. Hands(r, x)
      BY <1>2, <1>3, <2>1, <3>1 DEF Replaces, Carries, Hands, Unsent
    <3> QED
      BY <3>2, <3>3 DEF Goal
  <2>3. CASE req[r].n > 0 /\ End(r)
    <3>1. ~Handled(r)
      BY <1>2, <1>3, <2>1, <2>3 DEF Handled
    <3> QED
      BY <1>7, <2>1, <2>3, <3>1 DEF Goal
  <2>4. CASE req' = [req EXCEPT ![r].pc = "restore"]
    BY <1>4, <2>1, <2>4 DEF SubmitPCs, Goal
  <2>5. CASE Postpone(r)
    BY <1>5, <2>1, <2>5 DEF Postpone, Goal
  <2> QED
    BY <1>17, <2>2, <2>3, <2>4, <2>5 DEF NewToken
<1>18. CASE RestoreToken(r)
  BY <1>18, <1>4, <1>5 DEF RestoreToken, Postpone, At, SubmitPCs, Goal
<1>19. CASE Plan(r)
  BY <1>19, <1>4 DEF Plan, At, SubmitPCs, Goal
<1>20. CASE PlanFails(r)
  BY <1>20, <1>5 DEF PlanFails, Postpone, At, Goal
<1>21. CASE CheckCancel(r)
  BY <1>21, <1>4, <1>7, <1>9 DEF CheckCancel, At, SubmitPCs, Goal
<1>22. CASE Deliver(r)
  <2>1. PICK x : Becomes(r, x) /\ Delivers(req[r], x)
    BY <1>1, <1>22, StepShapes
  <2>2. /\ req[r].pc = "deliver" /\ req[r].cmd # "jobcancel"
        /\ out' = Append(out, [kind |-> IF req[r].rp THEN "Reschedule" ELSE "Submit",
                               tok |-> req[r].n])
    BY <1>3, <1>22 DEF Deliver, At, CancelPCs
  <2>3. Advances(r, x)
    BY <1>2, <1>3, <2>1, <2>2 DEF Delivers, Advances, Unsent, SubmitPCs
  <2>4. Handled(r) => ~req[r].rp
    BY <1>2, <1>3 DEF Handled
  <2>5. Hands(r, x)
    BY <2>2, <2>4 DEF Hands
  <2> QED
    BY <2>3, <2>5 DEF Goal
<1>23. CASE DeliverFails(r) \/ ProxyExpired(r)
  BY <1>23, <1>7, <1>8 DEF DeliverFails, ProxyExpired, Unrecoverable, At, Goal
<1>24. CASE Delivered(r)
  <2>1. req[r].pc = "delivered" /\ End(r)
    BY <1>24 DEF Delivered, At
  <2>2. ~Handled(r)
    BY <1>3, <2>1 DEF Handled, Unsent
  <2> QED
    BY <1>7, <2>1, <2>2 DEF Goal
<1>25. CASE Cancellation(r)
  <2>1. /\ req[r].pc \in {"queued", "forward", "fail"} /\ req[r].cmd = "jobcancel"
        /\ req[r].loc = "old" /\ ~Handled(r)
    BY <1>2, <1>3, <1>25 DEF Cancellation, CancelLook, CancelLBFails, CancelForward, CancelFail,
       At, Handled, Unsent, SubmitPCs
  <2>2. \/ End(r)
        \/ \E p \in {"forward", "fail"} : req' = [req EXCEPT ![r].pc = p]
    BY <1>25 DEF Cancellation, CancelLook, CancelLBFails, CancelForward, CancelFail
  <2>3. ASSUME NEW p \in {"forward", "fail"}, req' = [req EXCEPT ![r].pc = p] PROVE Goal
    <3>1. p \in PCs /\ p # "idle" /\ p \in CancelPCs /\ p # "delivered"
      BY DEF CancelPCs, PCs
    <3>2. PICK x : Becomes(r, x) /\ Moved(req[r], x, p)
      BY <1>1, <2>3, <3>1, MoveOns
    <3>3. Advances(r, x)
      BY <1>2, <1>3, <2>1, <3>1, <3>2 DEF Moved, Alike, Advances, Unsent
    <3> QED
      BY <2>1, <3>3 DEF Hands, Goal
  <2> QED
    BY <1>7, <2>1, <2>2, <2>3 DEF Goal
<1> QED
  BY <1>11, <1>12, <1>13, <1>14, <1>15, <1>16, <1>17, <1>18, <1>19, <1>20, <1>21, <1>22,
     <1>23, <1>24, <1>25 DEF Submission, Goal

\* A processor takes the job nowhere without an outcome.
LEMMA ProcessorPromises ==
  ASSUME AnyInv, NEW r \in Slots, Dequeue(r) \/ Submission(r) \/ Cancellation(r)
  PROVE  AnyInv'
<1> USE DEF AnyInv
<1>1. PICK x : Advances(r, x) /\ Hands(r, x)
  BY ProcessorAdvances
<1>2. /\ Logged
      /\ tokens' \subseteq tokens \cup tmps \cup {req[r].k}
      /\ tmps' \subseteq tokens \cup tmps \cup {req[r].k}
      /\ ~sandbox' => tokens' = {} /\ tmps' = {} /\ (lb'.aborted \/ lb'.cancelled)
      /\ tokens' \cup tmps' \subseteq tokens \cup tmps \/ IsSubmission(r)
      /\ out' = out \/ out' = Append(out, [kind |-> "Cancel", tok |-> 0]) \/ Deliver(r)
      /\ faults' \in Nat /\ (faults' = 0 => faults = 0)
      /\ up /\ UNCHANGED <<rpl, copies, runs, up, limits, crashes, replans>>
  BY ProcessorRest
<1>3. /\ req \in [Slots -> AnyRequests] /\ req' \in [Slots -> AnyRequests] /\ x \in AnyRequests
      /\ \A s \in Slots : req'[s] = IF s = r THEN x ELSE req[s]
  BY <1>1 DEF AnyReq, Advances, Becomes
<1>4. ASSUME NEW s \in Slots PROVE Placed(s)'
  <2>1. CASE s # r
    BY <1>2, <1>3, <2>1 DEF AnyReq, Placed, Unsent
  <2>2. CASE s = r /\ x = NoRequest
    BY <1>3, <2>2 DEF NoRequest, Placed, Unsent
  <2>3. CASE s = r /\ x # NoRequest
    <3>1. x.cmd \in {"none", "jobsubmit", "jobresubmit", "jobcancel"}
      BY <1>3 DEF AnyRequests
    <3> QED
      BY <1>1, <1>2, <1>3, <2>3, <3>1 DEF Advances, Placed, Unsent
  <2> QED
    BY <2>1, <2>2, <2>3
<1>5. ASSUME NEW s \in Slots, Unsent(s)'
      PROVE  Unsent(s) /\ ~Deliver(r) /\ (s = r \/ ~IsSubmission(r))
  <2>1. Unsent(s)
    BY <1>1, <1>3, <1>5 DEF Advances, Unsent, NoRequest
  <2>2. s = r \/ ~IsSubmission(r)
    BY <2>1 DEF Newborn, IsSubmission
  <2>3. ASSUME Deliver(r) PROVE FALSE
    <3>1. req[r].pc = "deliver" /\ Placed(r)
      BY <2>3 DEF Deliver, At, AnyReq
    <3>2. IsSubmission(r)
      BY <1>3, <3>1 DEF Placed, AnyRequests, CancelPCs, IsSubmission
    <3>3. req[r].sent \in Nat /\ req'[r].sent = req[r].sent + 1
      <4>1. PICK y : Becomes(r, y) /\ Delivers(req[r], y)
        BY <1>3, <2>3, StepShapes DEF AnyRest
      <4> QED
        BY <1>3, <4>1 DEF Becomes, Delivers, AnyRequests
    <3> QED
      BY <1>5, <2>2, <3>2, <3>3 DEF Unsent
  <2> QED
    BY <2>1, <2>2, <2>3
<1>6. /\ out' \in Seq(AnyMessages)
      /\ \A i \in DOMAIN out : i \in DOMAIN out' /\ out'[i] = out[i]
      /\ Deliver(r) \/ \A i \in DOMAIN out' : i \in DOMAIN out \/ out'[i].kind = "Cancel"
  <2>1. CASE out' = out
    BY <2>1 DEF AnyRest
  <2> DEFINE e == [kind |-> "Cancel", tok |-> 0]
             d == [kind |-> IF req[r].rp THEN "Reschedule" ELSE "Submit",
                   tok |-> req[r].n]
  <2>2. e \in AnyMessages /\ e.kind = "Cancel" /\ d \in AnyMessages
    BY <1>3 DEF AnyMessages, AnyRequests
  <2>3. Deliver(r) => out' = Append(out, d)
    BY DEF Deliver
  <2> HIDE DEF e, d
  <2>4. CASE out' = Append(out, e)
    BY <2>2, <2>4, AppendForms DEF AnyRest
  <2>5. CASE Deliver(r)
    <3>1. out' = Append(out, d) /\ out \in Seq(AnyMessages)
      BY <2>3, <2>5 DEF AnyRest
    <3>2. /\ out' \in Seq(AnyMessages)
          /\ \A i \in DOMAIN out : i \in DOMAIN out' /\ out'[i] = out[i]
      BY <2>2, <3>1, AppendForms
    <3> QED
      BY <2>5, <3>2
  <2> QED
    BY <1>2, <2>1, <2>4, <2>5 DEF e
<1>7. ASSUME NEW s \in Slots PROVE Newborn(s)'
  <2> SUFFICES ASSUME Unsent(s)' PROVE Newborn(s)'
    BY DEF Newborn
  <2>1. /\ Unsent(s) /\ ~Deliver(r) /\ (s = r \/ ~IsSubmission(r)) /\ Newborn(s)
        /\ req[r].k = 0 \/ ~IsSubmission(r)
    BY <1>5 DEF AnyReq, Placed
  <2>2. /\ tokens \subseteq {0} /\ tmps \subseteq {0}
        /\ copies = <<>> /\ rpl.pc = "idle" /\ lb.status # "scheduled" /\ lb.done # "failed"
        /\ \A i \in DOMAIN out : out[i].kind = "Cancel"
        /\ \A u \in Slots \ {s} : req[u].cmd \in {"none", "jobcancel"}
    BY <2>1 DEF Newborn
  <2>3. tokens' \subseteq {0} /\ tmps' \subseteq {0}
    BY <1>2, <2>1, <2>2
  <2>4. \A i \in DOMAIN out' : out'[i].kind = "Cancel"
    BY <1>6, <2>1, <2>2
  <2>5. \A u \in Slots \ {s} : req'[u].cmd \in {"none", "jobcancel"}
    BY <1>1, <1>3, <2>2 DEF Advances, NoRequest
  <2>6. lb'.status # "scheduled" /\ lb'.done # "failed"
    BY <1>2, <2>2 DEF Logged
  <2> QED
    BY <1>2, <2>2, <2>3, <2>4, <2>5, <2>6 DEF Newborn
<1>8. AnyRest'
  <2>1. tokens' \subseteq Nat /\ tmps' \subseteq Nat
    <3>1. req[r] \in AnyRequests
      BY <1>3
    <3>2. req[r].k \in Nat
      BY <3>1 DEF AnyRequests
    <3>3. tokens \subseteq Nat /\ tmps \subseteq Nat
      BY DEF AnyRest
    <3> QED
      BY <1>2, <3>2, <3>3
  <2>2. runs' \in Nat /\ limits' \in Limits /\ copies' \in Seq(AnyCopies) /\ crashes' \in Nat
        /\ rpl' \in [pc : {"idle", "rename", "log", "deliver", "delivered"},
                    tmp : BOOLEAN, t : Nat]
        /\ up'
    <3>1. /\ runs' = runs /\ limits' = limits /\ copies' = copies /\ crashes' = crashes
          /\ rpl' = rpl /\ up'
      BY <1>2
    <3> QED
      BY <3>1 DEF AnyRest
  <2>3. lb' \in LBs
    BY <1>2 DEF Logged
  <2> QED
    BY <1>2, <1>6, <2>1, <2>2, <2>3 DEF AnyRest
<1>9. ASSUME (crashes = 0 \/ faults = 0)' PROVE Promised'
  <2>1. Promised /\ ~(crashes > 0 /\ faults' > 0)
    BY <1>2, <1>9 DEF AnyRest
  <2>2. CASE lb'.aborted \/ lb'.cancelled
    BY <2>2 DEF Promised
  <2>3. CASE lb.aborted \/ lb.cancelled \/ lb.done = "ok"
    BY <1>2, <2>3 DEF Promised, Logged
  <2>4. CASE \E i \in DOMAIN out : out[i].kind = "Submit"
    BY <1>6, <2>4 DEF Promised
  <2>5. CASE \E c \in DOMAIN copies : copies[c].known
    BY <1>2, <2>5 DEF Promised
  <2>6. ASSUME NEW s \in Slots, Handled(s), ~(lb'.aborted \/ lb'.cancelled) PROVE Promised'
    <3>1. CASE s # r
      <4>1. Handled(s)'
        BY <1>3, <2>6, <3>1 DEF Handled, Unsent
      <4> QED
        BY <4>1 DEF Promised
    <3>2. CASE /\ s = r /\ x.cmd = req[r].cmd /\ x.n0 = req[r].n0 /\ x.pc # "delivered"
               /\ Unsent(r) => x.sent = 0
      <4>1. Handled(s)'
        BY <1>3, <2>6, <3>2 DEF Handled, Unsent
      <4> QED
        BY <4>1 DEF Promised
    <3>3. CASE s = r /\ out' = Append(out, [kind |-> "Submit", tok |-> req[r].n])
      <4> DEFINE e == [kind |-> "Submit", tok |-> req[r].n]
      <4>1. e \in AnyMessages /\ e.kind = "Submit"
        BY <1>3 DEF AnyMessages, AnyRequests
      <4>2. out' = Append(out, e)
        BY <3>3
      <4> HIDE DEF e
      <4>3. Len(out) + 1 \in DOMAIN out' /\ out'[Len(out) + 1] = e
        BY <4>1, <4>2, AppendForms DEF AnyRest
      <4> QED
        BY <4>1, <4>3 DEF Promised
    <3> QED
      BY <1>1, <2>1, <2>6, <3>1, <3>2, <3>3 DEF Hands
  <2> QED
    BY <2>1, <2>2, <2>3, <2>4, <2>5, <2>6 DEF Promised
<1> QED
  BY <1>3, <1>4, <1>7, <1>8, <1>9 DEF AnyReq

-----------------------------------------------------------------------------
(* The steps of the others                                                 *)

\* What follows from the delivery of a request to the workload manager.
Arrives(r, cmd, n) ==
  /\ req[r].loc = "none" /\ req[r].cmd = "none" /\ req' \in [Slots -> AnyRequests]
  /\ \A s \in Slots \ {r} : req'[s] = req[s]
  /\ LET x == req'[r] IN
     /\ x.cmd = cmd /\ x.loc = "new" /\ x.pc = "idle" /\ x.n0 = n /\ x.n = n /\ x.k = 0
     /\ x.limbo = FALSE /\ x.queued = 0 /\ x.rp = FALSE /\ x.sent = 0

\* A delivered request is in a slot that was free; the others are not touched.
LEMMA DeliveryArrives ==
  ASSUME AnyReq, Free # {}, NEW cmd \in {"jobsubmit", "jobresubmit", "jobcancel"},
         NEW n \in Nat, cmd = "jobsubmit" => n > 0,
         req' = deliver(req, cmd, n), up' = up, crashes' = crashes
  PROVE  /\ AnyReq'
         /\ \E r \in Slots : Arrives(r, cmd, n)
         /\ \A s \in Slots : (Unsent(s)' => Unsent(s)) /\ (Handled(s) => Handled(s)')
         /\ cmd = "jobresubmit" => \E r \in Slots : Handled(r)'
<1>1. PICK r \in Free : req' = [req EXCEPT ![r] = Request(cmd, n)]
  BY DeliverIsFree
<1>2. r \in Slots /\ req[r].loc = "none" /\ req[r].cmd = "none" /\ req \in [Slots -> AnyRequests]
  BY DEF Free, AnyReq, Placed
<1> DEFINE y1 == [NoRequest EXCEPT !.cmd = cmd]
           y2 == [y1 EXCEPT !.loc = "new"]
           y3 == [y2 EXCEPT !.n0 = n]
           x  == [y3 EXCEPT !.n = n]
           Same(y) == /\ y \in AnyRequests /\ y.cmd = cmd /\ y.pc = "idle" /\ y.k = 0
                      /\ y.limbo = FALSE /\ y.queued = 0 /\ y.rp = FALSE /\ y.sent = 0
<1>3. Request(cmd, n) = x
  BY DEF Request
<1>4. Same(y1)
  BY DEF NoRequest, AnyRequests, PCs
<1> HIDE DEF y1
<1>5. Same(y2) /\ y2.loc = "new"
  BY <1>4 DEF AnyRequests
<1> HIDE DEF y2
<1>6. Same(y3) /\ y3.loc = "new" /\ y3.n0 = n
  BY <1>5 DEF AnyRequests
<1> HIDE DEF y3
<1>7. Same(x) /\ x.loc = "new" /\ x.n0 = n /\ x.n = n
  BY <1>6 DEF AnyRequests
<1> HIDE DEF x
<1>8. /\ req' \in [Slots -> AnyRequests]
      /\ \A s \in Slots : req'[s] = IF s = r THEN x ELSE req[s]
  BY <1>1, <1>2, <1>3, <1>7
<1>9. Arrives(r, cmd, n)
  BY <1>2, <1>7, <1>8 DEF Arrives
<1>10. ~Unsent(r)'
  BY <1>2, <1>7, <1>8 DEF Unsent
<1>11. ASSUME NEW s \in Slots PROVE Placed(s)'
  <2>1. CASE s # r
    BY <1>8, <2>1 DEF AnyReq, Placed, Unsent
  <2>2. CASE s = r
    BY <1>7, <1>8, <1>10, <2>2 DEF Placed, SubmitPCs, CancelPCs
  <2> QED
    BY <2>1, <2>2
<1>12. \A s \in Slots : Unsent(s)' => Unsent(s)
  BY <1>8, <1>10 DEF Unsent
<1>13. \A s \in Slots : Handled(s) => Handled(s)'
  BY <1>2, <1>8 DEF Handled, Unsent
<1>14. cmd = "jobresubmit" => Handled(r)'
  BY <1>2, <1>7, <1>8 DEF Handled
<1> QED
  BY <1>2, <1>8, <1>9, <1>11, <1>12, <1>13, <1>14 DEF AnyReq

\* Once the user's submission is delivered there is none any more.
LEMMA Grown ==
  ASSUME \A r \in Slots : Newborn(r),
         \/ copies # <<>> \/ rpl.pc # "idle" \/ lb.status = "scheduled"
         \/ \E i \in DOMAIN out : out[i].kind # "Cancel",
         \A s \in Slots : Unsent(s)' => Unsent(s)
  PROVE  /\ \A s \in Slots : ~Unsent(s) /\ ~Unsent(s)' /\ Newborn(s)'
BY DEF Newborn

\* A step that leaves the requests alone.
LEMMA SameRequests ==
  ASSUME AnyReq, req' = req, up' = up, crashes' = crashes
  PROVE  AnyReq' /\ \A s \in Slots : (Unsent(s)' <=> Unsent(s)) /\ (Handled(s) => Handled(s)')
BY DEF AnyReq, Placed, Unsent, Handled

\* Who has the job keeps it.
LEMMA SamePromise ==
  ASSUME Promised, lb'.aborted \/ lb'.cancelled \/
           (lb'.aborted = lb.aborted /\ lb'.cancelled = lb.cancelled),
         lb'.done = lb.done,
         \A s \in Slots : Handled(s) => Handled(s)',
         \A i \in DOMAIN out : out[i].kind = "Submit"
           => \E h \in DOMAIN out' : out'[h] = out[i],
         (\E c \in DOMAIN copies : copies[c].known)
           => \E c \in DOMAIN copies' : copies'[c].known
  PROVE  Promised'
<1>1. ASSUME NEW i \in DOMAIN out, out[i].kind = "Submit" PROVE Promised'
  <2>1. PICK h \in DOMAIN out' : out'[h] = out[i]
    BY <1>1
  <2> QED
    BY <1>1, <2>1 DEF Promised
<1> QED
  BY <1>1 DEF Promised

\* The Replanner.
LEMMA ReplannerPromises ==
  ASSUME AnyInv, Replanner
  PROVE  AnyInv'
<1> USE DEF AnyInv
<1>1. /\ lb \in LBs /\ tokens \subseteq Nat /\ tmps \subseteq Nat /\ rpl.t \in Nat
      /\ rpl.tmp \in BOOLEAN /\ faults \in Nat
  BY DEF AnyRest
<1>2. /\ copies' = copies /\ out' = out /\ up' = up /\ crashes' = crashes /\ up
      /\ runs' = runs /\ limits' = limits /\ sandbox' = sandbox
      /\ faults' = faults \/ faults' = faults + 1
  BY DEF Replanner, ReplanLook, ReplanRename, ReplanLog, ReplanDeliver, ReplanDeliverFails,
     ReplanDelivered, files, cream, counts, Fault
<1>3. Logged
  <2>1. \/ lb' = lb \/ lb' = log_abort \/ \E e \in {"fail", "ok"} : lb' = [lb EXCEPT !.enq = e]
        \/ lb' = [lb EXCEPT !.status = "waiting", !.shallow = @ + 1, !.enq = "start"]
    BY DEF Replanner, ReplanLook, ReplanRename, ReplanLog, ReplanDeliver, ReplanDeliverFails,
       ReplanDelivered
  <2> QED
    BY <1>1, <2>1, LogsForms
<1>4. AnyReq' /\ \A s \in Slots : (Unsent(s)' => Unsent(s)) /\ (Handled(s) => Handled(s)')
  <2>1. CASE req' = req
    BY <1>2, <2>1, SameRequests
  <2>2. CASE ReplanDeliver
    <3>1. Free # {} /\ req' = deliver(req, "jobsubmit", rpl.t + 1)
      BY <2>2 DEF ReplanDeliver
    <3>2. rpl.t + 1 \in Nat /\ rpl.t + 1 > 0
      BY <1>1
    <3> QED
      BY <1>2, <3>1, <3>2, DeliveryArrives
  <2> QED
    BY <2>1, <2>2 DEF Replanner, ReplanLook, ReplanRename, ReplanLog, ReplanDeliverFails,
       ReplanDelivered
<1>5. \A s \in Slots : Newborn(s)'
  <2>1. rpl.pc # "idle" \/ lb.status = "scheduled"
    BY DEF Replanner, ReplanLook, ReplanRename, ReplanLog, ReplanDeliver, ReplanDeliverFails,
       ReplanDelivered
  <2> QED
    BY <1>4, <2>1, Grown
<1> DEFINE Rpls == [pc : {"idle", "rename", "log", "deliver", "delivered"}, tmp : BOOLEAN, t : Nat]
<1>6. rpl' \in Rpls
  <2>1. CASE ReplanLook
    <3>1. PICK f \in Names : rpl' = [pc |-> "rename", tmp |-> f[1], t |-> f[2]]
      BY <2>1 DEF ReplanLook
    <3>2. f[1] \in BOOLEAN /\ f[2] \in Nat
      <4>1. \E b \in BOOLEAN, n \in Nat : f = <<b, n>>
        BY <1>1, <3>1 DEF Names
      <4> QED
        BY <4>1
    <3> QED
      BY <3>1, <3>2
  <2>2. CASE ~ReplanLook
    <3>1. \E p \in {"idle", "log", "deliver", "delivered"} : rpl' = [rpl EXCEPT !.pc = p]
      BY <2>2 DEF Replanner, ReplanRename, ReplanLog, ReplanDeliver, ReplanDeliverFails,
         ReplanDelivered
    <3> QED
      BY <3>1 DEF AnyRest
  <2> QED
    BY <2>1, <2>2
<1>7. /\ tokens' \subseteq Nat /\ tmps' \subseteq Nat
      /\ ~sandbox => tokens' = {} /\ tmps' = {}
  <2>1. CASE UNCHANGED <<tokens, tmps>>
    BY <2>1 DEF AnyRest
  <2>2. CASE ReplanRename /\ <<rpl.tmp, rpl.t>> \in Names
    <3>1. tokens' \subseteq tokens \cup {rpl.t + 1} /\ tmps' \subseteq tmps
      BY <2>2 DEF ReplanRename
    <3>2. tokens # {} \/ tmps # {}
      BY <2>2 DEF Names
    <3>3. sandbox
      BY <3>2 DEF AnyRest
    <3>4. rpl.t + 1 \in Nat
      BY <1>1
    <3> QED
      BY <1>1, <3>1, <3>3, <3>4
  <2> QED
    BY <2>1, <2>2 DEF Replanner, ReplanLook, ReplanRename, ReplanLog, ReplanDeliver,
       ReplanDeliverFails, ReplanDelivered, files
<1>8. AnyRest'
  <2>1. /\ runs' \in Nat /\ limits' \in Limits /\ copies' \in Seq(AnyCopies) /\ crashes' \in Nat
        /\ out' \in Seq(AnyMessages) /\ up'
    BY <1>2 DEF AnyRest
  <2>2. lb' \in LBs /\ (~sandbox => lb'.aborted \/ lb'.cancelled)
    BY <1>3 DEF AnyRest, Logged
  <2>3. faults' \in Nat
    BY <1>1, <1>2
  <2> QED
    BY <1>2, <1>6, <1>7, <2>1, <2>2, <2>3 DEF AnyRest
<1>9. ASSUME (crashes = 0 \/ faults = 0)' PROVE Promised'
  <2>1. Promised
    BY <1>1, <1>2, <1>9
  <2> QED
    BY <1>2, <1>3, <1>4, <2>1, SamePromise DEF Logged
<1> QED
  BY <1>4, <1>5, <1>8, <1>9

\* ICE: it forgets a copy only for one that it knows, or for a resubmission.
LEMMA IcePromises ==
  ASSUME AnyInv, ICE
  PROVE  AnyInv'
<1> USE DEF AnyInv
<1>1. /\ lb \in LBs /\ tokens \subseteq Nat /\ tmps \subseteq Nat /\ faults \in Nat
      /\ out \in Seq(AnyMessages) /\ copies \in Seq(AnyCopies)
  BY DEF AnyRest
<1>2. /\ rpl' = rpl /\ runs' = runs /\ up' = up /\ crashes' = crashes /\ limits' = limits
      /\ faults' = faults \/ faults' = faults + 1
  BY DEF ICE, IceSubmit, IceReschedule, IceCancel, IceOutcome, SubmitOk, SubmitFails, counts,
     Fault
<1> DEFINE Held == /\ lb' \in LBs
                   /\ (tokens' = {} /\ tmps' = {}) \/ sandbox' = sandbox
                   /\ sandbox' = sandbox \/ lb'.aborted \/ lb'.cancelled
                   /\ tokens' \subseteq tokens /\ tmps' \subseteq tmps
                   /\ \/ lb'.aborted \/ lb'.cancelled
                      \/ lb'.aborted = lb.aborted /\ lb'.cancelled = lb.cancelled
                   /\ out' \in Seq(AnyMessages) /\ copies' \in Seq(AnyCopies)
           Given == /\ AnyReq' /\ \A s \in Slots : Unsent(s)' => Unsent(s)
                    /\ \A s \in Slots : Newborn(s)'
<1>3. ASSUME Held PROVE AnyRest'
  <2>1. /\ runs' \in Nat /\ limits' \in Limits /\ crashes' \in Nat
        /\ ~up' => crashes' # 0 /\ rpl'.pc = "idle"
        /\ rpl' \in [pc : {"idle", "rename", "log", "deliver", "delivered"},
                     tmp : BOOLEAN, t : Nat]
    BY <1>2 DEF AnyRest
  <2>2. faults' \in Nat
    BY <1>1, <1>2
  <2>3. ~sandbox' => tokens' = {} /\ tmps' = {} /\ (lb'.aborted \/ lb'.cancelled)
    BY <1>3 DEF AnyRest
  <2>4. tokens' \subseteq Nat /\ tmps' \subseteq Nat
    BY <1>1, <1>3
  <2> QED
    BY <1>3, <2>1, <2>2, <2>3, <2>4 DEF AnyRest
<1>4. /\ crashes = 0 \/ faults = 0 => Promised
      /\ (crashes = 0 \/ faults = 0)' => crashes = 0 \/ faults = 0
  BY <1>1, <1>2
<1>5. ASSUME \/ copies # <<>> \/ \E i \in DOMAIN out : out[i].kind # "Cancel",
             req' = req \/ (Free # {} /\ req' = deliver(req, "jobresubmit", 0))
      PROVE  /\ Given /\ \A s \in Slots : Handled(s) => Handled(s)'
             /\ req' # req => \E s \in Slots : Handled(s)'
  <2>1. AnyReq' /\ \A s \in Slots : (Unsent(s)' => Unsent(s)) /\ (Handled(s) => Handled(s)')
    BY <1>2, <1>5, SameRequests, DeliveryArrives
  <2>2. req' # req => \E s \in Slots : Handled(s)'
    BY <1>2, <1>5, DeliveryArrives
  <2> QED
    BY <1>5, <2>1, <2>2, Grown
<1> HIDE DEF Given
<1>6. ASSUME NEW i \in DOMAIN out, out' = RemoveAt(out, i)
      PROVE  /\ out' \in Seq(AnyMessages)
             /\ \A g \in DOMAIN out : g # i => \E h \in DOMAIN out' : out'[h] = out[g]
             /\ \A h \in DOMAIN out' : \E g \in DOMAIN out : out'[h] = out[g]
  BY <1>1, <1>6, RemoveForms
\* A submission that ICE makes of what it knows, q.
<1>7. ASSUME NEW q, Resembles(copies, q), NEW i \in DOMAIN out, out[i].kind # "Cancel",
             out' = RemoveAt(out, i), UNCHANGED files,
             SubmitOk(q, out[i].tok) \/ SubmitFails(q)
      PROVE  AnyInv'
  <2>1. q \in Seq(AnyCopies) /\ out[i].tok \in Nat /\ UNCHANGED <<tokens, tmps, sandbox>>
    <3>1. out[i] \in AnyMessages
      BY <1>1, ElementOfSeq, LenProperties
    <3> QED
      BY <1>7, <3>1 DEF Resembles, AnyMessages, files
  <2>2. req' = req \/ (Free # {} /\ req' = deliver(req, "jobresubmit", 0))
    BY <1>7 DEF SubmitOk, SubmitFails
  <2>3. Given /\ (req' # req => \E s \in Slots : Handled(s)')
    BY <1>5, <1>7, <2>2
  <2>4. CASE SubmitOk(q, out[i].tok)
    <3> DEFINE e == [tok |-> out[i].tok, st |-> "queued", known |-> TRUE]
    <3>1. e \in AnyCopies /\ e.known = TRUE
      BY <2>1 DEF AnyCopies
    <3>2. copies' = Append(q, e) /\ lb' = Status("scheduled") /\ req' = req
      BY <2>4 DEF SubmitOk
    <3> HIDE DEF e
    <3>3. /\ copies' \in Seq(AnyCopies) /\ Len(q) + 1 \in DOMAIN copies'
          /\ copies'[Len(q) + 1] = e
      BY <2>1, <3>1, <3>2, AppendForms
    <3>4. lb' \in LBs /\ lb'.aborted = lb.aborted /\ lb'.cancelled = lb.cancelled
      BY <1>1, <3>2 DEF Status, LBs, Statuses
    <3>5. Promised'
      BY <3>1, <3>3 DEF Promised
    <3> QED
      BY <1>3, <1>6, <1>7, <2>1, <2>3, <3>3, <3>4, <3>5 DEF Given
  <2>5. CASE SubmitFails(q)
    <3>1. copies' = q
      BY <2>5 DEF SubmitFails
    <3>2. \/ /\ Free # {} /\ req' = deliver(req, "jobresubmit", 0)
             /\ lb' = [lb EXCEPT !.status = "waiting", !.done = "failed"]
          \/ lb' = log_abort
      BY <2>5 DEF SubmitFails
    <3>3. /\ lb' \in LBs /\ (lb.aborted => lb'.aborted)
          /\ \/ lb'.aborted
             \/ lb'.aborted = lb.aborted /\ lb'.cancelled = lb.cancelled
      BY <1>1, <3>2 DEF log_abort, LBs, Statuses
    <3>4. Promised'
      <4>1. CASE lb' = log_abort
        <5>1. lb'.aborted
          BY <1>1, <4>1, LogsForms
        <5> QED
          BY <5>1 DEF Promised
      <4>2. CASE Free # {} /\ req' = deliver(req, "jobresubmit", 0)
        <5>1. \E s \in Slots : Handled(s)'
          BY <1>2, <4>2, DeliveryArrives
        <5> QED
          BY <5>1 DEF Promised
      <4> QED
        BY <3>2, <4>1, <4>2
    <3> QED
      BY <1>3, <1>6, <1>7, <2>1, <2>3, <3>1, <3>3, <3>4 DEF Given
  <2> QED
    BY <1>7, <2>4, <2>5
\* A message that ICE leaves out, or a cancellation: it knows the copies it knew.
<1>8. ASSUME NEW i \in DOMAIN out, out' = RemoveAt(out, i),
             UNCHANGED <<files, lb, req>>, Resembles(copies, copies'),
             \A c \in DOMAIN copies : copies'[c].known = copies[c].known,
             out[i].kind = "Submit" => \E c \in DOMAIN copies : copies[c].known
      PROVE  AnyInv'
  <2>1. AnyReq' /\ \A s \in Slots : (Unsent(s)' => Unsent(s)) /\ (Handled(s) => Handled(s)')
    BY <1>2, <1>8, SameRequests
  <2>2. /\ copies' \in Seq(AnyCopies) /\ DOMAIN copies' = DOMAIN copies
        /\ UNCHANGED <<tokens, tmps, sandbox>>
    BY <1>8 DEF Resembles, files
  <2>3. ASSUME NEW s \in Slots PROVE Newborn(s)'
    <3> SUFFICES ASSUME Unsent(s) PROVE Newborn(s)'
      BY <2>1 DEF Newborn
    <3>1. copies' = <<>>
      <4>1. copies = <<>>
        BY DEF Newborn
      <4>2. Len(copies') = 0
        BY <2>2, <4>1, LenProperties, EmptySeq
      <4> QED
        BY <2>2, <4>2, EmptySeq
    <3>2. \A h \in DOMAIN out' : out'[h].kind = "Cancel"
      BY <1>6, <1>8 DEF Newborn
    <3> QED
      BY <1>2, <1>8, <2>2, <3>1, <3>2 DEF Newborn
  <2>4. (crashes = 0 \/ faults = 0) => Promised'
    <3> SUFFICES ASSUME Promised PROVE Promised'
      BY <1>4
    <3>1. CASE \E c \in DOMAIN copies : copies[c].known
      BY <1>8, <2>2, <3>1 DEF Promised
    <3>2. CASE ~ \E c \in DOMAIN copies : copies[c].known
      <4>1. \A g \in DOMAIN out : out[g].kind = "Submit" => \E h \in DOMAIN out' : out'[h] = out[g]
        BY <1>6, <1>8, <3>2
      <4> QED
        BY <1>8, <2>1, <3>2, <4>1, SamePromise
    <3> QED
      BY <3>1, <3>2
  <2>5. AnyRest'
    BY <1>1, <1>3, <1>6, <1>8, <2>2
  <2> QED
    BY <1>4, <2>1, <2>3, <2>4, <2>5
<1>9. Resembles(copies, copies) /\ Resembles(copies, Forget(copies))
  BY <1>1, CopyForms DEF Resembles
<1>10. ASSUME NEW i \in DOMAIN out, IceSubmit(i) PROVE AnyInv'
  <2>1. out[i].kind = "Submit" /\ out' = RemoveAt(out, i) /\ UNCHANGED files
    BY <1>10 DEF IceSubmit
  <2>2. CASE Known(copies) # {} /\ UNCHANGED <<copies, lb, req, faults>>
    <3>1. \E c \in DOMAIN copies : copies[c].known
      BY <2>2 DEF Known
    <3> QED
      BY <1>8, <1>9, <2>1, <2>2, <3>1
  <2>3. CASE SubmitOk(copies, out[i].tok) \/ SubmitFails(copies)
    BY <1>7, <1>9, <2>1, <2>3
  <2> QED
    BY <1>10, <2>2, <2>3 DEF IceSubmit
<1>11. ASSUME NEW i \in DOMAIN out, IceReschedule(i) PROVE AnyInv'
  <2>1. out[i].kind = "Reschedule" /\ out' = RemoveAt(out, i) /\ UNCHANGED files
    BY <1>11 DEF IceReschedule
  <2>2. CASE UNCHANGED <<copies, lb, req, faults>>
    BY <1>8, <1>9, <2>1, <2>2
  <2>3. CASE SubmitOk(Forget(copies), out[i].tok) \/ SubmitFails(Forget(copies))
    BY <1>7, <1>9, <2>1, <2>3
  <2> QED
    BY <1>11, <2>2, <2>3 DEF IceReschedule
<1>12. ASSUME NEW i \in DOMAIN out, IceCancel(i) PROVE AnyInv'
  <2>1. out[i].kind = "Cancel" /\ out' = RemoveAt(out, i) /\ UNCHANGED <<files, lb, req>>
    BY <1>12 DEF IceCancel
  <2>2. /\ Resembles(copies, copies')
        /\ \A c \in DOMAIN copies : copies'[c].known = copies[c].known
    BY <1>1, <1>12, CopyForms
  <2> QED
    BY <1>8, <2>1, <2>2
<1>13. ASSUME NEW c \in DOMAIN copies, IceOutcome(c) PROVE AnyInv'
  <2>1. copies' = RemoveAt(copies, c) /\ out' = out
    BY <1>13 DEF IceOutcome
  <2>2. copies' \in Seq(AnyCopies) /\ copies # <<>>
    BY <1>1, <2>1, RemoveForms
  <2>3. /\ req' = req \/ (Free # {} /\ req' = deliver(req, "jobresubmit", 0))
        /\ (tokens' = {} /\ tmps' = {}) \/ UNCHANGED sandbox
        /\ tokens' \subseteq tokens /\ tmps' \subseteq tmps
    BY <1>13 DEF IceOutcome, files, Purge
  <2>4. Given /\ (req' # req => \E s \in Slots : Handled(s)')
    BY <1>5, <2>2, <2>3
  <2>5. /\ lb' \in LBs
        /\ \/ lb'.aborted \/ lb'.cancelled
           \/ /\ lb'.aborted = lb.aborted /\ lb'.cancelled = lb.cancelled
              /\ lb'.done = "ok" \/ (Free # {} /\ req' = deliver(req, "jobresubmit", 0))
              /\ sandbox' = sandbox
    <3>1. CASE lb' = [lb EXCEPT !.status = "done", !.done = "ok"] /\ UNCHANGED files
      BY <1>1, <3>1 DEF LBs, Statuses, files
    <3>2. CASE /\ lb' = [lb EXCEPT !.status = "waiting", !.done = "failed"]
               /\ Free # {} /\ req' = deliver(req, "jobresubmit", 0) /\ UNCHANGED files
      BY <1>1, <3>2 DEF LBs, Statuses, files
    <3>3. CASE lb' = [log_abort EXCEPT !.done = "failed"]
      BY <1>1, <3>3 DEF LBs, Statuses, log_abort
    <3>4. CASE lb' = log_cancelled
      BY <1>1, <3>4, LogsForms DEF Logged
    <3> QED
      BY <1>13, <3>1, <3>2, <3>3, <3>4 DEF IceOutcome
  <2>6. Promised'
    <3>1. CASE lb'.aborted \/ lb'.cancelled \/ lb'.done = "ok"
      BY <3>1 DEF Promised
    <3>2. CASE Free # {} /\ req' = deliver(req, "jobresubmit", 0)
      <4>1. \E s \in Slots : Handled(s)'
        BY <1>2, <3>2, DeliveryArrives
      <4> QED
        BY <4>1 DEF Promised
    <3> QED
      BY <2>5, <3>1, <3>2
  <2>7. sandbox' = sandbox \/ lb'.aborted \/ lb'.cancelled
    BY <2>5
  <2> QED
    BY <1>1, <1>3, <2>1, <2>2, <2>3, <2>4, <2>5, <2>6, <2>7 DEF Given
<1> QED
  BY <1>10, <1>11, <1>12, <1>13 DEF ICE

\* CREAM loses only copies that ICE does not know.
LEMMA CreamPromises ==
  ASSUME AnyInv, CREAM
  PROVE  AnyInv'
<1> USE DEF AnyInv
<1>1. /\ lb \in LBs /\ tokens \subseteq Nat /\ copies \in Seq(AnyCopies) /\ runs \in Nat
  BY DEF AnyRest
<1>2. PICK c \in DOMAIN copies : Start(c) \/ CopyFails(c) \/ CopyEnds(c) \/ Vanish(c)
  BY DEF CREAM
<1>3. /\ UNCHANGED <<req, rpl, out, up, crashes, faults, limits, tmps, sandbox>>
      /\ tokens' \subseteq tokens /\ (lb' = lb \/ lb' = Status("running"))
      /\ runs' = runs \/ runs' = runs + 1
  BY <1>2 DEF Start, CopyFails, CopyEnds, Vanish, files, counts
<1>4. Logged
  BY <1>1, <1>3, LogsForms DEF Statuses
<1>5. /\ copies' \in Seq(AnyCopies)
      /\ (\E d \in DOMAIN copies : copies[d].known)
           => \E d \in DOMAIN copies' : copies'[d].known
  <2>1. CASE Vanish(c)
    <3>1. copies' = RemoveAt(copies, c) /\ ~copies[c].known
      BY <2>1 DEF Vanish
    <3>2. /\ copies' \in Seq(AnyCopies)
          /\ \A g \in DOMAIN copies \ {c} : \E h \in DOMAIN copies' : copies'[h] = copies[g]
      BY <1>1, <3>1, RemoveForms
    <3>3. ASSUME NEW d \in DOMAIN copies, copies[d].known
          PROVE  \E h \in DOMAIN copies' : copies'[h].known
      <4>1. d # c
        BY <3>1, <3>3
      <4>2. PICK h \in DOMAIN copies' : copies'[h] = copies[d]
        BY <3>2, <4>1
      <4> QED
        BY <3>3, <4>2
    <3> QED
      BY <3>2, <3>3
  <2>2. ASSUME NEW s \in {"running", "failed", "ok"}, copies' = [copies EXCEPT ![c].st = s]
        PROVE  /\ copies' \in Seq(AnyCopies)
               /\ (\E d \in DOMAIN copies : copies[d].known)
                    => \E d \in DOMAIN copies' : copies'[d].known
    <3>1. /\ Resembles(copies, copies')
          /\ \A d \in DOMAIN copies : copies'[d].known = copies[d].known
      BY <1>1, <2>2, CopyForms
    <3> QED
      BY <3>1 DEF Resembles
  <2> QED
    BY <1>2, <2>1, <2>2 DEF Start, CopyFails, CopyEnds
<1>6. AnyReq' /\ \A s \in Slots : (Unsent(s)' => Unsent(s)) /\ (Handled(s) => Handled(s)')
  BY <1>3, SameRequests
<1>7. \A s \in Slots : Newborn(s)'
  <2>1. copies # <<>>
    BY <1>2
  <2> QED
    BY <1>6, <2>1, Grown
<1>8. AnyRest'
  <2>1. /\ limits' \in Limits /\ crashes' \in Nat /\ faults' \in Nat
        /\ ~up' => crashes' # 0 /\ rpl'.pc = "idle"
        /\ rpl' \in [pc : {"idle", "rename", "log", "deliver", "delivered"},
                     tmp : BOOLEAN, t : Nat]
        /\ out' \in Seq(AnyMessages)
    BY <1>3 DEF AnyRest
  <2>2. runs' \in Nat
    BY <1>1, <1>3
  <2>3. /\ tokens' \subseteq Nat /\ tmps' \subseteq Nat
        /\ ~sandbox' => tokens' = {} /\ tmps' = {} /\ (lb'.aborted \/ lb'.cancelled)
    BY <1>3, <1>4 DEF AnyRest, Logged
  <2> QED
    BY <1>4, <1>5, <2>1, <2>2, <2>3 DEF AnyRest, Logged
<1>9. ASSUME (crashes = 0 \/ faults = 0)' PROVE Promised'
  <2>1. Promised /\ \A i \in DOMAIN out : \E h \in DOMAIN out' : out'[h] = out[i]
    BY <1>3, <1>9
  <2> QED
    BY <1>4, <1>5, <1>6, <2>1, SamePromise DEF Logged
<1> QED
  BY <1>6, <1>7, <1>8, <1>9

\* The user's cancellation is one more request.
LEMMA UserPromises ==
  ASSUME AnyInv, UserCancels
  PROVE  AnyInv'
<1> USE DEF AnyInv
<1>1. /\ Free # {} /\ req' = deliver(req, "jobcancel", 0)
      /\ UNCHANGED <<tokens, tmps, sandbox, lb, rpl, out, copies, runs, up, limits, crashes, faults>>
  BY DEF UserCancels, files, cream
<1>2. AnyReq' /\ \A s \in Slots : (Unsent(s)' => Unsent(s)) /\ (Handled(s) => Handled(s)')
  BY <1>1, DeliveryArrives
<1>3. PICK r \in Slots : Arrives(r, "jobcancel", 0)
  BY <1>1, DeliveryArrives
<1>4. ASSUME NEW s \in Slots PROVE Newborn(s)'
  <2> SUFFICES ASSUME Unsent(s) PROVE Newborn(s)'
    BY <1>2 DEF Newborn
  <2>1. \A u \in Slots \ {s} : req'[u].cmd \in {"none", "jobcancel"}
    BY <1>3 DEF Newborn, Arrives
  <2> QED
    BY <1>1, <2>1 DEF Newborn
<1>5. AnyRest'
  BY <1>1 DEF AnyRest
<1>6. Promised => Promised'
  <2>1. \A i \in DOMAIN out : \E h \in DOMAIN out' : out'[h] = out[i]
    BY <1>1
  <2> QED
    BY <1>1, <1>2, <2>1, SamePromise
<1> QED
  BY <1>1, <1>2, <1>4, <1>5, <1>6

\* The files of the requests survive a crash.
LEMMA OnDiskForms ==
  ASSUME NEW x \in AnyRequests
  PROVE  /\ OnDisk(x) \in AnyRequests /\ OnDisk(x).cmd = x.cmd /\ OnDisk(x).loc = x.loc
         /\ OnDisk(x).pc = "idle" /\ OnDisk(x).limbo = FALSE /\ OnDisk(x).rp = FALSE
         /\ OnDisk(x).k = 0 /\ OnDisk(x).n0 = x.n0 /\ OnDisk(x).n = x.n0
         /\ OnDisk(x).sent = x.sent
<1> DEFINE y1 == [NoRequest EXCEPT !.cmd = x.cmd]
           y2 == [y1 EXCEPT !.loc = x.loc]
           y3 == [y2 EXCEPT !.n0 = x.n0]
           y4 == [y3 EXCEPT !.n = x.n0]
           y5 == [y4 EXCEPT !.sent = x.sent]
           Same(y) == /\ y \in AnyRequests /\ y.cmd = x.cmd /\ y.pc = "idle" /\ y.limbo = FALSE
                      /\ y.rp = FALSE /\ y.k = 0
<1>1. OnDisk(x) = y5
  BY DEF OnDisk
<1>2. /\ x.cmd \in {"none", "jobsubmit", "jobresubmit", "jobcancel"}
      /\ x.loc \in {"none", "new", "old"} /\ x.n0 \in Nat /\ x.sent \in Nat
  BY DEF AnyRequests
<1>3. Same(y1)
  BY <1>2 DEF NoRequest, AnyRequests, PCs
<1> HIDE DEF y1
<1>4. Same(y2) /\ y2.loc = x.loc
  BY <1>2, <1>3 DEF AnyRequests
<1> HIDE DEF y2
<1>5. Same(y3) /\ y3.loc = x.loc /\ y3.n0 = x.n0
  BY <1>2, <1>4 DEF AnyRequests
<1> HIDE DEF y3
<1>6. Same(y4) /\ y4.loc = x.loc /\ y4.n0 = x.n0 /\ y4.n = x.n0
  BY <1>2, <1>5 DEF AnyRequests
<1> HIDE DEF y4
<1>7. Same(y5) /\ y5.loc = x.loc /\ y5.n0 = x.n0 /\ y5.n = x.n0 /\ y5.sent = x.sent
  BY <1>2, <1>6 DEF AnyRequests
<1> QED
  BY <1>1, <1>7

\* A crash leaves the files of the requests, ICE's input and the copies.
LEMMA CrashPromises ==
  ASSUME AnyInv, Crash
  PROVE  AnyInv'
<1> USE DEF AnyInv
<1>1. /\ ~up' /\ crashes' = crashes + 1 /\ rpl' = [pc |-> "idle", tmp |-> FALSE, t |-> 0]
      /\ req' = [r \in Slots |-> OnDisk(req[r])]
      /\ UNCHANGED <<tokens, tmps, sandbox, lb, out, copies, runs, limits, faults>>
  BY DEF Crash, files, cream
<1>2. ASSUME NEW s \in Slots
      PROVE  /\ req'[s] \in AnyRequests /\ req'[s].cmd = req[s].cmd
             /\ req'[s].loc = req[s].loc /\ req'[s].pc = "idle" /\ req'[s].limbo = FALSE
             /\ req'[s].rp = FALSE /\ req'[s].k = 0 /\ req'[s].n0 = req[s].n0
             /\ req'[s].n = req[s].n0 /\ req'[s].sent = req[s].sent
  <2>1. req[s] \in AnyRequests /\ req'[s] = OnDisk(req[s])
    BY <1>1 DEF AnyReq
  <2> QED
    BY <2>1, OnDiskForms
<1>3. \A s \in Slots : Unsent(s)' <=> Unsent(s)
  BY <1>2 DEF Unsent
<1>4. AnyReq'
  <2>1. req' \in [Slots -> AnyRequests]
    BY <1>1, <1>2
  <2>2. ASSUME NEW s \in Slots PROVE Placed(s)'
    <3>1. Unsent(s)' => req'[s].n = 0 /\ req'[s].k = 0
      BY <1>2 DEF Unsent
    <3>2. req[s].loc = "none" <=> req[s].cmd = "none"
      BY DEF AnyReq, Placed
    <3> QED
      BY <1>1, <1>2, <3>1, <3>2 DEF Placed, SubmitPCs, CancelPCs
  <2> QED
    BY <2>1, <2>2 DEF AnyReq
<1>5. \A s \in Slots : Newborn(s)'
  BY <1>1, <1>2, <1>3 DEF Newborn
<1>6. AnyRest'
  <2>1. rpl' \in [pc : {"idle", "rename", "log", "deliver", "delivered"},
                  tmp : BOOLEAN, t : Nat] /\ rpl'.pc = "idle"
    BY <1>1
  <2>2. crashes' \in Nat /\ crashes' # 0
    BY <1>1 DEF AnyRest
  <2> QED
    BY <1>1, <2>1, <2>2 DEF AnyRest
<1>7. ASSUME (crashes = 0 \/ faults = 0)' PROVE Promised'
  <2>1. Promised
    BY <1>1, <1>7 DEF AnyRest
  <2>2. \A s \in Slots : Handled(s) => Handled(s)'
    BY <1>2, <1>3 DEF Handled
  <2>3. \A i \in DOMAIN out : \E h \in DOMAIN out' : out'[h] = out[i]
    BY <1>1
  <2> QED
    BY <1>1, <2>1, <2>2, <2>3, SamePromise
<1> QED
  BY <1>4, <1>5, <1>6, <1>7

\* What recovery() makes of a request.
LEMMA RecoveredForms ==
  ASSUME NEW x \in AnyRequests, NEW answers \in BOOLEAN, x.loc # "none"
  PROVE  LET y == Recovered(x, answers) IN
         /\ y \in AnyRequests /\ y.cmd = x.cmd /\ y.loc = "old" /\ y.n0 = x.n0 /\ y.n = x.n
         /\ y.k = x.k /\ y.rp = x.rp /\ y.sent = x.sent
         /\ \/ y.pc = "queued"
            \/ x.cmd = "jobsubmit" /\ lb.done = "failed" /\ y.pc = x.pc
<1> DEFINE w == /\ x.cmd # "jobcancel"
                /\ answers => lb.status # "waiting" /\ in_limbo
           z1 == [x EXCEPT !.loc = "old"]
           z2 == [z1 EXCEPT !.pc = "queued"]
           z3 == [z2 EXCEPT !.limbo = w]
           Same(y) == /\ y \in AnyRequests /\ y.cmd = x.cmd /\ y.loc = "old" /\ y.n0 = x.n0
                      /\ y.n = x.n /\ y.k = x.k /\ y.rp = x.rp /\ y.sent = x.sent
<1>1. \/ Recovered(x, answers) = z3
      \/ Recovered(x, answers) = z1 /\ x.cmd = "jobsubmit" /\ lb.done = "failed"
  BY DEF Recovered
<1>2. w \in BOOLEAN
  OBVIOUS
<1> HIDE DEF w
<1>3. Same(z1) /\ z1.pc = x.pc
  BY DEF AnyRequests
<1> HIDE DEF z1
<1>4. Same(z2) /\ z2.pc = "queued"
  BY <1>3 DEF AnyRequests, PCs
<1> HIDE DEF z2
<1>5. Same(z3) /\ z3.pc = "queued"
  BY <1>2, <1>4 DEF AnyRequests
<1> HIDE DEF z3
<1> QED
  BY <1>1, <1>3, <1>5

\* recovery() redoes every request that the job depends on.
LEMMA RestartPromises ==
  ASSUME AnyInv, Restart
  PROVE  AnyInv'
<1> USE DEF AnyInv
<1>1. /\ ~up /\ up'
      /\ UNCHANGED <<tokens, tmps, sandbox, lb, rpl, out, copies, runs, limits, crashes, faults>>
  BY DEF Restart, cream
<1>2. PICK answers \in BOOLEAN : req' = [r \in Slots |-> Recovered(req[r], answers)]
  BY DEF Restart
<1>3. ASSUME NEW s \in Slots
      PROVE  /\ req'[s] \in AnyRequests /\ req'[s].cmd = req[s].cmd /\ req'[s].n0 = req[s].n0
             /\ req'[s].n = req[s].n /\ req'[s].k = req[s].k /\ req'[s].rp = req[s].rp
             /\ req'[s].sent = req[s].sent
             /\ req[s].loc = "none" => req'[s] = req[s]
             /\ req[s].loc # "none" =>
                  /\ req'[s].loc = "old"
                  /\ \/ req'[s].pc = "queued"
                     \/ req[s].cmd = "jobsubmit" /\ lb.done = "failed" /\ req'[s].pc = req[s].pc
  <2>1. req[s] \in AnyRequests /\ req'[s] = Recovered(req[s], answers)
    BY <1>2 DEF AnyReq
  <2>2. CASE req[s].loc = "none"
    BY <2>1, <2>2 DEF Recovered
  <2>3. CASE req[s].loc # "none"
    BY <2>1, <2>3, RecoveredForms
  <2> QED
    BY <2>2, <2>3
<1>4. \A s \in Slots : Unsent(s)' <=> Unsent(s)
  BY <1>3 DEF Unsent
<1>5. AnyReq'
  <2>1. req' \in [Slots -> AnyRequests]
    BY <1>2, <1>3
  <2>2. ASSUME NEW s \in Slots PROVE Placed(s)'
    <3>1. crashes' # 0
      BY <1>1 DEF AnyRest
    <3>2. Placed(s) /\ Newborn(s)
      BY DEF AnyReq
    <3>3. CASE req[s].loc = "none"
      BY <1>1, <1>3, <1>4, <3>1, <3>2, <3>3 DEF Placed
    <3>4. req[s].pc = "idle" /\ ~req[s].rp
      BY <1>1, <3>2 DEF Placed
    <3>5. CASE req[s].loc # "none" /\ req'[s].pc = "queued"
      BY <1>1, <1>3, <1>4, <3>1, <3>2, <3>4, <3>5 DEF Placed, SubmitPCs, CancelPCs
    <3>6. CASE /\ req[s].loc # "none" /\ req[s].cmd = "jobsubmit" /\ lb.done = "failed"
               /\ req'[s].pc = req[s].pc
      <4>1. ~Unsent(s)
        BY <3>2, <3>6 DEF Newborn
      <4> QED
        BY <1>1, <1>3, <1>4, <3>1, <3>2, <3>4, <3>6, <4>1 DEF Placed, SubmitPCs
    <3> QED
      BY <1>3, <3>3, <3>5, <3>6
  <2> QED
    BY <2>1, <2>2 DEF AnyReq
<1>6. \A s \in Slots : Newborn(s)'
  BY <1>1, <1>3, <1>4 DEF Newborn
<1>7. AnyRest'
  BY <1>1 DEF AnyRest
<1>8. ASSUME (crashes = 0 \/ faults = 0)' PROVE Promised'
  <2>1. Promised
    BY <1>1, <1>8
  <2>2. ASSUME NEW s \in Slots, Handled(s) PROVE Handled(s)'
    <3>1. req[s].cmd = "jobresubmit" => req'[s].pc # "delivered"
      BY <1>3, <2>2 DEF Handled, Unsent, AnyReq, Placed
    <3> QED
      BY <1>3, <1>4, <2>2, <3>1 DEF Handled
  <2>3. \A i \in DOMAIN out : \E h \in DOMAIN out' : out'[h] = out[i]
    BY <1>1
  <2> QED
    BY <1>1, <2>1, <2>2, <2>3, SamePromise
<1> QED
  BY <1>5, <1>6, <1>7, <1>8

\* The job as it is submitted.
LEMMA AnyInit ==
  ASSUME Init
  PROVE  AnyInv
<1> DEFINE x == Request("jobsubmit", 0)
<1>1. req = [s \in Slots |-> IF s = 1 THEN x ELSE NoRequest] /\ 1 \in Slots
  BY JobAssumption DEF Init
<1>2. NoRequest \in AnyRequests
  BY DEF NoRequest, AnyRequests, PCs
<1> DEFINE y1 == [NoRequest EXCEPT !.cmd = "jobsubmit"]
           y2 == [y1 EXCEPT !.loc = "new"]
           y3 == [y2 EXCEPT !.n0 = 0]
           y4 == [y3 EXCEPT !.n = 0]
           Same(y) == /\ y \in AnyRequests /\ y.cmd = "jobsubmit" /\ y.pc = "idle" /\ y.k = 0
                      /\ y.limbo = FALSE /\ y.rp = FALSE /\ y.sent = 0
<1>3. x = y4
  BY DEF Request
<1> HIDE DEF x
<1>4. Same(y1)
  BY <1>2 DEF NoRequest, AnyRequests, PCs
<1> HIDE DEF y1
<1>5. Same(y2) /\ y2.loc = "new"
  BY <1>4 DEF AnyRequests
<1> HIDE DEF y2
<1>6. Same(y3) /\ y3.loc = "new" /\ y3.n0 = 0
  BY <1>5 DEF AnyRequests
<1> HIDE DEF y3
<1>7. Same(y4) /\ y4.loc = "new" /\ y4.n0 = 0 /\ y4.n = 0
  BY <1>6 DEF AnyRequests
<1> HIDE DEF y4
<1>8. /\ req \in [Slots -> AnyRequests] /\ req[1] = x
      /\ \A s \in Slots : req[s] = IF s = 1 THEN x ELSE NoRequest
  BY <1>1, <1>2, <1>3, <1>7
<1>9. Unsent(1) /\ \A s \in Slots \ {1} : req[s].cmd = "none" /\ ~Unsent(s)
  BY <1>3, <1>7, <1>8 DEF Unsent, NoRequest
<1>10. ASSUME NEW s \in Slots PROVE Placed(s)
  <2>1. CASE s = 1
    BY <1>3, <1>7, <1>8, <2>1 DEF Placed, SubmitPCs, Init
  <2>2. CASE s # 1
    BY <1>8, <1>9, <2>2 DEF Placed, NoRequest
  <2> QED
    BY <2>1, <2>2
<1>11. /\ lb = [status |-> "submitted", enq |-> "none", done |-> "none",
                deep |-> 0, shallow |-> 0, aborted |-> FALSE, cancelled |-> FALSE]
       /\ lb \in LBs /\ lb.status = "submitted" /\ lb.done = "none"
  BY DEF Init, LBs, Statuses
<1>12. AnyRest
  BY <1>11, EmptySeq DEF Init, AnyRest
<1>13. \A s \in Slots : Newborn(s)
  BY <1>9, <1>11, EmptySeq DEF Newborn, Init
<1>14. Promised
  BY <1>1, <1>9 DEF Promised, Handled
<1> QED
  BY <1>8, <1>10, <1>12, <1>13, <1>14 DEF AnyInv, AnyReq

\* Every step keeps the invariant.
LEMMA AnyNext ==
  ASSUME AnyInv, [Next]_vars
  PROVE  AnyInv'
<1>1. CASE UNCHANGED vars
  <2>1. UNCHANGED <<req, tokens, tmps, sandbox, lb, rpl, out, copies, runs, up, limits,
                    crashes, faults>>
    BY <1>1 DEF vars
  <2> QED
    BY <2>1 DEF AnyInv, AnyReq, Placed, AnyRest, Newborn, Promised, Handled, Unsent
<1> QED
  BY <1>1, ProcessorPromises, ReplannerPromises, IcePromises, CreamPromises, UserPromises,
     CrashPromises, RestartPromises DEF Next

\* What holds of a job that may be replanned, however often the workload manager
\* crashes.
THEOREM AnyInvariance == Spec => []AnyInv
<1>1. Init => AnyInv
  BY AnyInit
<1>2. AnyInv /\ [Next]_vars => AnyInv'
  BY AnyNext
<1> QED
  BY <1>1, <1>2, PTL DEF Spec

\* A job that nobody handles any more has come to an end the user can see, however
\* often it was replanned, whatever fails if the workload manager never crashes, and
\* however often it crashes if the environment does not fail it: the job is with
\* its submission, in ICE's input, with a copy that ICE knows, or with a resubmission,
\* and recovery() leaves out none of them.
THEOREM ReplannedIsTold == Spec => [](crashes = 0 \/ faults = 0 => NotForgotten)
<1>1. ASSUME AnyInv, crashes = 0 \/ faults = 0, Quiet
      PROVE  lb.aborted \/ lb.cancelled \/ lb.done = "ok"
  <2>1. AnyReq /\ Promised
    BY <1>1 DEF AnyInv
  <2>2. ASSUME NEW r \in Slots, Handled(r) PROVE FALSE
    BY <1>1, <2>1, <2>2 DEF Quiet, Resting, AnyReq, Placed, Handled, Unsent
  <2> QED
    BY <1>1, <2>1, <2>2 DEF Promised, Quiet
<1>2. AnyInv => (crashes = 0 \/ faults = 0 => NotForgotten)
  BY <1>1 DEF NotForgotten
<1> QED
  BY <1>2, AnyInvariance, PTL

-----------------------------------------------------------------------------
(* A job without retries                                                   *)

\* The job is not resubmitted, and the workload manager does not crash.
NoRetries == crashes = 0 /\ limits.deep = 0 /\ limits.shallow = 0

\* The next copy of the job is with request r, with message i of ICE's input, or
\* with the Replanner, which may take a job whose status or token it has seen.
Sending(r) == req[r].cmd = "jobsubmit" /\ req[r].pc # "delivered"
Carried(i) == out[i].kind # "Cancel"
Late == rpl.pc \in {"log", "deliver"}
Open == lb.status = "scheduled" \/ rpl.pc = "rename"

\* Of such a job: a request leaves the code when its processing ends, a resubmission
\* does not get past its limit, a replan knows its token.
Replan(x) == /\ x.n = x.n0 /\ x.pc # "restore" /\ (x.pc = "token" => x.k = x.n0)
             /\ x.pc \in {"plan", "check", "deliver"} => x.rp
Frugal(x) ==
  /\ x.queued = 0 /\ (x.loc = "old" => x.pc # "idle")
  /\ x.cmd = "jobresubmit" => x.pc \in {"idle", "queued", "scan", "token", "count"}
  /\ x.pc = "count" => x.cmd = "jobresubmit"
  /\ x.sent # 0 => x.pc = "delivered"
  /\ x.cmd = "jobsubmit" /\ x.pc # "delivered" /\ x.n0 # 0 => Replan(x)

\* The user's submission creates the first token, and nothing runs before.
First(r) ==
  Unsent(r) =>
    /\ runs = 0 /\ (tmps # {} => req[r].pc = "restore")
    /\ sandbox /\ req[r].pc \in {"plan", "check", "deliver"} => tokens = {0}

\* The next copy is in one place.
OneSender ==
  /\ \A r, s \in Slots : Sending(r) /\ Sending(s) => r = s
  /\ \A i, h \in DOMAIN out : Carried(i) /\ Carried(h) => i = h
  /\ \A r \in Slots, i \in DOMAIN out : ~(Sending(r) /\ Carried(i))
  /\ \A r \in Slots : Sending(r) => ~Late /\ ~Open
  /\ \A i \in DOMAIN out : Carried(i) => ~Late /\ ~Open
  /\ rpl.pc = "deliver" => lb.status # "scheduled"

\* The count m is that of the token, the copies there are have smaller ones and
\* none of them has started.
Ahead(m) == /\ \A c \in DOMAIN copies : copies[c].tok < m
            /\ runs = 0 /\ (sandbox => tokens \cup tmps = {m})

Ordered ==
  /\ \A r \in Slots : Sending(r) /\ req[r].n0 # 0 => Ahead(req[r].n0)
  /\ \A i \in DOMAIN out : Carried(i) => Ahead(out[i].tok)
  /\ Late => Ahead(rpl.t + 1)

\* There is one token, no copy is newer, and none is left once a copy has started.
OneName == /\ \A m, n \in tokens \cup tmps : m = n
           /\ tokens \cap tmps = {}
Single ==
  /\ \A c \in DOMAIN copies : \A m \in tokens \cup tmps : copies[c].tok <= m
  /\ OneName \/ \E r \in Slots : Unsent(r) /\ req[r].pc = "restore"
  /\ runs \in {0, 1} /\ (runs # 0 => tokens \cup tmps = {})
  /\ \A c \in DOMAIN copies : copies[c].st = "running" => runs = 1
  /\ \A c, d \in DOMAIN copies :
       copies[c].st = "running" /\ copies[d].st = "running" => c = d

Once == /\ \A r \in Slots : Frugal(req[r]) /\ First(r)
        /\ OneSender /\ Ordered /\ Single

\* What becomes of a request that ends, is postponed or moves on.
LEMMA FrugalForms ==
  ASSUME NEW x \in AnyRequests, Frugal(x)
  PROVE  /\ Frugal(NoRequest)
         /\ \A y : Ended(x, y) => y = NoRequest
         /\ \A y : Requeued(x, y) /\ y.queued = x.queued /\ x.sent = 0
                   /\ x.pc # "delivered" => Frugal(y)
         /\ \A y, p : /\ Moved(x, y, p) /\ x.sent = 0 /\ p \notin {"idle", "restore", "token"}
                      /\ x.cmd = "jobresubmit" => p = "count"
                      /\ p = "count" => x.cmd = "jobresubmit"
                      /\ x.cmd = "jobsubmit" /\ x.n0 # 0 => x.rp /\ x.pc # "delivered"
                      => Frugal(y)
         /\ \A y, p : Moved(x, y, p) /\ x.sent = 0 /\ p = "restore" /\ x.cmd = "jobsubmit"
                      /\ x.n0 = 0 => Frugal(y)
<1>1. Frugal(NoRequest)
  BY DEF Frugal, NoRequest
<1>2. \A y : Ended(x, y) => y = NoRequest
  BY DEF Frugal, Ended
<1>3. ASSUME NEW y, Requeued(x, y), y.queued = x.queued, x.sent = 0, x.pc # "delivered"
      PROVE  Frugal(y)
  <2>1. y.cmd = "jobsubmit" /\ y.n0 # 0 => y.n = y.n0
    BY <1>3 DEF Frugal, Requeued, Alike, Replan
  <2> QED
    BY <1>3, <2>1 DEF Frugal, Requeued, Alike, Replan
<1>4. ASSUME NEW y, NEW p, Moved(x, y, p), x.sent = 0, p \notin {"idle", "restore", "token"},
             x.cmd = "jobresubmit" => p = "count", p = "count" => x.cmd = "jobresubmit",
             x.cmd = "jobsubmit" /\ x.n0 # 0 => x.rp /\ x.pc # "delivered"
      PROVE  Frugal(y)
  BY <1>4 DEF Frugal, Moved, Alike, Replan
<1>5. ASSUME NEW y, NEW p, Moved(x, y, p), x.sent = 0, p = "restore", x.cmd = "jobsubmit",
             x.n0 = 0
      PROVE  Frugal(y)
  BY <1>5 DEF Frugal, Moved, Alike, Replan
<1> QED
  BY <1>1, <1>2, <1>3, <1>4, <1>5

\* What the processors make of a request of such a job.
Turns(r, x) == /\ Becomes(r, x) /\ Frugal(x)
               /\ req[r].pc = "delivered" => x = NoRequest
               /\ Deliver(r) => x.pc = "delivered"

LEMMA ProcessorTurns ==
  ASSUME AnyInv, NoRetries, Once, NEW r \in Slots,
         Dequeue(r) \/ Submission(r) \/ Cancellation(r)
  PROVE  \E x : Turns(r, x)
<1> DEFINE Goal == \E x : Turns(r, x)
           y == req[r]
<1>1. /\ y \in AnyRequests /\ req \in [Slots -> AnyRequests] /\ Placed(r) /\ Frugal(y)
      /\ lb \in LBs /\ tokens \subseteq Nat /\ tmps \subseteq Nat /\ limits \in Limits
  BY DEF AnyInv, AnyReq, AnyRest, Once
<1>2. /\ y.n \in Nat /\ y.n0 \in Nat /\ y.k \in Nat /\ y.deep \in Nat /\ y.shallow \in Nat
      /\ y.sent \in Nat /\ y.limbo \in BOOLEAN
      /\ y.cmd \in {"none", "jobsubmit", "jobresubmit", "jobcancel"}
  BY <1>1 DEF AnyRequests
<1>3. /\ y.pc # "delivered" => y.sent = 0
      /\ y.limbo = FALSE /\ y.queued = 0
      /\ y.cmd = "jobresubmit" => y.pc \in {"idle", "queued", "scan", "token", "count"}
      /\ y.pc = "count" => y.cmd = "jobresubmit"
      /\ y.cmd = "jobsubmit" /\ y.pc # "delivered" /\ y.n0 # 0 => Replan(y)
      /\ y.cmd = "jobcancel" => y.pc \in CancelPCs
      /\ y.cmd = "none" => y.pc = "idle"
      /\ y.pc = "delivered" => y.sent > 0
      /\ Unsent(r) => y.n = 0 /\ y.k = 0
  BY <1>1, <1>2 DEF NoRetries, Placed, Frugal
<1> SUFFICES Goal
  OBVIOUS
<1>4. ASSUME End(r), ~Deliver(r) PROVE Goal
  <2>1. PICK x : Becomes(r, x) /\ Ended(y, x)
    BY <1>1, <1>4, MoveOns
  <2>2. x = NoRequest /\ Frugal(x)
    BY <1>1, <2>1, FrugalForms
  <2> QED
    BY <1>4, <2>1, <2>2 DEF Turns
<1>5. ASSUME req' = [req EXCEPT ![r] = Postponed(@)], y.pc # "delivered", ~Deliver(r)
      PROVE  Goal
  <2>1. PICK x : Becomes(r, x) /\ Requeued(y, x) /\ x.queued = y.queued
    BY <1>1, <1>5, MoveOns
  <2>2. Frugal(x)
    BY <1>1, <1>3, <1>5, <2>1, FrugalForms
  <2> QED
    BY <1>5, <2>1, <2>2 DEF Turns
<1>6. ASSUME NEW p \in PCs, req' = [req EXCEPT ![r].pc = p], y.pc # "delivered", ~Deliver(r),
             p \notin {"idle", "restore", "token"}, y.cmd = "jobresubmit" => p = "count",
             p = "count" => y.cmd = "jobresubmit", y.cmd = "jobsubmit" /\ y.n0 # 0 => y.rp
      PROVE  Goal
  <2>1. PICK x : Becomes(r, x) /\ Moved(y, x, p)
    BY <1>1, <1>6, MoveOns
  <2>2. Frugal(x)
    BY <1>1, <1>3, <1>6, <2>1, FrugalForms
  <2> QED
    BY <1>6, <2>1, <2>2 DEF Turns
<1>7. ASSUME req' = [req EXCEPT ![r].pc = "restore"], y.pc # "delivered", ~Deliver(r),
             y.cmd = "jobsubmit", y.n0 = 0
      PROVE  Goal
  <2>1. PICK x : Becomes(r, x) /\ Moved(y, x, "restore")
    BY <1>1, <1>7, MoveOns DEF PCs
  <2>2. Frugal(x)
    BY <1>1, <1>3, <1>7, <2>1, FrugalForms
  <2> QED
    BY <1>7, <2>1, <2>2 DEF Turns
<1>8. y.pc # "deliver" => ~Deliver(r)
  BY DEF Deliver, At
<1> HIDE DEF Goal
<1>9. CASE Dequeue(r)
  <2>1. PICK x : Becomes(r, x) /\ Dequeued(y, x)
    BY <1>1, <1>9, StepShapes
  <2>2. y.loc = "new" /\ y.pc = "idle"
    BY <1>1, <1>9 DEF Dequeue, Placed
  <2>3. Frugal(x)
    BY <1>1, <2>1, <2>2 DEF Dequeued, Carries, Frugal, Replan
  <2> QED
    BY <1>8, <2>1, <2>2, <2>3 DEF Turns, Goal
<1>10. CASE Begin(r)
  <2>1. y.pc = "queued" /\ y.cmd \in {"jobsubmit", "jobresubmit"}
    BY <1>10 DEF Begin, At, IsSubmission
  <2>2. PICK x : Becomes(r, x) /\ IF ctok THEN Stopped(y, x) ELSE Begun(y, x)
    BY <1>1, <1>10, StepShapes
  <2>3. Frugal(x)
    <3>1. CASE ctok
      BY <1>1, <1>3, <2>2, <3>1, FrugalForms DEF Stopped
    <3>2. CASE ~ctok
      BY <1>1, <1>3, <2>1, <2>2, <3>2 DEF Begun, Carries, Frugal, Replan
    <3> QED
      BY <3>1, <3>2
  <2> QED
    BY <1>8, <2>1, <2>2, <2>3 DEF Turns, Goal
<1>11. CASE LBFails(r)
  <2>1. y.pc = "queued" /\ ~Deliver(r)
    BY <1>8, <1>11 DEF LBFails, At
  <2> QED
    BY <1>3, <1>4, <1>5, <1>11, <2>1 DEF LBFails, Postpone, Unrecoverable
<1>12. CASE Scan(r)
  <2>1. y.pc = "scan" /\ y.cmd # "jobcancel" /\ y.cmd # "none" /\ ~Deliver(r)
    BY <1>3, <1>8, <1>12 DEF Scan, At, CancelPCs
  <2>2. CASE ~sandbox
    BY <1>4, <1>12, <2>1, <2>2 DEF Scan
  <2>3. CASE sandbox
    <3>1. PICK x : Becomes(r, x) /\ Scanned(y, x)
      BY <1>1, <1>12, <2>3, StepShapes
    <3>2. y.cmd = "jobsubmit" /\ y.n0 # 0 => tokens \cup tmps = {y.n0}
      BY <2>1, <2>3 DEF Once, Ordered, Sending, Ahead
    <3>3. y.cmd = "jobsubmit" /\ y.n0 # 0 => x.k = y.n0 /\ x.n = y.n0
      BY <1>3, <2>1, <3>1, <3>2 DEF Scanned, Replan
    <3>4. Frugal(x)
      BY <1>1, <1>3, <2>1, <3>1, <3>3 DEF Scanned, Carries, Frugal, Replan
    <3> QED
      BY <2>1, <3>1, <3>4 DEF Turns, Goal
  <2> QED
    BY <2>2, <2>3
<1>13. CASE TakeToken(r)
  BY <1>6, <1>8, <1>13 DEF TakeToken, At, PCs
<1>14. CASE Count(r)
  <2>1. y.pc = "count"
    BY <1>14 DEF Count, At
  <2>2. Unrecoverable(r)
    BY <1>2, <1>14 DEF Count, NoRetries
  <2> QED
    BY <1>4, <1>8, <2>1, <2>2 DEF Unrecoverable
<1>15. CASE NewToken(r)
  <2>1. y.pc = "token" /\ y.cmd = "jobsubmit" /\ ~Deliver(r)
    BY <1>8, <1>15 DEF NewToken, At
  <2>2. y.n0 # 0 => y.n > 0 /\ y.k = y.n /\ y.n = y.n0
    BY <1>2, <1>3, <2>1 DEF Replan
  <2>3. CASE req' = [req EXCEPT ![r].pc = "plan", ![r].rp = TRUE]
    <3>1. PICK x : Becomes(r, x) /\ Replaces(y, x)
      BY <1>1, <2>3, StepShapes
    <3>2. Frugal(x)
      BY <1>1, <2>1, <2>2, <3>1 DEF Replaces, Carries, Frugal, Replan
    <3> QED
      BY <2>1, <3>1, <3>2 DEF Turns, Goal
  <2>4. CASE End(r)
    BY <1>4, <2>1, <2>4
  <2>5. CASE ~(y.n > 0 /\ y.k >= y.n) /\ req' = [req EXCEPT ![r].pc = "restore"]
    BY <1>2, <1>7, <2>1, <2>2, <2>5
  <2>6. CASE Postpone(r)
    BY <1>5, <2>1, <2>6 DEF Postpone
  <2> QED
    BY <1>15, <2>3, <2>4, <2>5, <2>6 DEF NewToken
<1>16. CASE RestoreToken(r)
  <2>1. y.pc = "restore" /\ ~Deliver(r)
    BY <1>8, <1>16 DEF RestoreToken, At
  <2>2. y.cmd = "jobsubmit" /\ y.n0 = 0
    BY <1>2, <1>3, <2>1 DEF CancelPCs, Replan
  <2> QED
    BY <1>5, <1>6, <1>16, <2>1, <2>2 DEF RestoreToken, Postpone, PCs
<1>17. CASE Plan(r) \/ PlanFails(r) \/ CheckCancel(r) \/ DeliverFails(r)
  <2>1. y.pc \in {"plan", "check", "deliver"}
    BY <1>17 DEF Plan, PlanFails, CheckCancel, DeliverFails, At
  <2>2. y.cmd = "jobsubmit" /\ (y.n0 # 0 => y.rp)
    BY <1>2, <1>3, <2>1 DEF CancelPCs, Replan
  <2>3. ~Deliver(r)
    <3>1. DeliverFails(r) => End(r)
      BY DEF DeliverFails
    <3>2. Deliver(r) /\ DeliverFails(r) => FALSE
      BY DEF Deliver, DeliverFails, Fault
    <3> QED
      BY <1>8, <1>17, <3>2 DEF Plan, PlanFails, CheckCancel, At
  <2> QED
    BY <1>4, <1>5, <1>6, <1>17, <2>1, <2>2, <2>3
    DEF Plan, PlanFails, CheckCancel, DeliverFails, Postpone, PCs
<1>18. CASE Deliver(r)
  <2>1. PICK x : Becomes(r, x) /\ Delivers(y, x)
    BY <1>1, <1>18, StepShapes
  <2>2. y.pc = "deliver"
    BY <1>18 DEF Deliver, At
  <2>3. y.cmd = "jobsubmit" /\ x.cmd = "jobsubmit"
    BY <1>2, <1>3, <2>1, <2>2 DEF CancelPCs, Delivers
  <2>4. Frugal(x)
    BY <1>1, <2>1, <2>3 DEF Delivers, Frugal
  <2> QED
    BY <2>1, <2>2, <2>4 DEF Turns, Goal, Delivers
<1>19. CASE Delivered(r) \/ ProxyExpired(r)
  BY <1>4, <1>8, <1>19 DEF Delivered, ProxyExpired, Unrecoverable, At
<1>20. CASE Cancellation(r)
  <2>1. y.pc \in {"queued", "forward", "fail"} /\ y.cmd = "jobcancel"
    BY <1>1, <1>2, <1>3, <1>20 DEF Cancellation, CancelLook, CancelLBFails, CancelForward, CancelFail,
       At, Placed, SubmitPCs
  <2>2. \/ End(r)
        \/ \E p \in {"forward", "fail"} : req' = [req EXCEPT ![r].pc = p]
    BY <1>20 DEF Cancellation, CancelLook, CancelLBFails, CancelForward, CancelFail
  <2> QED
    BY <1>4, <1>6, <1>8, <2>1, <2>2 DEF PCs
<1> QED
  BY <1>9, <1>10, <1>11, <1>12, <1>13, <1>14, <1>15, <1>16, <1>17, <1>18, <1>19, <1>20
  DEF Submission

\* What they do to the token: nothing, or they remove the sandbox, or move the token
\* for a resubmission, or create the first one, first under its temporary name.
Steady(r) == /\ UNCHANGED <<tokens, tmps, sandbox>>
             /\ Unsent(r) =>
                  /\ req[r].pc = "restore" => tmps = {}
                  /\ req'[r].pc \in {"plan", "check", "deliver"}
                       => req[r].pc \in {"plan", "check"}
Purged == ~sandbox' /\ tokens' = {} /\ tmps' = {}
Taken(r) == /\ req[r].cmd = "jobresubmit" /\ sandbox' = sandbox
            /\ tokens' \cup tmps' = tokens \cup tmps
            /\ OneName => OneName'
Created(r) == /\ Unsent(r) /\ sandbox' = sandbox /\ req'[r].pc = "restore"
              /\ tokens' = tokens /\ tmps' = {0}
Restored(r) == /\ Unsent(r) /\ sandbox' = sandbox /\ req'[r].pc = "plan"
               /\ tokens' = {0} /\ tmps' = {}

LEMMA ProcessorTokens ==
  ASSUME AnyInv, NoRetries, Once, NEW r \in Slots,
         Dequeue(r) \/ Submission(r) \/ Cancellation(r)
  PROVE  Steady(r) \/ Purged \/ Taken(r) \/ Created(r) \/ Restored(r)
<1> DEFINE Goal == Steady(r) \/ Purged \/ Taken(r) \/ Created(r) \/ Restored(r)
           y == req[r]
           Same == UNCHANGED <<tokens, tmps, sandbox>>
<1>1. /\ y \in AnyRequests /\ req \in [Slots -> AnyRequests] /\ Placed(r) /\ Frugal(y)
      /\ lb \in LBs /\ tokens \subseteq Nat /\ tmps \subseteq Nat /\ limits \in Limits
  BY DEF AnyInv, AnyReq, AnyRest, Once
<1>2. /\ y.n \in Nat /\ y.n0 \in Nat /\ y.k \in Nat /\ y.deep \in Nat /\ y.shallow \in Nat
      /\ y.sent \in Nat
      /\ y.cmd \in {"none", "jobsubmit", "jobresubmit", "jobcancel"}
  BY <1>1 DEF AnyRequests
<1>3. /\ y.pc # "delivered" => y.sent = 0
      /\ ~y.limbo
      /\ y.cmd = "jobresubmit" => y.pc \in {"idle", "queued", "scan", "token", "count"}
      /\ y.cmd = "jobsubmit" /\ y.pc # "delivered" /\ y.n0 # 0 => Replan(y)
      /\ y.cmd = "jobcancel" => y.pc \in CancelPCs
      /\ y.cmd = "none" => y.pc = "idle"
      /\ Unsent(r) => y.n = 0 /\ y.k = 0 /\ tokens \subseteq {0} /\ tmps \subseteq {0}
  BY <1>1, <1>2 DEF NoRetries, Placed, Frugal, AnyInv, Newborn
<1> SUFFICES Goal
  OBVIOUS
<1>4. ASSUME Same, y.pc # "restore",
             \/ End(r) \/ req' = [req EXCEPT ![r] = Postponed(@)] \/ Deliver(r)
             \/ \E x : Becomes(r, x) /\ x.pc \in {"idle", "queued", "scan", "token", "delivered"}
      PROVE  Goal
  <2>1. \E x : Becomes(r, x) /\ x.pc \in {"idle", "queued", "scan", "token", "delivered"}
    <3>1. CASE End(r)
      <4>1. PICK x : Becomes(r, x) /\ Ended(y, x)
        BY <1>1, <3>1, MoveOns
      <4> QED
        BY <4>1 DEF Ended, Requeued, NoRequest
    <3>2. CASE req' = [req EXCEPT ![r] = Postponed(@)]
      <4>1. PICK x : Becomes(r, x) /\ Requeued(y, x)
        BY <1>1, <3>2, MoveOns
      <4> QED
        BY <4>1 DEF Requeued
    <3>3. CASE Deliver(r)
      <4>1. PICK x : Becomes(r, x) /\ Delivers(y, x)
        BY <1>1, <3>3, StepShapes
      <4> QED
        BY <4>1 DEF Delivers
    <3> QED
      BY <1>4, <3>1, <3>2, <3>3
  <2>2. req'[r].pc \in {"idle", "queued", "scan", "token", "delivered"}
    BY <2>1 DEF Becomes
  <2> QED
    BY <1>4, <2>2 DEF Steady
<1>5. ASSUME Same, y.cmd # "jobsubmit" PROVE Goal
  BY <1>5 DEF Steady, Unsent
<1>6. ASSUME Same, y.pc \in {"plan", "check"} PROVE Goal
  BY <1>6 DEF Steady
<1>7. Purge => Goal
  BY DEF Purge, Purged
<1>8. UNCHANGED files => Same
  BY DEF files
<1> HIDE DEF Goal
<1>9. CASE Dequeue(r)
  <2>1. PICK x : Becomes(r, x) /\ Dequeued(y, x)
    BY <1>1, <1>9, StepShapes
  <2>2. y.pc = "idle" /\ Same
    BY <1>1, <1>9 DEF Dequeue, Placed
  <2> QED
    BY <1>4, <2>1, <2>2 DEF Dequeued
<1>10. CASE Begin(r)
  <2>1. y.pc = "queued"
    BY <1>10 DEF Begin, At
  <2>2. PICK x : Becomes(r, x) /\ IF ctok THEN Stopped(y, x) ELSE Begun(y, x)
    BY <1>1, <1>10, StepShapes
  <2>3. CASE ctok
    BY <1>7, <1>10, <2>3 DEF Begin
  <2>4. CASE ~ctok
    BY <1>4, <1>8, <1>10, <2>1, <2>2, <2>4 DEF Begin, Begun
  <2> QED
    BY <2>3, <2>4
<1>11. CASE LBFails(r)
  <2>1. y.pc = "queued" /\ Same
    BY <1>11 DEF LBFails, At
  <2> QED
    BY <1>3, <1>4, <1>11, <2>1 DEF LBFails, Postpone, Unrecoverable
<1>12. CASE Scan(r)
  <2>1. y.pc = "scan" /\ Same
    BY <1>12 DEF Scan, At
  <2>2. CASE ~sandbox
    BY <1>4, <1>12, <2>1, <2>2 DEF Scan
  <2>3. CASE sandbox
    <3>1. PICK x : Becomes(r, x) /\ Scanned(y, x)
      BY <1>1, <1>12, <2>3, StepShapes
    <3> QED
      BY <1>4, <2>1, <3>1 DEF Scanned
  <2> QED
    BY <2>2, <2>3
<1>13. CASE TakeToken(r)
  <2>1. /\ y.cmd = "jobresubmit" /\ sandbox' = sandbox
        /\ tokens' = tokens \ {y.k}
        /\ tmps' = IF y.k \in tokens THEN tmps \cup {y.k} ELSE tmps
    BY <1>13 DEF TakeToken
  <2>2. tokens' \cup tmps' = tokens \cup tmps
    BY <2>1
  <2>3. OneName => OneName'
    BY <2>1 DEF OneName
  <2> QED
    BY <2>1, <2>2, <2>3 DEF Taken, Goal
<1>14. CASE Count(r)
  <2>1. y.pc = "count"
    BY <1>14 DEF Count, At
  <2>2. Unrecoverable(r) /\ Same
    BY <1>2, <1>14 DEF Count, NoRetries
  <2> QED
    BY <1>4, <2>1, <2>2 DEF Unrecoverable
<1>15. CASE NewToken(r)
  <2>1. y.pc = "token" /\ y.cmd = "jobsubmit" /\ tokens' = tokens /\ sandbox' = sandbox
    BY <1>15 DEF NewToken, At
  <2>2. CASE Unsent(r)
    <3>1. \/ tmps' = tmps \cup {0} /\ req' = [req EXCEPT ![r].pc = "restore"]
          \/ Postpone(r) /\ tmps' = tmps
      BY <1>3, <1>15, <2>2 DEF NewToken
    <3>2. CASE tmps' = tmps \cup {0} /\ req' = [req EXCEPT ![r].pc = "restore"]
      <4>1. req'[r].pc = "restore" /\ tmps' = {0}
        BY <1>1, <1>3, <2>2, <3>2
      <4> QED
        BY <2>1, <2>2, <4>1 DEF Created, Goal
    <3> QED
      BY <1>4, <2>1, <3>1, <3>2 DEF Postpone
  <2>3. CASE ~Unsent(r)
    <3>1. y.n > 0 /\ y.k = y.n
      BY <1>2, <1>3, <2>1, <2>3 DEF Unsent, Replan
    <3>2. tmps' = tmps
      BY <1>2, <1>15, <3>1 DEF NewToken
    <3> QED
      BY <2>1, <2>3, <3>2 DEF Steady, Goal
  <2> QED
    BY <2>2, <2>3
<1>16. CASE RestoreToken(r)
  <2>1. y.pc = "restore" /\ sandbox' = sandbox
    BY <1>16 DEF RestoreToken, At
  <2>2. Unsent(r)
    BY <1>2, <1>3, <2>1 DEF CancelPCs, Replan, Unsent
  <2>3. CASE 0 \in tmps
    <3>1. req' = [req EXCEPT ![r].pc = "plan"] /\ tmps' = tmps \ {0} /\ tokens' = tokens \cup {0}
      BY <1>3, <1>16, <2>2, <2>3 DEF RestoreToken
    <3>2. req'[r].pc = "plan" /\ tmps' = {} /\ tokens' = {0}
      BY <1>1, <1>3, <2>2, <3>1
    <3> QED
      BY <2>1, <2>2, <3>2 DEF Restored, Goal
  <2>4. CASE 0 \notin tmps
    <3>1. tmps = {} /\ Same /\ req' = [req EXCEPT ![r] = Postponed(@)]
      BY <1>3, <1>16, <2>1, <2>2, <2>4 DEF RestoreToken, Postpone
    <3>2. PICK x : Becomes(r, x) /\ Requeued(y, x)
      BY <1>1, <3>1, MoveOns
    <3>3. req'[r].pc = "queued"
      BY <3>2 DEF Becomes, Requeued
    <3> QED
      BY <3>1, <3>3 DEF Steady, Goal
  <2> QED
    BY <2>3, <2>4
<1>17. CASE Plan(r) \/ PlanFails(r) \/ CheckCancel(r)
  <2>1. y.pc \in {"plan", "check"}
    BY <1>17 DEF Plan, PlanFails, CheckCancel, At
  <2> QED
    BY <1>6, <1>7, <1>8, <1>17, <2>1 DEF Plan, PlanFails, CheckCancel
<1>18. CASE Deliver(r) \/ DeliverFails(r) \/ Delivered(r) \/ ProxyExpired(r)
  <2>1. y.pc # "restore" /\ (Deliver(r) \/ End(r))
    BY <1>18 DEF Deliver, DeliverFails, Delivered, ProxyExpired, Unrecoverable, At
  <2> QED
    BY <1>4, <1>8, <1>18, <2>1 DEF Deliver, DeliverFails, Delivered, ProxyExpired
<1>19. CASE Cancellation(r)
  <2>1. y.cmd # "jobsubmit"
    BY <1>1, <1>2, <1>3, <1>19 DEF Cancellation, CancelLook, CancelLBFails, CancelForward,
       CancelFail, At, Placed, SubmitPCs
  <2> QED
    BY <1>5, <1>7, <1>8, <1>19, <2>1 DEF Cancellation, CancelLook, CancelLBFails, CancelForward,
       CancelFail
<1> QED
  BY <1>9, <1>10, <1>11, <1>12, <1>13, <1>14, <1>15, <1>16, <1>17, <1>18, <1>19
  DEF Submission

\* One step of a processor.
LEMMA ProcessorOnce ==
  ASSUME AnyInv, AnyInv', NoRetries, Once, NEW r \in Slots,
         Dequeue(r) \/ Submission(r) \/ Cancellation(r)
  PROVE  Once'
<1>1. PICK x : Turns(r, x)
  BY ProcessorTurns
<1>2. Steady(r) \/ Purged \/ Taken(r) \/ Created(r) \/ Restored(r)
  BY ProcessorTokens
<1>3. PICK z : Advances(r, z)
  BY ProcessorAdvances DEF AnyInv
<1>4. /\ z = x /\ req'[r] = x /\ \A s \in Slots \ {r} : req'[s] = req[s]
      /\ req \in [Slots -> AnyRequests] /\ x \in AnyRequests
  BY <1>1, <1>3 DEF Turns, Advances, Becomes, AnyInv, AnyReq
<1>5. /\ Logged
      /\ out' = out \/ out' = Append(out, [kind |-> "Cancel", tok |-> 0]) \/ Deliver(r)
      /\ rpl' = rpl /\ copies' = copies /\ runs' = runs
  BY ProcessorRest DEF AnyInv
<1>6. /\ out \in Seq(AnyMessages) /\ copies \in Seq(AnyCopies) /\ runs \in Nat
      /\ (~sandbox => tokens = {} /\ tmps = {}) /\ (~sandbox' => tokens' = {} /\ tmps' = {})
      /\ \A s \in Slots : Newborn(s) /\ Newborn(s)' /\ Placed(s)
  BY DEF AnyInv, AnyRest, AnyReq
<1>7. /\ \A s \in Slots : Frugal(req[s]) /\ First(s)
      /\ OneSender /\ Ordered /\ Single
  BY DEF Once
\* What becomes of the requests.
<1>8. ASSUME NEW s \in Slots, Sending(s)'
      PROVE  /\ Sending(s) /\ req'[s].n0 = req[s].n0 /\ (Unsent(s)' => Unsent(s))
             /\ s = r => ~Deliver(r)
  <2>1. CASE s # r
    BY <1>4, <1>8, <2>1 DEF Sending, Unsent
  <2>2. CASE s = r
    <3>1. x # NoRequest /\ x.pc # "delivered"
      BY <1>4, <1>8, <2>2 DEF Sending, NoRequest
    <3>2. x.cmd = req[r].cmd /\ x.n0 = req[r].n0 /\ (x.sent = 0 => req[r].sent = 0)
      BY <1>3, <1>4, <3>1 DEF Advances
    <3> QED
      BY <1>1, <1>4, <1>8, <2>2, <3>1, <3>2 DEF Turns, Sending, Unsent
  <2> QED
    BY <2>1, <2>2
<1>9. ASSUME NEW s \in Slots, Unsent(s)'
      PROVE  /\ Unsent(s) /\ Sending(s)' /\ ~Deliver(r)
             /\ s # r => req[r].cmd \in {"none", "jobcancel"}
  <2>1. Sending(s)'
    <3>1. x.sent \in Nat /\ req[s].sent \in Nat /\ Frugal(x)
      BY <1>1, <1>4 DEF Turns, AnyRequests
    <3>2. Placed(s)' /\ req'[s].sent = 0 /\ req'[s].cmd = "jobsubmit"
      BY <1>9 DEF AnyInv, AnyReq, Unsent
    <3>3. req'[s].pc # "delivered"
      BY <3>2 DEF Placed
    <3> QED
      BY <3>2, <3>3 DEF Sending
  <2>2. Unsent(s) /\ (s = r => ~Deliver(r))
    BY <1>8, <1>9, <2>1
  <2>3. s # r => req[r].cmd \in {"none", "jobcancel"}
    BY <1>6, <2>2 DEF Newborn
  <2>4. Deliver(r) => req[r].cmd \notin {"none", "jobcancel"}
    BY <1>6 DEF Deliver, At, Placed, CancelPCs
  <2> QED
    BY <2>1, <2>2, <2>3, <2>4
\* What becomes of the token.
<1>10. ASSUME NEW s \in Slots PROVE First(s)'
  <2> SUFFICES ASSUME Unsent(s)' PROVE First(s)'
    BY DEF First
  <2>1. /\ Unsent(s) /\ (s # r => req[r].cmd \in {"none", "jobcancel"})
        /\ tokens \subseteq {0} /\ tmps \subseteq {0} /\ runs' = 0
        /\ tmps # {} => req[s].pc = "restore"
        /\ sandbox /\ req[s].pc \in {"plan", "check", "deliver"} => tokens = {0}
    BY <1>5, <1>6, <1>7, <1>9 DEF First, Newborn
  <2>2. CASE Purged
    BY <2>1, <2>2 DEF Purged, First
  <2>3. CASE s # r /\ ~Purged
    <3>1. UNCHANGED <<tokens, tmps, sandbox>> /\ req'[s] = req[s]
      BY <1>2, <1>4, <2>1, <2>3 DEF Steady, Taken, Created, Restored, Unsent
    <3> QED
      BY <2>1, <3>1 DEF First
  <2>4. CASE s = r /\ Steady(r)
    BY <2>1, <2>4 DEF Steady, First
  <2>5. CASE s = r /\ (Created(r) \/ Restored(r))
    BY <2>1, <2>5 DEF Created, Restored, First
  <2>6. ~(s = r /\ Taken(r))
    BY <2>1 DEF Taken, Unsent
  <2> QED
    BY <1>2, <2>2, <2>3, <2>4, <2>5, <2>6
<1>11. \/ sandbox' = sandbox /\ tokens' \cup tmps' = tokens \cup tmps
       \/ ~sandbox' /\ tokens' \cup tmps' = {}
       \/ Unsent(r) /\ tokens' \cup tmps' = {0}
  <2>1. Unsent(r) => tokens \subseteq {0}
    BY <1>6 DEF Newborn
  <2>2. Created(r) \/ Restored(r) => tokens' \cup tmps' = {0}
    BY <2>1 DEF Created, Restored
  <2> QED
    BY <1>2, <2>2 DEF Steady, Purged, Taken, Created, Restored
\* What becomes of ICE's input.
<1>12. /\ \A i \in DOMAIN out : i \in DOMAIN out' /\ out'[i] = out[i]
       /\ ~Deliver(r) => \A i \in DOMAIN out' : Carried(i)' => i \in DOMAIN out
       /\ Deliver(r) => /\ Len(out) + 1 \notin DOMAIN out
                        /\ DOMAIN out' = DOMAIN out \cup {Len(out) + 1}
                        /\ out'[Len(out) + 1].tok = req[r].n
  <2> DEFINE e == [kind |-> "Cancel", tok |-> 0]
             d == [kind |-> IF req[r].rp THEN "Reschedule" ELSE "Submit", tok |-> req[r].n]
  <2>1. e \in AnyMessages /\ e.kind = "Cancel" /\ d \in AnyMessages /\ d.tok = req[r].n
    BY <1>4 DEF AnyMessages, AnyRequests
  <2>2. Deliver(r) => out' = Append(out, d)
    BY DEF Deliver
  <2>3. out' = out \/ out' = Append(out, e) \/ Deliver(r)
    BY <1>5
  <2> HIDE DEF e, d
  <2>4. CASE Deliver(r)
    <3>1. out' = Append(out, d)
      BY <2>2, <2>4
    <3>2. /\ Len(out) + 1 \notin DOMAIN out
          /\ DOMAIN out' = DOMAIN out \cup {Len(out) + 1} /\ out'[Len(out) + 1] = d
          /\ \A i \in DOMAIN out : out'[i] = out[i]
      BY <1>6, <2>1, <3>1, AppendForms
    <3> QED
      BY <2>1, <2>4, <3>2
  <2>5. CASE ~Deliver(r) /\ out' = Append(out, e)
    <3>1. /\ DOMAIN out' = DOMAIN out \cup {Len(out) + 1} /\ out'[Len(out) + 1] = e
          /\ \A i \in DOMAIN out : out'[i] = out[i]
      BY <1>6, <2>1, <2>5, AppendForms
    <3> QED
      BY <2>1, <2>5, <3>1 DEF Carried
  <2> QED
    BY <2>3, <2>4, <2>5 DEF Carried
<1>13. Deliver(r) => /\ req[r].pc = "deliver" /\ Sending(r) /\ UNCHANGED <<tokens, tmps, sandbox>>
                     /\ req[r].sent = 0
  <2> SUFFICES ASSUME Deliver(r)
               PROVE  /\ req[r].pc = "deliver" /\ Sending(r) /\ req[r].sent = 0
                      /\ UNCHANGED <<tokens, tmps, sandbox>>
    OBVIOUS
  <2>1. req[r].pc = "deliver" /\ UNCHANGED <<tokens, tmps, sandbox>>
    BY DEF Deliver, At, files
  <2>2. req[r].cmd \in {"none", "jobsubmit", "jobresubmit", "jobcancel"}
    <3>1. req[r] \in AnyRequests
      BY <1>4
    <3> QED
      BY <3>1 DEF AnyRequests
  <2>3. req[r].cmd = "jobsubmit" /\ req[r].sent = 0
    BY <1>6, <1>7, <2>1, <2>2 DEF Placed, CancelPCs, Frugal
  <2> QED
    BY <2>1, <2>3 DEF Sending
<1>14. OneSender'
  <2>1. Late' = Late /\ (Open' => Open)
    BY <1>5 DEF Late, Open, Logged
  <2>2. \A s, u \in Slots : Sending(s)' /\ Sending(u)' => s = u
    BY <1>7, <1>8 DEF OneSender
  <2>3. ASSUME NEW i \in DOMAIN out', NEW h \in DOMAIN out', Carried(i)', Carried(h)' PROVE i = h
    BY <1>7, <1>12, <1>13, <2>3 DEF OneSender, Carried
  <2>4. ASSUME NEW s \in Slots, NEW i \in DOMAIN out', Sending(s)', Carried(i)' PROVE FALSE
    BY <1>7, <1>8, <1>12, <1>13, <2>4 DEF OneSender, Carried
  <2>5. \A s \in Slots : Sending(s)' => ~Late' /\ ~Open'
    BY <1>7, <1>8, <2>1 DEF OneSender
  <2>6. ASSUME NEW i \in DOMAIN out', Carried(i)' PROVE ~Late' /\ ~Open'
    BY <1>7, <1>12, <1>13, <2>1, <2>6 DEF OneSender, Carried
  <2>7. rpl'.pc = "deliver" => lb'.status # "scheduled"
    BY <1>5, <1>7 DEF OneSender, Logged
  <2> QED
    BY <2>2, <2>3, <2>4, <2>5, <2>6, <2>7 DEF OneSender
<1>15. ASSUME NEW m, Ahead(m), ~Unsent(r) PROVE Ahead(m)'
  BY <1>5, <1>11, <1>15 DEF Ahead
<1>16. Ordered'
  <2>1. ASSUME NEW s \in Slots, Sending(s)', req'[s].n0 # 0 PROVE \E m : m = req'[s].n0 /\ Ahead(m)'
    <3>1. Sending(s) /\ req'[s].n0 = req[s].n0 /\ Ahead(req[s].n0)
      BY <1>7, <1>8, <2>1 DEF Ordered
    <3>2. ~Unsent(r)
      BY <1>6, <2>1, <3>1 DEF Newborn, Sending, Unsent
    <3>3. PICK m : m = req[s].n0
      OBVIOUS
    <3> QED
      BY <1>15, <3>1, <3>2, <3>3
  <2>2. ASSUME NEW i \in DOMAIN out', Carried(i)' PROVE \E m : m = out'[i].tok /\ Ahead(m)'
    <3>1. CASE i \in DOMAIN out
      <4>1. Carried(i) /\ out'[i] = out[i] /\ Ahead(out[i].tok)
        BY <1>7, <1>12, <2>2, <3>1 DEF Carried, Ordered
      <4>2. ~Unsent(r)
        BY <1>6, <3>1, <4>1 DEF Newborn, Carried
      <4>3. PICK m : m = out[i].tok
        OBVIOUS
      <4> QED
        BY <1>15, <4>1, <4>2, <4>3
    <3>2. CASE i \notin DOMAIN out
      <4>1. Deliver(r) /\ i = Len(out) + 1 /\ out'[i].tok = req[r].n
        BY <1>12, <2>2, <3>2
      <4>2. CASE Unsent(r)
        <5>1. /\ req[r].n = 0 /\ copies = <<>> /\ runs = 0
              /\ tmps = {} /\ (sandbox => tokens = {0})
          BY <1>6, <1>7, <1>13, <4>1, <4>2 DEF Placed, Newborn, First
        <5>2. DOMAIN copies' = {} /\ UNCHANGED <<runs, sandbox, tokens, tmps>>
          BY <1>5, <1>13, <4>1, <5>1
        <5>3. Ahead(0)'
          BY <5>1, <5>2 DEF Ahead
        <5> QED
          BY <4>1, <5>1, <5>3
      <4>3. CASE ~Unsent(r)
        <5>1. req[r].n0 # 0 /\ req[r].n = req[r].n0
          BY <1>7, <1>13, <4>1, <4>3 DEF Unsent, Sending, Frugal, Replan
        <5>2. Ahead(req[r].n)
          BY <1>7, <1>13, <4>1, <5>1 DEF Ordered
        <5> DEFINE m == req[r].n
        <5>3. m = out'[i].tok /\ Ahead(m)
          BY <4>1, <5>2
        <5> HIDE DEF m
        <5> QED
          BY <1>15, <4>3, <5>3
      <4> QED
        BY <4>2, <4>3
    <3> QED
      BY <3>1, <3>2
  <2>3. ASSUME Late' PROVE \E m : m = rpl'.t + 1 /\ Ahead(m)'
    <3>1. Late /\ Ahead(rpl.t + 1) /\ rpl.pc # "idle"
      BY <1>5, <1>7, <2>3 DEF Late, Ordered
    <3>2. ~Unsent(r)
      BY <1>6, <3>1 DEF Newborn
    <3>3. PICK m : m = rpl.t + 1
      OBVIOUS
    <3> QED
      BY <1>5, <1>15, <3>1, <3>2, <3>3
  <2> QED
    BY <2>1, <2>2, <2>3 DEF Ordered, Ahead
<1>17. Single'
  <2>1. Unsent(r) => copies = <<>> /\ runs = 0
    BY <1>6, <1>7 DEF Newborn, First
  <2>2. \A c \in DOMAIN copies' : \A m \in tokens' \cup tmps' : copies'[c].tok <= m
    <3>1. CASE Unsent(r)
      <4>1. DOMAIN copies' = {}
        BY <1>5, <2>1, <3>1
      <4> QED
        BY <4>1
    <3>2. CASE ~Unsent(r)
      <4>1. \A m \in tokens' \cup tmps' : m \in tokens \cup tmps
        BY <1>11, <3>2
      <4> QED
        BY <1>5, <1>7, <4>1 DEF Single
    <3> QED
      BY <3>1, <3>2
  <2>3. OneName' \/ \E s \in Slots : Unsent(s)' /\ req'[s].pc = "restore"
    <3>1. CASE Steady(r)
      <4>1. OneName => OneName'
        BY <3>1 DEF Steady, OneName
      <4>2. ASSUME NEW s \in Slots, s # r, Unsent(s), req[s].pc = "restore"
            PROVE  Unsent(s)' /\ req'[s].pc = "restore"
        BY <1>4, <4>2 DEF Unsent
      <4>3. Unsent(r) /\ req[r].pc = "restore" => OneName
        BY <1>6, <3>1 DEF Steady, Newborn, OneName
      <4> QED
        BY <1>7, <4>1, <4>2, <4>3 DEF Single
    <3>2. CASE Purged \/ Restored(r)
      BY <3>2 DEF Purged, Restored, OneName
    <3>3. CASE Taken(r)
      <4>1. ASSUME NEW s \in Slots, Unsent(s) PROVE FALSE
        BY <1>6, <3>3, <4>1 DEF Taken, Newborn, Unsent
      <4> QED
        BY <1>7, <3>3, <4>1 DEF Single, Taken
    <3>4. CASE Created(r)
      <4>1. Unsent(r) /\ x.pc = "restore"
        BY <1>4, <3>4 DEF Created
      <4>2. x.cmd = req[r].cmd /\ x.n0 = req[r].n0 /\ x.sent = 0
        BY <1>1, <1>3, <1>4, <4>1 DEF Advances, NoRequest, Turns, Frugal
      <4> QED
        BY <1>4, <4>1, <4>2 DEF Unsent
    <3> QED
      BY <1>2, <3>1, <3>2, <3>3, <3>4
  <2>4. runs' \in {0, 1} /\ (runs' # 0 => tokens' \cup tmps' = {})
    BY <1>5, <1>7, <1>11, <2>1 DEF Single
  <2> QED
    BY <1>5, <1>7, <2>2, <2>3, <2>4 DEF Single
<1> QED
  BY <1>1, <1>4, <1>7, <1>10, <1>14, <1>16, <1>17 DEF Once, Turns

\* A step of another actor that brings no copy further: requests come in, messages
\* and copies go, the sandbox may go.
Fewer ==
  /\ \A i, h \in DOMAIN out' : \E f, g \in DOMAIN out :
       out'[i] = out[f] /\ out'[h] = out[g] /\ (f = g => i = h)
  /\ \A c, d \in DOMAIN copies' : \E e, f \in DOMAIN copies :
       /\ copies'[c].tok = copies[e].tok /\ copies'[d].tok = copies[f].tok
       /\ copies'[c].st = "running" => copies[e].st = "running"
       /\ copies'[d].st = "running" => copies[f].st = "running"
       /\ e = f => c = d
Idles ==
  /\ \A s \in Slots : \/ req'[s] = req[s]
                      \/ /\ req[s].cmd = "none" /\ req'[s].cmd # "jobsubmit"
                         /\ Frugal(req'[s])
  /\ Fewer /\ runs' = runs
  /\ UNCHANGED <<tokens, tmps, sandbox>> \/ Purged
  /\ Late' => Late /\ rpl'.t = rpl.t
  /\ Open' => Open
  /\ rpl'.pc = "deliver" => lb'.status # "scheduled"

\* A step that at most ends something, or cancels, brings no second copy.
LEMMA IdleOnce ==
  ASSUME AnyInv, AnyInv', Once, Idles
  PROVE  Once'
<1>1. /\ \A s \in Slots : Frugal(req[s]) /\ First(s)
      /\ OneSender /\ Ordered /\ Single
  BY DEF Once
<1>2. \A s \in Slots : /\ Sending(s)' => req'[s] = req[s] /\ Sending(s)
                       /\ Unsent(s)' => req'[s] = req[s] /\ Unsent(s)
  BY DEF Idles, Sending, Unsent
<1>3. \A s \in Slots : req'[s] = req[s] => (Unsent(s)' <=> Unsent(s))
  BY DEF Unsent
<1>4. \A s \in Slots : Frugal(req[s])'
  BY <1>1 DEF Idles, Frugal, Replan
<1>5. ASSUME NEW s \in Slots PROVE First(s)'
  BY <1>1, <1>2 DEF First, Idles, Purged
<1>6. OneSender'
  BY <1>1, <1>2 DEF OneSender, Idles, Fewer, Carried
<1>7. ASSUME NEW m, Ahead(m) PROVE Ahead(m)'
  BY <1>7 DEF Ahead, Idles, Fewer, Purged
<1>8. Ordered'
  <2>1. ASSUME NEW s \in Slots, Sending(s)', req'[s].n0 # 0
        PROVE  \E m : m = req'[s].n0 /\ Ahead(m)'
    <3>1. req'[s] = req[s] /\ Ahead(req[s].n0)
      BY <1>1, <1>2, <2>1 DEF Ordered
    <3>2. PICK m : m = req[s].n0
      OBVIOUS
    <3> QED
      BY <1>7, <3>1, <3>2
  <2>2. ASSUME NEW i \in DOMAIN out', Carried(i)' PROVE \E m : m = out'[i].tok /\ Ahead(m)'
    <3>1. PICK f \in DOMAIN out : out'[i] = out[f]
      BY DEF Idles, Fewer
    <3>2. Ahead(out[f].tok)
      BY <1>1, <2>2, <3>1 DEF Ordered, Carried
    <3>3. PICK m : m = out[f].tok
      OBVIOUS
    <3> QED
      BY <1>7, <3>1, <3>2, <3>3
  <2>3. ASSUME Late' PROVE \E m : m = rpl'.t + 1 /\ Ahead(m)'
    <3>1. rpl'.t = rpl.t /\ Ahead(rpl.t + 1)
      BY <1>1, <2>3 DEF Ordered, Idles
    <3>2. PICK m : m = rpl.t + 1
      OBVIOUS
    <3> QED
      BY <1>7, <3>1, <3>2
  <2> QED
    BY <2>1, <2>2, <2>3 DEF Ordered, Ahead
<1>9. Single'
  <2>1. \A c \in DOMAIN copies' : \A m \in tokens' \cup tmps' : copies'[c].tok <= m
    BY <1>1 DEF Single, Idles, Fewer, Purged
  <2>2. OneName' \/ \E s \in Slots : Unsent(s)' /\ req'[s].pc = "restore"
    <3>1. CASE Purged
      BY <3>1 DEF Purged, OneName
    <3>2. CASE UNCHANGED <<tokens, tmps, sandbox>>
      <4>1. OneName => OneName'
        BY <3>2 DEF OneName
      <4>2. ASSUME NEW s \in Slots, Unsent(s) PROVE Unsent(s)' /\ req'[s] = req[s]
        BY <1>3, <4>2 DEF Idles, Unsent
      <4> QED
        BY <1>1, <4>1, <4>2 DEF Single
    <3> QED
      BY <3>1, <3>2 DEF Idles
  <2>3. runs' \in {0, 1} /\ (runs' # 0 => tokens' \cup tmps' = {})
    BY <1>1 DEF Single, Idles, Purged
  <2>4. /\ \A c \in DOMAIN copies' : copies'[c].st = "running" => runs' = 1
        /\ \A c, d \in DOMAIN copies' :
             copies'[c].st = "running" /\ copies'[d].st = "running" => c = d
    BY <1>1 DEF Single, Idles, Fewer
  <2> QED
    BY <2>1, <2>2, <2>3, <2>4 DEF Single
<1> QED
  BY <1>4, <1>5, <1>6, <1>8, <1>9 DEF Once

\* What is left alone has not grown.
LEMMA SameFewer ==
  ASSUME out' = out, copies' = copies
  PROVE  Fewer
BY DEF Fewer

\* The Replanner takes a job that nobody else has, and passes it on with the next count.
LEMMA ReplannerOnce ==
  ASSUME AnyInv, AnyInv', Once, Replanner
  PROVE  Once'
<1>1. /\ lb \in LBs /\ rpl.t \in Nat /\ tokens \subseteq Nat /\ tmps \subseteq Nat
      /\ rpl \in [pc : {"idle", "rename", "log", "deliver", "delivered"},
                  tmp : BOOLEAN, t : Nat]
      /\ copies \in Seq(AnyCopies)
      /\ ~sandbox => tokens = {} /\ tmps = {}
      /\ AnyReq /\ \A s \in Slots : Newborn(s) /\ Newborn(s)'
  BY DEF AnyInv, AnyRest
<1>2. /\ \A s \in Slots : Frugal(req[s]) /\ First(s)
      /\ OneSender /\ Ordered /\ Single
  BY DEF Once
<1>3. Fewer /\ out' = out /\ copies' = copies /\ runs' = runs /\ sandbox' = sandbox
  BY SameFewer DEF Replanner, ReplanLook, ReplanRename, ReplanLog, ReplanDeliver,
     ReplanDeliverFails, ReplanDelivered, cream, files
<1>4. CASE ReplanLook
  <2>1. PICK f \in Names : rpl' = [pc |-> "rename", tmp |-> f[1], t |-> f[2]]
    BY <1>4 DEF ReplanLook
  <2>2. /\ lb.status = "scheduled" /\ req' = req /\ UNCHANGED <<tokens, tmps, sandbox>>
        /\ rpl'.pc = "rename"
    BY <1>4, <2>1 DEF ReplanLook, files
  <2>3. Idles
    BY <1>3, <2>2 DEF Idles, Late, Open
  <2> QED
    BY <2>3, IdleOnce
<1>5. CASE ReplanRename
  <2> DEFINE found == <<rpl.tmp, rpl.t>> \in Names
  <2>1. rpl.pc = "rename" /\ req' = req
    BY <1>5 DEF ReplanRename
  <2>2. CASE ~found
    <3>1. UNCHANGED <<tokens, tmps, sandbox, lb>> /\ rpl'.pc = "idle"
      BY <1>1, <1>5, <2>2 DEF ReplanRename
    <3>2. Idles
      BY <1>3, <2>1, <3>1 DEF Idles, Late, Open
    <3> QED
      BY <3>2, IdleOnce
  <2>3. CASE found
    <3>1. /\ rpl'.pc \in {"idle", "log"} /\ (rpl'.pc = "log" => rpl'.t = rpl.t)
          /\ tokens' = (IF rpl.tmp THEN tokens ELSE tokens \ {rpl.t}) \cup {rpl.t + 1}
          /\ tmps' = IF rpl.tmp THEN tmps \ {rpl.t} ELSE tmps
      BY <1>1, <1>5, <2>3 DEF ReplanRename
    <3>2. IF rpl.tmp THEN rpl.t \in tmps ELSE rpl.t \in tokens
      <4>1. PICK n \in tokens \cup tmps :
              \/ <<rpl.tmp, rpl.t>> = <<FALSE, n>> /\ n \in tokens
              \/ <<rpl.tmp, rpl.t>> = <<TRUE, n>> /\ n \in tmps
        BY <2>3 DEF Names
      <4> QED
        BY <4>1
    <3>3. ~ \E s \in Slots : Unsent(s) \/ Unsent(s)'
      BY <1>1, <2>1 DEF Newborn, Unsent
    <3>4. OneName /\ runs = 0
      BY <1>2, <3>2, <3>3 DEF Single
    <3>5. tokens' = {rpl.t + 1} /\ tmps' = {}
      BY <3>1, <3>2, <3>4 DEF OneName
    <3>6. \A c \in DOMAIN copies : copies[c].tok \in Nat /\ copies[c].tok < rpl.t + 1
      <4>1. \A c \in DOMAIN copies : copies[c] \in AnyCopies
        BY <1>1, ElementOfSeq, LenProperties
      <4>2. \A c \in DOMAIN copies : copies[c].tok \in Nat /\ copies[c].tok <= rpl.t
        BY <1>2, <3>2, <4>1 DEF Single, AnyCopies
      <4> QED
        BY <1>1, <4>2
    <3>7. /\ \A s \in Slots : ~Sending(s) /\ ~Sending(s)'
          /\ \A i \in DOMAIN out : ~Carried(i) /\ ~Carried(i)'
      BY <1>2, <1>3, <2>1 DEF OneSender, Open, Sending, Carried
    <3>8. \A s \in Slots : Frugal(req[s])' /\ First(s)'
      BY <1>2, <2>1, <3>3 DEF First, Frugal, Replan
    <3>9. OneSender'
      BY <1>3, <3>1, <3>7 DEF OneSender
    <3>10. Ordered'
      BY <1>3, <3>1, <3>4, <3>5, <3>6, <3>7 DEF Ordered, Late, Ahead
    <3>11. Single'
      <4>1. \A c \in DOMAIN copies' : \A m \in tokens' \cup tmps' : copies'[c].tok <= m
        BY <1>1, <1>3, <3>5, <3>6
      <4>2. OneName'
        BY <3>5 DEF OneName
      <4> QED
        BY <1>2, <1>3, <3>4, <4>1, <4>2 DEF Single
    <3> QED
      BY <3>8, <3>9, <3>10, <3>11 DEF Once
  <2> QED
    BY <2>2, <2>3
<1>6. CASE ReplanLog
  <2>1. /\ rpl.pc = "log" /\ rpl'.pc = "deliver" /\ rpl'.t = rpl.t /\ req' = req
        /\ UNCHANGED <<tokens, tmps, sandbox>>
    BY <1>1, <1>6 DEF ReplanLog, files
  <2>2. lb'.status # "scheduled"
    BY <1>1, <1>6, LogsForms DEF ReplanLog
  <2>3. Idles
    BY <1>3, <2>1, <2>2 DEF Idles, Late, Open
  <2> QED
    BY <2>3, IdleOnce
<1>7. CASE ReplanDeliver
  <2>1. /\ rpl.pc = "deliver" /\ rpl'.pc = "delivered" /\ lb' = lb
        /\ UNCHANGED <<tokens, tmps, sandbox, up, crashes>>
        /\ Free # {} /\ req' = deliver(req, "jobsubmit", rpl.t + 1)
    BY <1>1, <1>7 DEF ReplanDeliver, files, counts
  <2>2. rpl.t + 1 \in Nat /\ rpl.t + 1 > 0
    BY <1>1
  <2>3. PICK r \in Slots : Arrives(r, "jobsubmit", rpl.t + 1)
    BY <1>1, <2>1, <2>2, DeliveryArrives
  <2>4. /\ \A s \in Slots : ~Sending(s) /\ ~Unsent(s)
        /\ \A i \in DOMAIN out : ~Carried(i)
        /\ lb.status # "scheduled" /\ Ahead(rpl.t + 1)
    BY <1>1, <1>2, <2>1 DEF OneSender, Ordered, Late, Newborn
  <2>5. /\ \A s \in Slots : Sending(s)' => s = r
        /\ \A s \in Slots : ~Unsent(s)'
    BY <2>2, <2>3, <2>4 DEF Arrives, Sending, Unsent
  <2>6. \A s \in Slots : Frugal(req[s])' /\ First(s)'
    <3>1. Frugal(req'[r])
      BY <2>3 DEF Arrives, Frugal, Replan
    <3>2. \A s \in Slots \ {r} : req'[s] = req[s]
      BY <2>3 DEF Arrives
    <3> QED
      BY <1>2, <2>5, <3>1, <3>2 DEF First, Frugal, Replan
  <2>7. OneSender'
    BY <1>3, <2>1, <2>4, <2>5 DEF OneSender, Carried, Late, Open
  <2>8. Ordered'
    <3>1. req'[r].n0 = rpl.t + 1
      BY <2>3 DEF Arrives
    <3> QED
      BY <1>3, <2>1, <2>4, <2>5, <3>1 DEF Ordered, Carried, Late, Ahead
  <2>9. Single'
    BY <1>2, <1>3, <2>1, <2>4 DEF Single, OneName
  <2> QED
    BY <2>6, <2>7, <2>8, <2>9 DEF Once
<1>8. CASE ReplanDeliverFails \/ ReplanDelivered
  <2>1. /\ rpl'.pc = "idle" /\ req' = req /\ UNCHANGED <<tokens, tmps, sandbox>>
        /\ lb'.status = lb.status
    BY <1>1, <1>8 DEF ReplanDeliverFails, ReplanDelivered, files, LBs
  <2>2. Idles
    BY <1>3, <2>1 DEF Idles, Late, Open
  <2> QED
    BY <2>2, IdleOnce
<1> QED
  BY <1>4, <1>5, <1>6, <1>7, <1>8 DEF Replanner

\* ICE sends the job with the token it has, and that is the only copy of it with that
\* token.
LEMMA IceOnce ==
  ASSUME AnyInv, AnyInv', Once, ICE
  PROVE  Once'
<1>1. /\ lb \in LBs /\ out \in Seq(AnyMessages) /\ copies \in Seq(AnyCopies)
      /\ ~sandbox => tokens = {} /\ tmps = {}
      /\ AnyReq /\ \A s \in Slots : Newborn(s) /\ Newborn(s)'
      /\ tokens \subseteq Nat /\ tmps \subseteq Nat
  BY DEF AnyInv, AnyRest
<1>2. /\ \A s \in Slots : Frugal(req[s]) /\ First(s)
      /\ OneSender /\ Ordered /\ Single
  BY DEF Once
<1>3. /\ rpl' = rpl /\ runs' = runs /\ up' = up /\ crashes' = crashes
  BY DEF ICE, IceSubmit, IceReschedule, IceCancel, IceOutcome, counts
<1> DEFINE Comes == req' = req \/ (Free # {} /\ req' = deliver(req, "jobresubmit", 0))
           Outs  == \A i, h \in DOMAIN out' : \E f, g \in DOMAIN out :
                      out'[i] = out[f] /\ out'[h] = out[g] /\ (f = g => i = h)
           Fades == /\ Resembles(copies, copies')
                    /\ \A c \in DOMAIN copies :
                         copies'[c].st = "running" => copies[c].st = "running"
<1>4. ASSUME Comes, NEW s \in Slots
      PROVE  \/ req'[s] = req[s]
             \/ req[s].cmd = "none" /\ req'[s].cmd # "jobsubmit" /\ Frugal(req'[s])
  <2>1. CASE req' = req
    BY <2>1
  <2>2. CASE Free # {} /\ req' = deliver(req, "jobresubmit", 0)
    <3>1. PICK r \in Slots : Arrives(r, "jobresubmit", 0)
      BY <1>1, <1>3, <2>2, DeliveryArrives
    <3>2. Frugal(req'[r])
      BY <3>1 DEF Arrives, Frugal
    <3> QED
      BY <3>1, <3>2 DEF Arrives
  <2> QED
    BY <1>4, <2>1, <2>2
<1>5. ASSUME NEW i \in DOMAIN out, out' = RemoveAt(out, i)
      PROVE  Outs /\ \A h \in DOMAIN out' : \E g \in DOMAIN out \ {i} : out'[h] = out[g]
  <2>1. \A h, k \in DOMAIN out' :
          \E f, g \in DOMAIN out \ {i} :
            out'[h] = out[f] /\ out'[k] = out[g] /\ (f = g => h = k)
    BY <1>1, <1>5, RemoveForms
  <2>2. \A h \in DOMAIN out' : \E g \in DOMAIN out \ {i} : out'[h] = out[g]
    BY <1>1, <1>5, RemoveForms
  <2> QED
    BY <2>1, <2>2
<1>6. out' = out => Outs
  OBVIOUS
<1>7. Outs /\ Fades => Fewer
  BY DEF Fewer, Resembles
<1> HIDE DEF Outs
<1>8. ASSUME Comes, Fewer, UNCHANGED <<tokens, tmps, sandbox>> \/ Purged,
             lb' = lb \/ lb'.status # "scheduled"
      PROVE  Once'
  <2>1. rpl'.pc = "deliver" => lb'.status # "scheduled"
    BY <1>2, <1>3, <1>8 DEF OneSender
  <2>2. Idles
    BY <1>3, <1>4, <1>8, <2>1 DEF Idles, Late, Open
  <2> QED
    BY <2>2, IdleOnce
<1>9. Fades <=> /\ Resembles(copies, copies')
                /\ \A c \in DOMAIN copies :
                     copies'[c].st = "running" => copies[c].st = "running"
  OBVIOUS
<1>10. /\ Resembles(copies, copies) /\ Resembles(copies, Forget(copies))
       /\ \A c \in DOMAIN copies : Forget(copies)[c].st = copies[c].st
  BY <1>1, CopyForms DEF Resembles
<1> HIDE DEF Fades, Comes
<1>11. ASSUME NEW i \in DOMAIN out, Carried(i), out' = RemoveAt(out, i), UNCHANGED files, NEW q,
              Resembles(copies, q), \A c \in DOMAIN copies : q[c].st = copies[c].st,
              SubmitOk(q, out[i].tok) \/ SubmitFails(q)
       PROVE  Once'
  <2>1. CASE SubmitFails(q)
    <3>1. Comes /\ copies' = q
      BY <2>1 DEF SubmitFails, Comes
    <3>2. lb'.status # "scheduled"
      <4>1. \/ lb' = [lb EXCEPT !.status = "waiting", !.done = "failed"]
            \/ lb' = log_abort
        BY <2>1 DEF SubmitFails
      <4> QED
        BY <1>1, <4>1, LogsForms DEF LBs
    <3>3. Fades
      BY <1>9, <1>11, <3>1
    <3> QED
      BY <1>5, <1>7, <1>8, <1>11, <3>1, <3>2, <3>3 DEF files
  <2>2. CASE SubmitOk(q, out[i].tok)
    <3> DEFINE t == out[i].tok
               e == [tok |-> t, st |-> "queued", known |-> TRUE]
    <3>1. copies' = Append(q, e) /\ lb' = Status("scheduled") /\ req' = req
      BY <2>2 DEF SubmitOk
    <3>2. out[i] \in AnyMessages /\ q \in Seq(AnyCopies)
      BY <1>1, <1>11, ElementOfSeq, LenProperties DEF Resembles
    <3>3. t \in Nat /\ e \in AnyCopies /\ e.tok = t /\ e.st = "queued"
      BY <3>2 DEF AnyMessages, AnyCopies
    <3>4. Ahead(t)
      BY <1>2, <1>11 DEF Ordered
    <3> HIDE DEF e
    <3>5. /\ DOMAIN copies' = DOMAIN copies \cup {Len(q) + 1}
          /\ copies'[Len(q) + 1] = e
          /\ \A c \in DOMAIN copies : /\ copies'[c].tok = copies[c].tok
                                      /\ copies'[c].st = copies[c].st
      <4>1. /\ DOMAIN copies' = DOMAIN q \cup {Len(q) + 1} /\ Len(q) + 1 \notin DOMAIN q
            /\ copies'[Len(q) + 1] = e
            /\ \A c \in DOMAIN q : copies'[c] = q[c]
        BY <3>1, <3>2, <3>3, AppendForms
      <4> QED
        BY <1>11, <4>1 DEF Resembles
    <3> HIDE DEF t
    <3>6. /\ \A s \in Slots : ~Sending(s) /\ ~Sending(s)' /\ ~Unsent(s)
          /\ ~Late /\ ~Late'
      BY <1>1, <1>2, <1>3, <1>11, <3>1 DEF OneSender, Sending, Newborn, Carried, Late
    <3>7. \A h \in DOMAIN out' : ~Carried(h)'
      <4>1. \A h \in DOMAIN out' : \E g \in DOMAIN out \ {i} : out'[h] = out[g]
        BY <1>5, <1>11
      <4> QED
        BY <1>2, <1>11, <4>1 DEF OneSender, Carried
    <3>8. \A s \in Slots : Frugal(req[s])' /\ First(s)'
      BY <1>2, <3>1, <3>6 DEF Frugal, Replan, First, Unsent
    <3>9. OneSender'
      BY <3>6, <3>7 DEF OneSender, Late
    <3>10. Ordered'
      BY <3>6, <3>7 DEF Ordered
    <3>11. Single'
      <4>1. UNCHANGED <<tokens, tmps, sandbox>>
        BY <1>11 DEF files
      <4>2. tokens \cup tmps \subseteq {t}
        BY <1>1, <3>4 DEF Ahead
      <4>3. \A c \in DOMAIN copies' : \A m \in tokens' \cup tmps' : copies'[c].tok <= m
        BY <1>2, <3>3, <3>5, <4>1, <4>2 DEF Single
      <4>4. OneName'
        BY <1>2, <3>6, <4>1 DEF Single, OneName
      <4>5. /\ \A c \in DOMAIN copies' : copies'[c].st = "running" =>
                 c \in DOMAIN copies /\ copies[c].st = "running"
        BY <3>3, <3>5
      <4>6. /\ \A c \in DOMAIN copies' : copies'[c].st = "running" => runs' = 1
            /\ \A c, d \in DOMAIN copies' :
                 copies'[c].st = "running" /\ copies'[d].st = "running" => c = d
        BY <1>2, <1>3, <4>5 DEF Single
      <4>7. runs' \in {0, 1} /\ (runs' # 0 => tokens' \cup tmps' = {})
        BY <1>2, <1>3, <4>1 DEF Single
      <4> QED
        BY <4>3, <4>4, <4>6, <4>7 DEF Single
    <3> QED
      BY <3>8, <3>9, <3>10, <3>11 DEF Once
  <2> QED
    BY <1>11, <2>1, <2>2
<1>12. ASSUME UNCHANGED <<copies, lb, req>>, UNCHANGED files,
              NEW i \in DOMAIN out, out' = RemoveAt(out, i)
       PROVE  Once'
  <2>1. Fades /\ Comes
    BY <1>9, <1>10, <1>12 DEF Comes
  <2> QED
    BY <1>5, <1>7, <1>8, <1>12, <2>1 DEF files
<1>13. ASSUME NEW i \in DOMAIN out, IceSubmit(i) PROVE Once'
  <2>1. Carried(i) /\ out' = RemoveAt(out, i) /\ UNCHANGED files
    BY <1>13 DEF IceSubmit, Carried
  <2> QED
    BY <1>10, <1>11, <1>12, <1>13, <2>1 DEF IceSubmit
<1>14. ASSUME NEW i \in DOMAIN out, IceReschedule(i) PROVE Once'
  <2>1. Carried(i) /\ out' = RemoveAt(out, i) /\ UNCHANGED files
    BY <1>14 DEF IceReschedule, Carried
  <2> QED
    BY <1>10, <1>11, <1>12, <1>14, <2>1 DEF IceReschedule
<1>15. ASSUME NEW i \in DOMAIN out, IceCancel(i) PROVE Once'
  <2>1. out' = RemoveAt(out, i) /\ UNCHANGED <<files, lb, req>>
    BY <1>15 DEF IceCancel
  <2>2. Fades /\ Comes
    BY <1>1, <1>9, <1>15, <2>1, CopyForms DEF Comes
  <2> QED
    BY <1>5, <1>7, <1>8, <2>1, <2>2 DEF files
<1>16. ASSUME NEW c \in DOMAIN copies, IceOutcome(c) PROVE Once'
  <2>1. copies' = RemoveAt(copies, c) /\ out' = out
    BY <1>16 DEF IceOutcome
  <2>2. Comes /\ (UNCHANGED <<tokens, tmps, sandbox>> \/ Purged)
    BY <1>16 DEF IceOutcome, files, Purge, Purged, Comes
  <2>3. lb'.status # "scheduled"
    <3>1. \/ lb' = [lb EXCEPT !.status = "done", !.done = "ok"]
          \/ lb' = [lb EXCEPT !.status = "waiting", !.done = "failed"]
          \/ lb' = [log_abort EXCEPT !.done = "failed"]
          \/ lb' = log_cancelled
      BY <1>16 DEF IceOutcome
    <3> QED
      BY <1>1, <3>1 DEF LBs, log_abort, log_cancelled
  <2>4. \A d, f \in DOMAIN copies' : \E e, g \in DOMAIN copies \ {c} :
          copies'[d] = copies[e] /\ copies'[f] = copies[g] /\ (e = g => d = f)
    BY <1>1, <2>1, RemoveForms
  <2>5. Fewer
    BY <2>1, <2>4 DEF Fewer
  <2> QED
    BY <1>8, <2>2, <2>3, <2>5
<1> QED
  BY <1>13, <1>14, <1>15, <1>16 DEF ICE

\* A copy that starts takes the only token, and nobody has the job any more.
LEMMA CreamOnce ==
  ASSUME AnyInv, AnyInv', Once, CREAM
  PROVE  Once'
<1>1. /\ lb \in LBs /\ copies \in Seq(AnyCopies) /\ tokens \subseteq Nat /\ tmps \subseteq Nat
      /\ ~sandbox => tokens = {} /\ tmps = {}
      /\ \A s \in Slots : Newborn(s)
  BY DEF AnyInv, AnyRest
<1>2. /\ \A s \in Slots : Frugal(req[s]) /\ First(s)
      /\ OneSender /\ Ordered /\ Single
  BY DEF Once
<1>3. PICK c \in DOMAIN copies : Start(c) \/ CopyFails(c) \/ CopyEnds(c) \/ Vanish(c)
  BY DEF CREAM
<1>4. UNCHANGED <<req, rpl, out, tmps, sandbox>>
  BY <1>3 DEF Start, CopyFails, CopyEnds, Vanish, files
<1>5. ASSUME Fewer, UNCHANGED <<tokens, runs, lb>> PROVE Once'
  <2>1. Idles
    BY <1>2, <1>4, <1>5 DEF Idles, Late, Open, OneSender
  <2> QED
    BY <2>1, IdleOnce
<1>6. ASSUME NEW s \in {"failed", "ok"}, copies' = [copies EXCEPT ![c].st = s]
      PROVE  Fewer
  <2>1. s \in {"running", "failed", "ok"}
    OBVIOUS
  <2>2. /\ Resembles(copies, copies')
        /\ \A d \in DOMAIN copies : copies'[d].st = IF d = c THEN s ELSE copies[d].st
    BY <1>1, <1>6, <2>1, CopyForms
  <2> QED
    BY <1>4, <2>2 DEF Resembles, Fewer
<1>7. CASE Vanish(c)
  <2>1. copies' = RemoveAt(copies, c) /\ UNCHANGED <<tokens, runs, lb>>
    BY <1>7 DEF Vanish, files
  <2>2. \A d, f \in DOMAIN copies' : \E e, g \in DOMAIN copies \ {c} :
          copies'[d] = copies[e] /\ copies'[f] = copies[g] /\ (e = g => d = f)
    BY <1>1, <2>1, RemoveForms
  <2>3. Fewer
    BY <1>4, <2>2 DEF Fewer
  <2> QED
    BY <1>5, <2>1, <2>3
<1>8. CASE CopyFails(c) \/ CopyEnds(c)
  BY <1>5, <1>6, <1>8 DEF CopyFails, CopyEnds, files
<1>9. CASE Start(c)
  <2>1. CASE copies[c].tok \notin tokens
    BY <1>5, <1>6, <1>9, <2>1 DEF Start
  <2>2. CASE copies[c].tok \in tokens
    <3>1. /\ copies' = [copies EXCEPT ![c].st = "running"]
          /\ tokens' = tokens \ {copies[c].tok} /\ runs' = runs + 1
          /\ lb' = Status("running")
      BY <1>9, <2>2 DEF Start
    <3>2. /\ Resembles(copies, copies')
          /\ \A d \in DOMAIN copies : copies'[d].st = IF d = c THEN "running" ELSE copies[d].st
      BY <1>1, <3>1, CopyForms
    <3>3. runs = 0 /\ runs' = 1 /\ \A s \in Slots : ~Unsent(s) /\ ~Unsent(s)'
      BY <1>1, <1>2, <1>4, <2>2, <3>1 DEF Single, Newborn, Unsent
    <3>4. tokens' = {} /\ tmps' = {}
      BY <1>2, <1>4, <2>2, <3>1, <3>3 DEF Single, OneName
    <3>5. ASSUME NEW m, Ahead(m) PROVE FALSE
      <4>1. copies[c].tok < m /\ copies[c].tok = m
        BY <1>1, <2>2, <3>5 DEF Ahead
      <4>2. copies[c].tok \in Nat
        BY <1>1, <2>2
      <4> QED
        BY <4>1, <4>2
    <3>6. \A s \in Slots : ~Sending(s) /\ ~Sending(s)'
      <4>1. ASSUME NEW s \in Slots, Sending(s) PROVE FALSE
        <5>1. req[s].n0 # 0
          BY <1>2, <3>3, <4>1 DEF Sending, Unsent, Frugal
        <5> QED
          BY <1>2, <3>5, <4>1, <5>1 DEF Ordered
      <4> QED
        BY <1>4, <4>1 DEF Sending
    <3>7. /\ \A i \in DOMAIN out' : ~Carried(i)'
          /\ ~Late'
      BY <1>2, <1>4, <3>5 DEF Ordered, Carried, Late
    <3>8. \A s \in Slots : Frugal(req[s])' /\ First(s)'
      BY <1>2, <1>4, <3>3 DEF Frugal, Replan, First
    <3>9. lb'.status # "scheduled"
      BY <1>1, <3>1 DEF Status, LBs
    <3>10. OneSender' /\ Ordered'
      BY <3>6, <3>7, <3>9 DEF OneSender, Ordered
    <3>11. Single'
      BY <1>2, <3>2, <3>3, <3>4 DEF Single, OneName, Resembles
    <3> QED
      BY <3>8, <3>10, <3>11 DEF Once
  <2> QED
    BY <2>1, <2>2
<1> QED
  BY <1>3, <1>7, <1>8, <1>9

\* A cancellation does not send the job anywhere.
LEMMA UserOnce ==
  ASSUME AnyInv, AnyInv', Once, UserCancels
  PROVE  Once'
<1>1. /\ Free # {} /\ req' = deliver(req, "jobcancel", 0)
      /\ UNCHANGED <<tokens, tmps, sandbox, lb, rpl, out, copies, runs, up, crashes>>
  BY DEF UserCancels, files, cream
<1>2. PICK r \in Slots : Arrives(r, "jobcancel", 0)
  BY <1>1, DeliveryArrives DEF AnyInv
<1>3. Frugal(req'[r])
  BY <1>2 DEF Arrives, Frugal
<1>4. Idles
  BY <1>1, <1>2, <1>3, SameFewer DEF Arrives, Idles, Late, Open, Once, OneSender
<1> QED
  BY <1>4, IdleOnce

\* The inductive invariant of a job without retries.
OnceInv == AnyInv /\ (NoRetries => Once)

\* In the beginning the job is with its submission only.
LEMMA OnceInit ==
  ASSUME Init
  PROVE  OnceInv
<1> DEFINE x == Request("jobsubmit", 0)
<1>1. AnyInv
  BY AnyInit
<1>2. req = [s \in Slots |-> IF s = 1 THEN x ELSE NoRequest] /\ 1 \in Slots
  BY JobAssumption DEF Init
<1>3. /\ x.cmd = "jobsubmit" /\ x.n0 = 0 /\ x.queued = 0 /\ x.loc = "new" /\ x.sent = 0
      /\ x.pc = "idle"
  BY DEF Request, NoRequest
<1> HIDE DEF x
<1>4. Frugal(x) /\ Frugal(NoRequest)
  BY <1>3 DEF Frugal, NoRequest
<1>5. \A s \in Slots : Frugal(req[s]) /\ First(s)
  <2>1. runs = 0 /\ tmps = {}
    BY DEF Init
  <2>2. \A s \in Slots : Frugal(req[s]) /\ req[s].pc = "idle"
    BY <1>2, <1>3, <1>4 DEF NoRequest
  <2> QED
    BY <2>1, <2>2 DEF First
<1>6. Unsent(1) /\ \A s \in Slots : Sending(s) => s = 1
  BY <1>2, <1>3 DEF Unsent, Sending, NoRequest
<1>7. /\ out = <<>> /\ copies = <<>> /\ rpl.pc = "idle" /\ lb.status = "submitted"
      /\ tokens = {} /\ tmps = {} /\ runs = 0
  BY DEF Init
<1>8. OneSender /\ Ordered
  BY <1>2, <1>3, <1>6, <1>7 DEF OneSender, Ordered, Late, Open
<1>9. Single
  BY <1>7 DEF Single, OneName
<1> QED
  BY <1>1, <1>5, <1>8, <1>9 DEF OnceInv, Once

\* Every step keeps it: the retries do not change, and crashes are not undone.
LEMMA OnceNext ==
  ASSUME OnceInv, [Next]_vars
  PROVE  OnceInv'
<1>1. AnyInv /\ AnyInv'
  BY AnyNext DEF OnceInv
<1>2. SUFFICES ASSUME NoRetries' PROVE Once'
  BY <1>1 DEF OnceInv
<1>3. CASE UNCHANGED vars
  BY <1>2, <1>3 DEF vars, OnceInv, NoRetries, Once, Frugal, Replan, First, Unsent, OneSender, Sending,
     Carried, Late, Open, Ordered, Ahead, Single, OneName
<1>4. CASE Crash
  <2>1. crashes' = crashes + 1 /\ crashes \in Nat
    BY <1>1, <1>4 DEF Crash, AnyInv, AnyRest
  <2> QED
    BY <1>2, <2>1 DEF NoRetries
<1>5. CASE Restart
  BY <1>1, <1>2, <1>5 DEF Restart, NoRetries, AnyInv, AnyRest
<1>6. ASSUME NEW r \in Slots, Dequeue(r) \/ Submission(r) \/ Cancellation(r) PROVE Once'
  <2>1. UNCHANGED <<limits, crashes>>
    BY <1>1, <1>6, ProcessorRest DEF AnyInv
  <2>2. NoRetries /\ Once
    BY <1>2, <2>1 DEF NoRetries, OnceInv
  <2> QED
    BY <1>1, <1>6, <2>2, ProcessorOnce
<1>7. CASE Replanner \/ ICE \/ CREAM \/ UserCancels
  <2>1. UNCHANGED <<limits, crashes>>
    BY <1>7 DEF Replanner, ReplanLook, ReplanRename, ReplanLog, ReplanDeliver,
       ReplanDeliverFails, ReplanDelivered, ICE, IceSubmit, IceReschedule, IceCancel,
       IceOutcome, CREAM, Start, CopyFails, CopyEnds, Vanish, UserCancels, counts
  <2>2. Once
    BY <1>2, <2>1 DEF NoRetries, OnceInv
  <2> QED
    BY <1>1, <1>7, <2>2, ReplannerOnce, IceOnce, CreamOnce, UserOnce
<1> QED
  BY <1>3, <1>4, <1>5, <1>6, <1>7 DEF Next

\* What holds of a job that may be replanned, and of one without retries besides as
\* long as the workload manager does not crash.
THEOREM OnceInvariance == Spec => []OnceInv
<1>1. Init => OnceInv
  BY OnceInit
<1>2. OnceInv /\ [Next]_vars => OnceInv'
  BY OnceNext
<1> QED
  BY <1>1, <1>2, PTL DEF Spec

\* Two copies of a job without retries never run at the same time, however often the
\* job is replanned and cancelled and whatever the environment fails, as long as the
\* workload manager does not crash: a replan renames the token, so that the copies
\* sent before cannot start, and does so only while no copy has started.
THEOREM OnceRunsAlone == Spec => [](NoRetries => AtMostOneRunning)
<1>1. ASSUME Once
      PROVE  AtMostOneRunning
  <2> DEFINE R == {c \in DOMAIN copies : copies[c].st = "running"}
  <2>1. \A c, d \in R : c = d
    BY <1>1 DEF Once, Single
  <2>2. R = {} \/ \E c \in R : R = {c}
    BY <2>1
  <2>3. Cardinality(R) <= 1
    <3>1. CASE R = {}
      BY <3>1, FS_EmptySet
    <3>2. ASSUME NEW c, R = {c} PROVE Cardinality(R) <= 1
      BY <3>2, FS_Singleton
    <3> QED
      BY <2>2, <3>1, <3>2
  <2> QED
    BY <2>3 DEF AtMostOneRunning
<1>2. OnceInv => (NoRetries => AtMostOneRunning)
  BY <1>1 DEF OnceInv
<1> QED
  BY <1>2, OnceInvariance, PTL

\* Such a job starts once at most in its life: no copy of it is on its way, neither with
\* a request nor in ICE's input nor with the Replanner, once one has started.
THEOREM OnceStarts == Spec => [](NoRetries => runs <= 1 /\ RunsBounded)
<1>1. OnceInv => (NoRetries => runs <= 1 /\ RunsBounded)
  BY DEF OnceInv, NoRetries, Once, Single, RunsBounded
<1> QED
  BY <1>1, OnceInvariance, PTL

\* Whoever looks for the token of such a job finds one at most: the token that a replan
\* counts up is renamed, and its two names exist together only while the user's
\* submission creates it.
THEOREM OnceOneToken == Spec => [](NoRetries => OneToken)
<1>1. ASSUME AnyInv, Once, NEW r \in Slots, At(r, "scan")
      PROVE  Cardinality(Names) <= 1
  <2>1. OneName
    <3>1. ASSUME NEW s \in Slots, Unsent(s), req[s].pc = "restore" PROVE FALSE
      <4>1. req[r].pc = "scan" /\ s # r
        BY <1>1, <3>1 DEF At
      <4>2. req[r].cmd \in {"none", "jobcancel"} /\ Placed(r)
        BY <1>1, <3>1, <4>1 DEF AnyInv, Newborn, AnyReq
      <4> QED
        BY <1>1, <4>1, <4>2 DEF Placed, CancelPCs
    <3> QED
      BY <1>1, <3>1 DEF Once, Single
  <2>2. ASSUME NEW f \in Names, NEW g \in Names PROVE f = g
    <3>1. \/ \E m \in tokens : f = <<FALSE, m>>
          \/ \E m \in tmps : f = <<TRUE, m>>
      BY <2>2 DEF Names
    <3>2. \/ \E n \in tokens : g = <<FALSE, n>>
          \/ \E n \in tmps : g = <<TRUE, n>>
      BY <2>2 DEF Names
    <3>3. /\ \A m, n \in tokens : m = n
          /\ \A m, n \in tmps : m = n
          /\ \A m \in tokens, n \in tmps : FALSE
      BY <2>1 DEF OneName
    <3> QED
      BY <3>1, <3>2, <3>3
  <2>3. Names = {} \/ \E f \in Names : Names = {f}
    BY <2>2
  <2>4. CASE Names = {}
    BY <2>4, FS_EmptySet
  <2>5. ASSUME NEW f, Names = {f} PROVE Cardinality(Names) <= 1
    BY <2>5, FS_Singleton
  <2> QED
    BY <2>3, <2>4, <2>5
<1>2. OnceInv => (NoRetries => OneToken)
  BY <1>1 DEF OnceInv, OneToken
<1> QED
  BY <1>2, OnceInvariance, PTL
=============================================================================
