--------------------------- MODULE IcePoolProofs ---------------------------
(***************************************************************************)
(* For any number of workers, jobs and commands: two workers never execute *)
(* commands of one job together, the commands of a job start in the order  *)
(* they were queued in, the lblog queue exceeds its limit by one command    *)
(* per producer at most, and the shutdown never stops a pool that somebody *)
(* still waits for.                                                        *)
(***************************************************************************)
EXTENDS IcePool, SequenceTheorems, FiniteSetTheorems, TLAPS

AnyCommand == {"request", "query", "log"} \X Nat

\* What the proofs need of the types.
Shapes ==
  /\ queue \in [Pools -> Seq(AnyCommand)]
  /\ pending \in [Pools -> SUBSET (AnyCommand \cup ({"job"} \X {JobOf[n] : n \in Nat}))]
  /\ wpc \in [Workers -> {"top", "lock", "test", "waiting", "woken", "exec",
                          "lbcheck", "lbadd", "finish", "ended"}]
  /\ cmd \in [Workers -> AnyCommand \cup {None}]
  /\ ppc \in [Producers -> {"top", "loop", "queued", "lbcheck", "lbadd", "ended"}]
  /\ added \in Nat
  /\ queries \in Nat
  /\ logs \in Nat

\* A busy worker's id is in m_pending_jobs, and no other worker has it.
Marked ==
  \A w \in RequestWorkers : Busy(w) => IdOf(cmd[w]) \in pending["requests"]

\* The requests are queued in the order of their numbers.
Sorted ==
  \A i \in 1 .. Len(queue["requests"]) :
    /\ queue["requests"][i][2] <= added
    /\ \A k \in 1 .. i - 1 : queue["requests"][k][2] < queue["requests"][i][2]

PInv == Shapes /\ Marked /\ OnePerJob /\ Sorted

\* Removing the i-th element shifts the ones behind it.
LEMMA WithoutFacts ==
  ASSUME NEW S, NEW q \in Seq(S), NEW i \in 1 .. Len(q)
  PROVE  /\ Without(q, i) \in Seq(S)
         /\ Len(Without(q, i)) = Len(q) - 1
         /\ \A k \in 1 .. Len(q) - 1 :
              Without(q, i)[k] = IF k < i THEN q[k] ELSE q[k + 1]
<1> DEFINE a == SubSeq(q, 1, i - 1)  b == SubSeq(q, i + 1, Len(q))
<1>1. a \in Seq(S) /\ Len(a) = i - 1 /\ \A k \in 1 .. i - 1 : a[k] = q[k]
  OBVIOUS
<1>2. /\ b \in Seq(S) /\ Len(b) = Len(q) - i
      /\ \A k \in 1 .. Len(q) - i : b[k] = q[k + i]
  OBVIOUS
<1>3. Without(q, i) = a \o b
  BY DEF Without
<1> HIDE DEF a, b
<1>4. /\ a \o b \in Seq(S) /\ Len(a \o b) = Len(q) - 1
      /\ \A k \in 1 .. Len(q) - 1 :
           (a \o b)[k] = IF k <= i - 1 THEN a[k] ELSE b[k - (i - 1)]
  <2>1. /\ a \o b \in Seq(S) /\ Len(a \o b) = Len(a) + Len(b)
        /\ \A k \in 1 .. Len(a) + Len(b) :
             (a \o b)[k] = IF k <= Len(a) THEN a[k] ELSE b[k - Len(a)]
    BY <1>1, <1>2, ConcatProperties, Zenon
  <2>2. Len(q) \in Nat /\ Len(a) + Len(b) = Len(q) - 1
    BY <1>1, <1>2
  <2> QED
    BY <2>1, <2>2, <1>1
<1>5. ASSUME NEW k \in 1 .. Len(q) - 1
      PROVE  (a \o b)[k] = IF k < i THEN q[k] ELSE q[k + 1]
  <2>1. CASE k < i
    <3>1. k <= i - 1 /\ k \in 1 .. i - 1
      BY <2>1
    <3>2. (a \o b)[k] = a[k]
      BY <3>1, <1>4, Zenon
    <3> QED
      BY <2>1, <3>1, <3>2, <1>1
  <2>2. CASE ~ (k < i)
    <3>0. ~ (k <= i - 1)
      BY <2>2
    <3>1. (a \o b)[k] = b[k - (i - 1)]
      BY <3>0, <1>4, Zenon
    <3>2. k - (i - 1) \in 1 .. Len(q) - i
      BY <2>2
    <3> QED
      BY <3>1, <3>2, <1>2
  <2> QED
    BY <2>1, <2>2
<1> QED
  BY <1>3, <1>4, <1>5

\* The initial state.
LEMMA InitPInv == Init => PInv
<1> SUFFICES ASSUME Init PROVE PInv
  OBVIOUS
<1>1. queue \in [Pools -> Seq(AnyCommand)] /\ queue["requests"] = <<>>
  BY DEF Init, Pools
<1>2. Shapes
  BY <1>1 DEF Init, Shapes
<1>3. \A w \in Workers : ~ Busy(w)
  BY DEF Init, Busy
<1>4. Marked /\ OnePerJob
  BY <1>3 DEF Marked, OnePerJob, Workers
<1>5. Sorted
  BY <1>1 DEF Sorted
<1> QED
  BY <1>2, <1>4, <1>5 DEF PInv

\* Notifying touches waiting workers only.
LEMMA NotifiedFacts ==
  ASSUME NEW p, NEW pc \in [Workers -> {"top", "lock", "test", "waiting",
           "woken", "exec", "lbcheck", "lbadd", "finish", "ended"}]
  PROVE  /\ Notified(p, pc) \in [Workers -> {"top", "lock", "test", "waiting",
              "woken", "exec", "lbcheck", "lbadd", "finish", "ended"}]
         /\ \A w \in Workers : Notified(p, pc)[w] # pc[w] =>
              pc[w] = "waiting" /\ Notified(p, pc)[w] = "woken"
BY DEF Notified

\* A step that leaves the requests pool alone keeps its invariant.
LEMMA QuietKeeps ==
  ASSUME PInv, Shapes',
         queue'["requests"] = queue["requests"],
         pending'["requests"] = pending["requests"],
         added' = added,
         \A w \in RequestWorkers : Busy(w)' => Busy(w) /\ cmd'[w] = cmd[w]
  PROVE  PInv'
<1>1. Marked'
  BY DEF PInv, Marked, IdOf
<1>2. OnePerJob'
  BY DEF PInv, OnePerJob, IdOf
<1>3. Sorted'
  BY DEF PInv, Sorted
<1> QED
  BY <1>1, <1>2, <1>3 DEF PInv

\* A worker takes a command.
LEMMA TakeKeeps ==
  ASSUME PInv, NEW w \in Workers, Take(w)
  PROVE  PInv'
<1> DEFINE p == PoolOf(w)
<1>1. p \in Pools /\ (p = "requests" <=> w \in RequestWorkers)
  BY DEF PoolOf, Pools
<1>2. PICK i \in 1 .. Len(queue[p]) :
        /\ IsFirst(p, i)
        /\ cmd' = [cmd EXCEPT ![w] = queue[p][i]]
        /\ queue' = [queue EXCEPT ![p] = Without(@, i)]
        /\ pending' = [pending EXCEPT ![p] = @ \cup {IdOf(queue[p][i])}]
  BY DEF Take
<1>3. /\ wpc[w] = "test" /\ wpc' = [wpc EXCEPT ![w] = "exec"]
      /\ UNCHANGED <<ppc, added, queries, logs>>
  BY DEF Take, producers
<1>4. Shapes
  BY DEF PInv
<1>5. queue[p] \in Seq(AnyCommand) /\ queue[p][i] \in AnyCommand
  BY <1>1, <1>4 DEF Shapes
<1>6. /\ Without(queue[p], i) \in Seq(AnyCommand)
      /\ Len(Without(queue[p], i)) = Len(queue[p]) - 1
      /\ \A k \in 1 .. Len(queue[p]) - 1 :
           Without(queue[p], i)[k] = IF k < i THEN queue[p][k] ELSE queue[p][k + 1]
  BY <1>5, WithoutFacts
<1>7. /\ IdOf(queue[p][i]) \in AnyCommand \cup ({"job"} \X {JobOf[n] : n \in Nat})
      /\ IdOf(queue[p][i]) \notin pending[p]
  BY <1>2, <1>5 DEF AnyCommand, IdOf, IsFirst
<1> HIDE DEF p
<1>8. Shapes'
  BY <1>1, <1>2, <1>3, <1>4, <1>5, <1>6, <1>7 DEF Shapes
<1>9. CASE w \notin RequestWorkers
  <2>1. queue'["requests"] = queue["requests"] /\ pending'["requests"] = pending["requests"]
    BY <1>9, <1>1, <1>2, <1>4 DEF Shapes
  <2>2. \A v \in RequestWorkers : Busy(v)' => Busy(v) /\ cmd'[v] = cmd[v]
    BY <1>9, <1>2, <1>3, <1>4 DEF Shapes, Busy, Workers
  <2> QED
    BY <2>1, <2>2, <1>3, <1>8, QuietKeeps
<1>10. CASE w \in RequestWorkers
  <2>1. p = "requests"
    BY <1>10, <1>1
  <2>2. /\ cmd'[w] = queue[p][i]
        /\ \A v \in RequestWorkers \ {w} : cmd'[v] = cmd[v] /\ (Busy(v)' <=> Busy(v))
        /\ pending'[p] = pending[p] \cup {IdOf(queue[p][i])}
    BY <1>1, <1>2, <1>3, <1>4 DEF Shapes, Busy, Workers
  <2>3. Marked'
    BY <2>1, <2>2 DEF PInv, Marked, IdOf
  <2>4. OnePerJob'
    <3> SUFFICES ASSUME NEW u \in RequestWorkers, NEW v \in RequestWorkers,
                        Busy(u)', Busy(v)', IdOf(cmd[u])' = IdOf(cmd[v])'
                 PROVE  u = v
      BY DEF OnePerJob
    <3>1. \A x \in RequestWorkers \ {w} : Busy(x) => IdOf(cmd[x]) # IdOf(queue[p][i])
      BY <2>1, <1>7 DEF PInv, Marked
    <3>2. CASE u # w /\ v # w
      BY <3>2, <2>2 DEF PInv, OnePerJob, IdOf
    <3>3. CASE u = w /\ v # w
      BY <3>3, <3>1, <2>2 DEF IdOf
    <3>4. CASE u # w /\ v = w
      BY <3>4, <3>1, <2>2 DEF IdOf
    <3> QED
      BY <3>2, <3>3, <3>4
  <2>5. Sorted'
    <3> DEFINE q == queue["requests"]  r == queue'["requests"]
    <3>1. r = Without(q, i) /\ added' = added
      BY <2>1, <1>1, <1>2, <1>3, <1>4 DEF Shapes
    <3>2. /\ Len(r) = Len(q) - 1 /\ Len(q) \in Nat
          /\ \A k \in 1 .. Len(r) : r[k] = IF k < i THEN q[k] ELSE q[k + 1]
      BY <3>1, <2>1, <1>5, <1>6
    <3>3. /\ \A k \in 1 .. Len(q) : q[k][2] <= added
          /\ \A k \in 1 .. Len(q) : \A j \in 1 .. k - 1 : q[j][2] < q[k][2]
      BY DEF PInv, Sorted
    <3>4. i \in 1 .. Len(q)
      BY <2>1
    <3> HIDE DEF q, r
    <3>5. \A k \in 1 .. Len(r) : r[k][2] <= added
      BY <3>2, <3>3, <3>4
    <3>6. \A k \in 1 .. Len(r) : \A j \in 1 .. k - 1 : r[j][2] < r[k][2]
      <4> SUFFICES ASSUME NEW k \in 1 .. Len(r), NEW j \in 1 .. k - 1
                   PROVE  r[j][2] < r[k][2]
        OBVIOUS
      <4> DEFINE kk == IF k < i THEN k ELSE k + 1
                 jj == IF j < i THEN j ELSE j + 1
      <4>1. r[k] = q[kk] /\ r[j] = q[jj] /\ kk \in 1 .. Len(q) /\ jj \in 1 .. kk - 1
        BY <3>2, <3>4
      <4> QED
        BY <4>1, <3>3
    <3> QED
      BY <3>1, <3>5, <3>6 DEF Sorted, r
  <2> QED
    BY <2>3, <2>4, <2>5, <1>8 DEF PInv
<1> QED
  BY <1>9, <1>10

\* A worker has executed its command and erases its id.
LEMMA FinishKeeps ==
  ASSUME PInv, NEW w \in Workers, Finish(w)
  PROVE  PInv'
<1> DEFINE p == PoolOf(w)  pc == [wpc EXCEPT ![w] = "top"]
<1>1. p \in Pools /\ (p = "requests" <=> w \in RequestWorkers)
  BY DEF PoolOf, Pools
<1>2. /\ wpc[w] = "finish"
      /\ pending' = [pending EXCEPT ![p] = @ \ Erased(cmd[w])]
      /\ wpc' = Notified(p, pc)
      /\ cmd' = [cmd EXCEPT ![w] = None]
      /\ UNCHANGED <<queue, ppc, added, queries, logs>>
  BY DEF Finish, producers
<1>3. Shapes
  BY DEF PInv
<1>4. /\ wpc' \in [Workers -> {"top", "lock", "test", "waiting", "woken", "exec",
                               "lbcheck", "lbadd", "finish", "ended"}]
      /\ \A v \in Workers : wpc'[v] # pc[v] => pc[v] = "waiting" /\ wpc'[v] = "woken"
  <2>1. pc \in [Workers -> {"top", "lock", "test", "waiting", "woken", "exec",
                            "lbcheck", "lbadd", "finish", "ended"}]
    BY <1>3 DEF Shapes
  <2> HIDE DEF p, pc
  <2> QED
    BY <2>1, <1>2, NotifiedFacts
<1>5. wpc'[w] = "top" /\ \A v \in Workers \ {w} : Busy(v)' <=> Busy(v)
  BY <1>3, <1>4 DEF Shapes, Busy
<1>6. ~ Busy(w)' /\ Busy(w)
  BY <1>2, <1>5 DEF Busy
<1> HIDE DEF p, pc
<1>7. Shapes'
  BY <1>1, <1>2, <1>3, <1>4 DEF Shapes
<1>8. \A v \in RequestWorkers : Busy(v)' =>
        v # w /\ Busy(v) /\ cmd'[v] = cmd[v] /\ IdOf(cmd[v])' = IdOf(cmd[v])
  BY <1>2, <1>3, <1>5, <1>6 DEF Shapes, Workers, IdOf
<1>9. Marked'
  <2> SUFFICES ASSUME NEW v \in RequestWorkers, Busy(v)'
               PROVE  IdOf(cmd[v])' \in pending'["requests"]
    BY DEF Marked
  <2>1. IdOf(cmd[v]) \in pending["requests"]
    BY <1>8 DEF PInv, Marked
  <2>2. CASE w \in RequestWorkers
    <3>1. IdOf(cmd[v]) # IdOf(cmd[w])
      BY <2>2, <1>6, <1>8 DEF PInv, OnePerJob
    <3>2. pending'["requests"] = pending["requests"] \ Erased(cmd[w])
      BY <2>2, <1>1, <1>2, <1>3 DEF Shapes
    <3> QED
      BY <3>1, <3>2, <2>1, <1>8 DEF Erased
  <2>3. CASE w \notin RequestWorkers
    BY <2>1, <2>3, <1>1, <1>2, <1>3, <1>8 DEF Shapes
  <2> QED
    BY <2>2, <2>3
<1>10. OnePerJob'
  BY <1>8 DEF PInv, OnePerJob
<1>11. Sorted'
  BY <1>2 DEF PInv, Sorted
<1> QED
  BY <1>7, <1>9, <1>10, <1>11 DEF PInv

\* What add_request() does to the shapes, and to the workers.
LEMMA AddFacts ==
  ASSUME Shapes, NEW p \in Pools, NEW c \in AnyCommand,
         NEW pc \in [Workers -> {"top", "lock", "test", "waiting", "woken", "exec",
                                "lbcheck", "lbadd", "finish", "ended"}],
         AddRequest(p, c, pc)
  PROVE  /\ queue' \in [Pools -> Seq(AnyCommand)]
         /\ queue' = [queue EXCEPT ![p] = Append(queue[p], c)]
         /\ wpc' \in [Workers -> {"top", "lock", "test", "waiting", "woken", "exec",
                                  "lbcheck", "lbadd", "finish", "ended"}]
         /\ \A w \in Workers : Busy(w)' => wpc'[w] = pc[w]
         /\ \A w \in Workers : pc[w] = "ended" => wpc'[w] = "ended"
         /\ \A w \in Workers : wpc'[w] \in {"lbcheck", "lbadd"} => pc[w] = wpc'[w]
<1>1. queue' = [queue EXCEPT ![p] = Append(queue[p], c)] /\ wpc' = Notified(p, pc)
  BY DEF AddRequest
<1>2. queue[p] \in Seq(AnyCommand) /\ Append(queue[p], c) \in Seq(AnyCommand)
  BY DEF Shapes
<1>3. queue' \in [Pools -> Seq(AnyCommand)]
  BY <1>1, <1>2 DEF Shapes
<1>4. /\ wpc' \in [Workers -> {"top", "lock", "test", "waiting", "woken", "exec",
                               "lbcheck", "lbadd", "finish", "ended"}]
      /\ \A w \in Workers : wpc'[w] # pc[w] => pc[w] = "waiting" /\ wpc'[w] = "woken"
  BY <1>1, NotifiedFacts
<1> QED
  BY <1>1, <1>3, <1>4 DEF Busy

\* A new request is queued behind the others.
LEMMA NewRequestKeeps ==
  ASSUME PInv, NewRequest
  PROVE  PInv'
<1> DEFINE c == <<"request", added + 1>>  q == queue["requests"]
<1>1. Shapes /\ added \in Nat
  BY DEF PInv, Shapes
<1>2. c \in AnyCommand /\ "requests" \in Pools
  BY <1>1 DEF AnyCommand, Pools
<1>3. /\ AddRequest("requests", c, wpc) /\ added' = added + 1
      /\ UNCHANGED <<pending, cmd, ppc, queries, logs>>
  BY DEF NewRequest, producers
<1> HIDE DEF c
<1>4. /\ queue' \in [Pools -> Seq(AnyCommand)]
      /\ queue'["requests"] = Append(q, c)
      /\ wpc' \in [Workers -> {"top", "lock", "test", "waiting", "woken", "exec",
                               "lbcheck", "lbadd", "finish", "ended"}]
      /\ \A w \in Workers : Busy(w)' => wpc'[w] = wpc[w]
  <2>1. wpc \in [Workers -> {"top", "lock", "test", "waiting", "woken", "exec",
                             "lbcheck", "lbadd", "finish", "ended"}]
    BY <1>1 DEF Shapes
  <2> QED
    BY <2>1, <1>1, <1>2, <1>3, AddFacts DEF Shapes
<1>5. Shapes'
  BY <1>1, <1>3, <1>4 DEF Shapes
<1>6. \A w \in RequestWorkers : Busy(w)' => Busy(w) /\ IdOf(cmd[w])' = IdOf(cmd[w])
  BY <1>3, <1>4 DEF Busy, Workers, IdOf
<1>7. Marked' /\ OnePerJob'
  BY <1>3, <1>6 DEF PInv, Marked, OnePerJob
<1>8. Sorted'
  <2>1. q \in Seq(AnyCommand)
    BY <1>1 DEF Shapes, Pools
  <2>2. /\ Len(Append(q, c)) = Len(q) + 1 /\ Len(q) \in Nat
        /\ \A k \in 1 .. Len(q) : Append(q, c)[k] = q[k] /\ q[k][2] \in Nat
        /\ Append(q, c)[Len(q) + 1] = c
    BY <2>1, <1>2 DEF AnyCommand
  <2>3. c[2] = added + 1
    BY DEF c
  <2>4. /\ \A k \in 1 .. Len(q) : q[k][2] <= added
        /\ \A k \in 1 .. Len(q) : \A j \in 1 .. k - 1 : q[j][2] < q[k][2]
    BY DEF PInv, Sorted
  <2> DEFINE r == queue'["requests"]
  <2>5. /\ Len(r) = Len(q) + 1
        /\ \A k \in 1 .. Len(q) : r[k] = q[k]
        /\ r[Len(q) + 1] = c
    BY <2>2, <1>4
  <2> HIDE DEF r, q
  <2>6. \A k \in 1 .. Len(r) : r[k][2] <= added'
    BY <2>2, <2>3, <2>4, <2>5, <1>1, <1>3
  <2>7. \A k \in 1 .. Len(r) : \A j \in 1 .. k - 1 : r[j][2] < r[k][2]
    <3> SUFFICES ASSUME NEW k \in 1 .. Len(r), NEW j \in 1 .. k - 1
                 PROVE  r[j][2] < r[k][2]
      OBVIOUS
    <3>1. j \in 1 .. Len(q)
      BY <2>2, <2>5
    <3>2. CASE k = Len(q) + 1
      BY <3>1, <3>2, <2>2, <2>3, <2>4, <2>5, <1>1
    <3>3. CASE k # Len(q) + 1
      BY <3>1, <3>3, <2>2, <2>4, <2>5
    <3> QED
      BY <3>2, <3>3
  <2> QED
    BY <2>6, <2>7 DEF Sorted, r
<1> QED
  BY <1>5, <1>7, <1>8 DEF PInv

\* The other steps of the workers do not touch the requests pool.
LEMMA WorkerKeeps ==
  ASSUME PInv, NEW w \in Workers, WorkerStep(w)
  PROVE  PInv'
<1>1. Shapes
  BY DEF PInv
<1>2. CASE Top(w) \/ Lock(w) \/ Wait(w) \/ Wake(w) \/ Execute(w) \/ Exit(w)
           \/ QueryAborts(w) \/ LBCheck(w)
  <2>1. UNCHANGED <<queue, pending, cmd, ppc, added, queries, logs>>
    BY <1>2 DEF Top, Lock, Wait, Wake, Execute, Exit, QueryAborts, LBCheck,
              producers
  <2>2. /\ wpc' \in [Workers -> {"top", "lock", "test", "waiting", "woken", "exec",
                                 "lbcheck", "lbadd", "finish", "ended"}]
        /\ \A v \in Workers : Busy(v)' => Busy(v)
    BY <1>1, <1>2 DEF Top, Lock, Wait, Wake, Execute, Exit, QueryAborts, LBCheck,
                   Shapes, Busy
  <2>3. Shapes'
    BY <1>1, <2>1, <2>2 DEF Shapes
  <2> QED
    BY <2>1, <2>2, <2>3, QuietKeeps DEF Workers
<1>3. CASE LBAdd(w)
  <2> DEFINE c == <<"log", logs + 1>>  pc == [wpc EXCEPT ![w] = "finish"]
  <2>1. /\ c \in AnyCommand /\ "lblog" \in Pools
        /\ pc \in [Workers -> {"top", "lock", "test", "waiting", "woken", "exec",
                               "lbcheck", "lbadd", "finish", "ended"}]
    BY <1>1 DEF Shapes, AnyCommand, Pools
  <2>2. /\ wpc[w] = "lbadd" /\ AddRequest("lblog", c, pc) /\ logs' = logs + 1
        /\ UNCHANGED <<pending, cmd, ppc, added, queries>>
    BY <1>3 DEF LBAdd, producers
  <2> HIDE DEF c
  <2>3. \A v \in Workers : pc[v] \in {"exec", "lbcheck", "lbadd", "finish"} => Busy(v)
    BY <1>1, <2>2 DEF Shapes, Busy
  <2> HIDE DEF pc
  <2>4. /\ queue' \in [Pools -> Seq(AnyCommand)]
        /\ queue' = [queue EXCEPT !["lblog"] = Append(queue["lblog"], c)]
        /\ wpc' \in [Workers -> {"top", "lock", "test", "waiting", "woken", "exec",
                                 "lbcheck", "lbadd", "finish", "ended"}]
        /\ \A v \in Workers : Busy(v)' => wpc'[v] = pc[v]
    BY <2>1, <2>2, <1>1, AddFacts
  <2>5. Shapes'
    BY <1>1, <2>2, <2>4 DEF Shapes
  <2>6. queue'["requests"] = queue["requests"]
    BY <2>4, <1>1 DEF Shapes, Pools
  <2>7. \A v \in Workers : Busy(v)' => Busy(v)
    BY <2>3, <2>4 DEF Busy
  <2> QED
    BY <2>2, <2>5, <2>6, <2>7, QuietKeeps DEF Workers
<1> QED
  BY <1>2, <1>3, TakeKeeps, FinishKeeps DEF WorkerStep

\* Neither do the poller, the renewer and the shutdown.
LEMMA OthersKeep ==
  ASSUME PInv, ProducerStep \/ MemoryLimit \/ MainStop \/ UNCHANGED vars
  PROVE  PInv'
<1>1. Shapes
  BY DEF PInv
<1>2. wpc \in [Workers -> {"top", "lock", "test", "waiting", "woken", "exec",
                           "lbcheck", "lbadd", "finish", "ended"}]
  BY <1>1 DEF Shapes
<1>3. CASE Poll \/ RenewAdd
  <2>1. PICK p \in {"commands", "lblog"}, c \in AnyCommand : AddRequest(p, c, wpc)
    <3>1. CASE Poll
      <4>1. <<"query", queries + 1>> \in AnyCommand
        BY <1>1 DEF Shapes, AnyCommand
      <4>2. AddRequest("commands", <<"query", queries + 1>>, wpc)
        BY <3>1 DEF Poll
      <4> QED
        BY <4>1, <4>2, Zenon
    <3>2. CASE RenewAdd
      <4>1. <<"log", logs + 1>> \in AnyCommand
        BY <1>1 DEF Shapes, AnyCommand
      <4>2. AddRequest("lblog", <<"log", logs + 1>>, wpc)
        BY <3>2 DEF RenewAdd
      <4> QED
        BY <4>1, <4>2, Zenon
    <3> QED
      BY <1>3, <3>1, <3>2
  <2>2. UNCHANGED <<pending, cmd, added>>
    BY <1>3 DEF Poll, RenewAdd
  <2>3. /\ queue' \in [Pools -> Seq(AnyCommand)]
        /\ queue' = [queue EXCEPT ![p] = Append(queue[p], c)]
        /\ wpc' \in [Workers -> {"top", "lock", "test", "waiting", "woken", "exec",
                                 "lbcheck", "lbadd", "finish", "ended"}]
        /\ \A v \in Workers : Busy(v)' => wpc'[v] = wpc[v]
    BY <2>1, <1>1, <1>2, AddFacts DEF Pools
  <2>4. ppc' \in [Producers -> {"top", "loop", "queued", "lbcheck", "lbadd", "ended"}]
        /\ queries' \in Nat /\ logs' \in Nat
    BY <1>1, <1>3 DEF Poll, RenewAdd, Shapes, Producers
  <2>5. Shapes'
    BY <1>1, <2>2, <2>3, <2>4 DEF Shapes
  <2>6. queue'["requests"] = queue["requests"]
    BY <2>3, <1>1 DEF Shapes, Pools
  <2>7. \A v \in Workers : Busy(v)' => Busy(v)
    BY <2>3 DEF Busy
  <2> QED
    BY <2>2, <2>5, <2>6, <2>7, QuietKeeps DEF Workers
<1>4. CASE \/ PollDone \/ Renew \/ RenewCheck
           \/ \E t \in Producers : ProducerEnds(t) \/ Iterate(t) \/ IterationEnds(t)
  <2>1. UNCHANGED <<queue, pending, wpc, cmd, added, queries, logs>>
    BY <1>4 DEF PollDone, Renew, RenewCheck, ProducerEnds, Iterate, IterationEnds
  <2>2. ppc' \in [Producers -> {"top", "loop", "queued", "lbcheck", "lbadd", "ended"}]
    BY <1>1, <1>4 DEF PollDone, Renew, RenewCheck, ProducerEnds, Iterate, IterationEnds, Shapes
  <2>3. Shapes'
    BY <1>1, <2>1, <2>2 DEF Shapes
  <2> QED
    BY <2>1, <2>3, QuietKeeps DEF Busy
<1>5. CASE MemoryLimit \/ UNCHANGED vars
         \/ (\E k \in 1 .. Len(StopSteps) : StopFlag(k) \/ StopJoin(k))
  <2>1. UNCHANGED <<queue, pending, wpc, cmd, ppc, added, queries, logs>>
    BY <1>5 DEF MemoryLimit, StopFlag, StopJoin, vars, producers
  <2>2. Shapes'
    BY <1>1, <2>1 DEF Shapes
  <2> QED
    BY <2>1, <2>2, QuietKeeps DEF Busy
<1>6. CASE \E k \in 1 .. Len(StopSteps) : StopNotify(k)
  <2>1. PICK k \in 1 .. Len(StopSteps) : StopNotify(k)
    BY <1>6
  <2>2. wpc' = Notified(StopSteps[k], wpc)
        /\ UNCHANGED <<queue, pending, cmd, ppc, added, queries, logs>>
    BY <2>1 DEF StopNotify, producers
  <2>3. /\ wpc' \in [Workers -> {"top", "lock", "test", "waiting", "woken", "exec",
                                 "lbcheck", "lbadd", "finish", "ended"}]
        /\ \A v \in Workers : wpc'[v] # wpc[v] => wpc'[v] = "woken"
    BY <2>2, <1>2, NotifiedFacts
  <2>4. Shapes'
    BY <1>1, <2>2, <2>3 DEF Shapes
  <2>5. \A v \in Workers : Busy(v)' => Busy(v)
    BY <2>3 DEF Busy
  <2> QED
    BY <2>2, <2>4, <2>5, QuietKeeps DEF Workers
<1> QED
  BY <1>3, <1>4, <1>5, <1>6 DEF ProducerStep, GoesOn, MainStop

\* So does every step.
LEMMA NextKeeps ==
  ASSUME PInv, [Next]_vars
  PROVE  PInv'
BY WorkerKeeps, NewRequestKeeps, OthersKeep DEF Next

\* The invariant of the requests pool.
LEMMA PoolInvariant == Spec => []PInv
<1>1. PInv /\ [Next]_vars => PInv'
  BY NextKeeps
<1> QED
  BY InitPInv, <1>1, PTL DEF Spec

(***************************************************************************)
(* Whatever the pool sizes and the requests, two workers never execute     *)
(* commands of the same job at the same time (m_pending_jobs works).       *)
(***************************************************************************)
THEOREM JobExclusion == Spec => []OnePerJob
<1>1. PInv => OnePerJob
  BY DEF PInv
<1> QED
  BY <1>1, PoolInvariant, PTL

\* Only Take starts the execution of a command.
LEMMA OnlyTakeStarts ==
  ASSUME PInv, Next, NEW w \in RequestWorkers, wpc[w] = "test", wpc'[w] = "exec"
  PROVE  Take(w)
<1>1. /\ w \in Workers
      /\ wpc \in [Workers -> {"top", "lock", "test", "waiting", "woken", "exec",
                               "lbcheck", "lbadd", "finish", "ended"}]
  BY DEF PInv, Shapes, Workers
<1>2. \A q : wpc' # Notified(q, wpc)
  BY <1>1, NotifiedFacts
<1>3. \A q, c : ~ AddRequest(q, c, wpc)
  BY <1>2 DEF AddRequest
<1>4. wpc' # wpc
  OBVIOUS
<1>5. \E v \in Workers : WorkerStep(v)
  BY <1>2, <1>3, <1>4 DEF Next, ProducerStep, GoesOn, Poll, PollDone, Renew,
     RenewCheck, RenewAdd, ProducerEnds, Iterate, IterationEnds, NewRequest, MemoryLimit, MainStop, StopFlag,
     StopNotify, StopJoin
<1>6. PICK v \in Workers : WorkerStep(v)
  BY <1>5
<1>7. CASE v # w
  <2>1. \A x : wpc' # [wpc EXCEPT ![v] = x]
    BY <1>1, <1>7
  <2>2. \A q, x : x \in {"finish", "top"} => wpc' # Notified(q, [wpc EXCEPT ![v] = x])
    <3> SUFFICES ASSUME NEW q, NEW x \in {"finish", "top"},
                        wpc' = Notified(q, [wpc EXCEPT ![v] = x])
                 PROVE  FALSE
      OBVIOUS
    <3> DEFINE pc == [wpc EXCEPT ![v] = x]
    <3>1. /\ pc \in [Workers -> {"top", "lock", "test", "waiting", "woken", "exec",
                                  "lbcheck", "lbadd", "finish", "ended"}]
          /\ pc[w] = "test"
          /\ wpc' = Notified(q, pc)
      BY <1>1, <1>7
    <3> HIDE DEF pc
    <3> QED
      BY <3>1, <1>1, NotifiedFacts
  <2> QED
    BY <1>4, <1>6, <2>1, <2>2 DEF WorkerStep, Top, Lock, Wait, Wake, Take, Execute,
       Exit, QueryAborts, LBCheck, LBAdd, AddRequest, Finish
<1>8. CASE v = w
  BY <1>1, <1>4, <1>6, <1>8 DEF WorkerStep, Top, Lock, Wait, Wake, Execute, Exit, QueryAborts,
     LBCheck, LBAdd, Finish
<1> QED
  BY <1>7, <1>8

(***************************************************************************)
(* The commands of a job start in the order in which they were queued,     *)
(* although get_first_request() lets those of other jobs overtake them.    *)
(***************************************************************************)
THEOREM OrderPerJob == Spec => JobOrder
<1> DEFINE Starts == \A w \in RequestWorkers : wpc[w] = "test" /\ wpc'[w] = "exec" =>
              \A i \in 1 .. Len(queue'["requests"]) :
                IdOf(queue'["requests"][i]) = IdOf(cmd'[w])
                  => queue'["requests"][i][2] > cmd'[w][2]
<1>1. PInv /\ [Next]_vars => [Starts]_vars
  <2> SUFFICES ASSUME PInv, Next, NEW w \in RequestWorkers, wpc[w] = "test",
                      wpc'[w] = "exec", NEW j \in 1 .. Len(queue'["requests"]),
                      IdOf(queue'["requests"][j]) = IdOf(cmd'[w])
               PROVE  queue'["requests"][j][2] > cmd'[w][2]
    OBVIOUS
  <2> DEFINE q == queue["requests"]  r == queue'["requests"]
  <2>1. Take(w) /\ PoolOf(w) = "requests" /\ w \in Workers
    BY OnlyTakeStarts DEF PoolOf, Workers
  <2>2. PICK i \in 1 .. Len(q) :
          /\ IsFirst("requests", i)
          /\ cmd' = [cmd EXCEPT ![w] = q[i]]
          /\ queue' = [queue EXCEPT !["requests"] = Without(@, i)]
    BY <2>1 DEF Take
  <2>3. q \in Seq(AnyCommand) /\ cmd'[w] = q[i] /\ r = Without(q, i)
    BY <2>1, <2>2 DEF PInv, Shapes, Pools
  <2>4. /\ \A k \in 1 .. i - 1 : IdOf(q[k]) # IdOf(q[i])
        /\ \A k \in 1 .. Len(q) : \A n \in 1 .. k - 1 : q[n][2] < q[k][2]
    BY <2>2 DEF IsFirst, PInv, Sorted
  <2>5. IdOf(r[j]) = IdOf(q[i])
    BY <2>3 DEF IdOf
  <2> HIDE DEF q, r
  <2>6. Len(r) = Len(q) - 1 /\ r[j] = (IF j < i THEN q[j] ELSE q[j + 1]) /\ Len(q) \in Nat
    BY <2>3, WithoutFacts DEF r
  <2>7. ~ (j < i) /\ j + 1 \in 1 .. Len(q) /\ i \in 1 .. (j + 1) - 1
    BY <2>4, <2>5, <2>6 DEF r
  <2>8. q[i][2] < q[j + 1][2]
    BY <2>4, <2>7
  <2>9. q[i] \in AnyCommand /\ q[j + 1] \in AnyCommand
    BY <2>3, <2>7
  <2> QED
    BY <2>3, <2>6, <2>7, <2>8, <2>9 DEF r, AnyCommand
<1> QED
  BY <1>1, PoolInvariant, PTL DEF Spec, JobOrder

-----------------------------------------------------------------------------
(* The shutdown                                                            *)

\* What the main thread has joined has ended, and it has stopped nothing
\* that comes later in the shutdown.
Joined ==
  /\ mpc[1] \in 0 .. 5
  /\ mpc[1] >= 2 => ppc["poller"] = "ended"
  /\ mpc[1] >= 3 => ppc["renewer"] = "ended"
  /\ mpc[1] >= 5 => \A w \in CommandWorkers : wpc[w] = "ended"
  /\ CommandWorkers \cap stopped # {} => mpc[1] >= 4
  /\ LBWorkers \cap stopped # {} => mpc[1] >= 5

\* A thread that has ended stays so.
LEMMA EndedIsStable ==
  ASSUME PInv, [Next]_vars
  PROVE  /\ \A w \in Workers : wpc[w] = "ended" => wpc'[w] = "ended"
         /\ \A t \in Producers : ppc[t] = "ended" => ppc'[t] = "ended"
<1>1. /\ wpc \in [Workers -> {"top", "lock", "test", "waiting", "woken", "exec",
                               "lbcheck", "lbadd", "finish", "ended"}]
      /\ ppc \in [Producers -> {"top", "loop", "queued", "lbcheck", "lbadd", "ended"}]
  BY DEF PInv, Shapes
<1>2. ASSUME NEW w \in Workers, wpc[w] = "ended" PROVE wpc'[w] = "ended"
  <2>1. \A q : wpc' = Notified(q, wpc) => wpc'[w] = "ended"
    BY <1>1, <1>2, NotifiedFacts
  <2>2. ASSUME NEW v \in Workers, WorkerStep(v) PROVE wpc'[w] = "ended"
    <3>1. v # w
      BY <1>2, <2>2 DEF WorkerStep, Top, Lock, Wait, Wake, Take, Execute, Exit,
         QueryAborts, LBCheck, LBAdd, Finish
    <3>2. \A x : wpc' = [wpc EXCEPT ![v] = x] => wpc'[w] = "ended"
      BY <1>1, <1>2, <3>1
    <3>3. ASSUME NEW q, NEW x \in {"finish", "top"},
                 wpc' = Notified(q, [wpc EXCEPT ![v] = x])
          PROVE  wpc'[w] = "ended"
      <4> DEFINE pc == [wpc EXCEPT ![v] = x]
      <4>1. /\ pc \in [Workers -> {"top", "lock", "test", "waiting", "woken", "exec",
                                    "lbcheck", "lbadd", "finish", "ended"}]
            /\ pc[w] = "ended"
            /\ wpc' = Notified(q, pc)
        BY <1>1, <1>2, <3>1, <3>3
      <4> HIDE DEF pc
      <4> QED
        BY <4>1, NotifiedFacts
    <3> QED
      BY <1>2, <2>2, <3>2, <3>3 DEF WorkerStep, Top, Lock, Wait, Wake, Take, Execute, Exit,
         QueryAborts, LBCheck, LBAdd, AddRequest, Finish
  <2> QED
    BY <1>2, <2>1, <2>2 DEF Next, vars, ProducerStep, GoesOn, Poll, PollDone,
       Renew, RenewCheck, RenewAdd, AddRequest, ProducerEnds, Iterate, IterationEnds, NewRequest, MemoryLimit,
       MainStop, StopFlag, StopNotify, StopJoin
<1>3. ASSUME NEW t \in Producers, ppc[t] = "ended" PROVE ppc'[t] = "ended"
  <2>1. CASE ProducerStep
    BY <1>1, <1>3, <2>1 DEF ProducerStep, GoesOn, Poll, PollDone, Renew,
       RenewCheck, RenewAdd, ProducerEnds, Iterate, IterationEnds
  <2>2. CASE ~ ProducerStep
    <3>1. ppc' = ppc
      BY <2>2 DEF Next, vars, producers, WorkerStep, Top, Lock, Wait, Wake, Take,
         Execute, Exit, QueryAborts, LBCheck, LBAdd, Finish, NewRequest, MemoryLimit,
         MainStop, StopFlag, StopNotify, StopJoin
    <3> QED
      BY <3>1, <1>3
  <2> QED
    BY <2>1, <2>2
<1> QED
  BY <1>2, <1>3

\* Every step keeps it.
LEMMA JoinedKeeps ==
  ASSUME PInv, Joined, [Next]_vars
  PROVE  Joined'
<1>1. /\ \A w \in CommandWorkers : wpc[w] = "ended" => wpc'[w] = "ended"
      /\ ppc["poller"] = "ended" => ppc'["poller"] = "ended"
      /\ ppc["renewer"] = "ended" => ppc'["renewer"] = "ended"
  BY EndedIsStable DEF Workers, Producers
<1>2. CASE MemoryLimit
  BY <1>1, <1>2 DEF Joined, MemoryLimit
<1>3. ASSUME NEW k \in 1 .. Len(StopSteps), StopFlag(k) PROVE Joined'
  <2>1. /\ k \in 1 .. 5
        /\ CommandWorkers \cap ThreadsOf(StopSteps[k]) # {} => k = 4
        /\ LBWorkers \cap ThreadsOf(StopSteps[k]) # {} => k = 5
    BY PoolsAssumption DEF StopSteps, ThreadsOf, WorkersOf, Producers, Workers
  <2>2. mpc[1] = k /\ mpc'[1] = k /\ stopped' = stopped \cup ThreadsOf(StopSteps[k])
    BY <1>3 DEF StopFlag
  <2> QED
    BY <1>1, <2>1, <2>2 DEF Joined
<1>4. ASSUME NEW k \in 1 .. Len(StopSteps), StopJoin(k) PROVE Joined'
  <2>1. /\ k \in 1 .. 5 /\ mpc[1] = k /\ mpc'[1] \in {k, k + 1} /\ mpc'[1] <= 5
        /\ stopped' = stopped /\ UNCHANGED <<wpc, ppc>>
    BY <1>4 DEF StopJoin, StopSteps, producers
  <2>2. /\ k = 1 => ppc["poller"] = "ended"
        /\ k = 2 => ppc["renewer"] = "ended"
        /\ k = 4 => \A w \in CommandWorkers : wpc[w] = "ended"
    BY <1>4, PoolsAssumption
       DEF StopJoin, StopSteps, ThreadsOf, WorkersOf, Ended, Producers, Workers
  <2> QED
    BY <2>1, <2>2 DEF Joined
<1>5. ASSUME NEW k \in 1 .. Len(StopSteps), StopNotify(k) PROVE Joined'
  BY <1>1, <1>5 DEF Joined, StopNotify
<1>6. CASE UNCHANGED <<mpc, stopped>>
  BY <1>1, <1>6 DEF Joined
<1>7. ASSUME NEW w \in Workers, Exit(w) PROVE Joined'
  BY <1>1, <1>7 DEF Joined, Exit
<1>8. CASE ~ MemoryLimit /\ ~ MainStop /\ ~ \E w \in Workers : Exit(w)
  <2>1. UNCHANGED <<mpc, stopped>>
    BY <1>8 DEF Next, vars, WorkerStep, Top, Lock, Wait, Wake, Take, Execute,
       QueryAborts, LBCheck, LBAdd, Finish, ProducerStep, GoesOn, Poll, PollDone,
       Renew, RenewCheck, RenewAdd, ProducerEnds, Iterate, IterationEnds, NewRequest
  <2> QED
    BY <2>1, <1>6
<1> QED
  BY <1>2, <1>3, <1>4, <1>5, <1>7, <1>8 DEF MainStop

(***************************************************************************)
(* The order in which IceCore stops its threads is right for every number  *)
(* of workers: nobody is left waiting for a queue whose pool was stopped.  *)
(***************************************************************************)
THEOREM ShutdownOrder == Spec => []NobodyWaitsForStopped
<1>1. Init => Joined
  BY DEF Init, Joined
<1>2. PInv /\ Joined /\ [Next]_vars => Joined'
  BY JoinedKeeps
<1>3. Joined => NobodyWaitsForStopped
  BY DEF Joined, NobodyWaitsForStopped
<1> QED
  BY <1>1, <1>2, <1>3, PoolInvariant, PTL DEF Spec

-----------------------------------------------------------------------------
(* The lblog queue                                                         *)

\* Event queries are queued in the pool of commands only, so that only its
\* workers wait for the lblog queue or add to it.
QueriesApart ==
  /\ \A p \in {"requests", "lblog"} :
       \A i \in 1 .. Len(queue[p]) : queue[p][i][1] # "query"
  /\ \A w \in Workers \ CommandWorkers : wpc[w] = "exec" => cmd[w][1] # "query"
  /\ \A w \in Workers : wpc[w] \in {"lbcheck", "lbadd"} => w \in CommandWorkers

\* The producers that have passed the check of the length and not yet added
Adders == {w \in CommandWorkers : wpc[w] = "lbadd"}

RenewerAdds == IF ppc["renewer"] = "lbadd" THEN 1 ELSE 0

\* What is queued and what is about to be
Room == Len(queue["lblog"]) + Cardinality(Adders) + RenewerAdds
          <= LBLimit + Cardinality(CommandWorkers) + 1

LBInv == QueriesApart /\ Room

\* The numbers that Room adds up
LEMMA RoomTypes ==
  ASSUME Shapes
  PROVE  /\ Len(queue["lblog"]) \in Nat /\ RenewerAdds \in {0, 1} /\ LBLimit \in Nat
         /\ IsFiniteSet(Adders) /\ Cardinality(Adders) \in Nat
         /\ Cardinality(CommandWorkers) \in Nat
         /\ Cardinality(Adders) <= Cardinality(CommandWorkers)
<1>1. Adders \subseteq CommandWorkers
  BY DEF Adders
<1>2. /\ IsFiniteSet(Adders) /\ Cardinality(Adders) \in Nat
      /\ Cardinality(CommandWorkers) \in Nat
      /\ Cardinality(Adders) <= Cardinality(CommandWorkers)
  BY <1>1, FiniteAssumption, FS_Subset, FS_CardinalityType
<1>3. Len(queue["lblog"]) \in Nat /\ RenewerAdds \in {0, 1} /\ LBLimit \in Nat
  BY BoundsAssumption DEF Shapes, Pools, RenewerAdds
<1> QED
  BY <1>2, <1>3

\* A step after which nothing more is queued or about to be queued than before
LEMMA RoomStays ==
  ASSUME Room, Shapes, Shapes',
         Len(queue'["lblog"]) <= Len(queue["lblog"]),
         \A w \in CommandWorkers : wpc'[w] = "lbadd" => wpc[w] = "lbadd",
         ppc'["renewer"] = "lbadd" => ppc["renewer"] = "lbadd"
  PROVE  Room'
<1>1. Adders' \subseteq Adders
  BY DEF Adders
<1>2. /\ Len(queue["lblog"]) \in Nat /\ RenewerAdds \in {0, 1} /\ LBLimit \in Nat
      /\ IsFiniteSet(Adders) /\ Cardinality(Adders) \in Nat
      /\ Cardinality(CommandWorkers) \in Nat
  BY RoomTypes
<1>3. IsFiniteSet(Adders') /\ Cardinality(Adders') \in Nat
      /\ Cardinality(Adders') <= Cardinality(Adders)
  BY <1>1, <1>2, FS_Subset, FS_CardinalityType
<1>4. RenewerAdds' \in {0, 1} /\ RenewerAdds' <= RenewerAdds
  BY DEF RenewerAdds
<1>5. Len(queue'["lblog"]) \in Nat
  BY DEF Shapes, Pools
<1> DEFINE a == Len(queue["lblog"])   b == Cardinality(Adders)
           x == Len(queue'["lblog"])  y == Cardinality(Adders')
           m == LBLimit + Cardinality(CommandWorkers) + 1
           c == RenewerAdds           z == RenewerAdds'
<1>6. /\ a \in Nat /\ b \in Nat /\ x \in Nat /\ y \in Nat /\ m \in Nat
      /\ c \in Nat /\ z \in Nat
      /\ x <= a /\ y <= b /\ z <= c /\ a + b + c <= m
  BY <1>2, <1>3, <1>4, <1>5 DEF Room
<1>7. ASSUME x + y + z <= m PROVE Room'
  BY <1>7 DEF Room
<1> HIDE DEF a, b, x, y, m, c, z
<1>8. x + y + z <= m
  BY <1>6
<1> QED
  BY <1>7, <1>8

\* A producer passes the check: everybody's command still fits.
LEMMA RoomAtCheck ==
  ASSUME Shapes, Shapes', queue' = queue, Len(queue["lblog"]) <= LBLimit
  PROVE  Room'
<1>1. /\ RenewerAdds' \in {0, 1} /\ Cardinality(Adders') \in Nat
      /\ Cardinality(Adders') <= Cardinality(CommandWorkers)
      /\ Cardinality(CommandWorkers) \in Nat
  <2>1. Adders' \subseteq CommandWorkers
    BY DEF Adders
  <2> QED
    BY <2>1, FiniteAssumption, FS_Subset, FS_CardinalityType DEF RenewerAdds
<1>2. Len(queue["lblog"]) \in Nat /\ LBLimit \in Nat
  BY RoomTypes
<1> QED
  BY <1>1, <1>2 DEF Room

\* A step that moves workers, but none to where queries are executed
LEMMA ApartStays ==
  ASSUME QueriesApart, Shapes,
         queue'["requests"] = queue["requests"], queue'["lblog"] = queue["lblog"],
         \A w \in Workers : wpc'[w] = "exec" => wpc[w] = "exec" /\ cmd'[w] = cmd[w],
         \A w \in Workers : wpc'[w] \in {"lbcheck", "lbadd"} =>
            wpc[w] \in {"lbcheck", "lbadd"} \/ w \in CommandWorkers
  PROVE  QueriesApart'
BY DEF QueriesApart

\* Every step of a worker keeps it: Take.
LEMMA TakeFits ==
  ASSUME PInv, LBInv, PInv', NEW w \in Workers, Take(w)
  PROVE  LBInv'
<1> DEFINE p == PoolOf(w)
<1>1. /\ p \in Pools /\ (p \in {"requests", "lblog"} <=> w \notin CommandWorkers)
  BY PoolsAssumption DEF PoolOf, Pools, Workers
<1>2. PICK i \in 1 .. Len(queue[p]) :
        /\ cmd' = [cmd EXCEPT ![w] = queue[p][i]]
        /\ queue' = [queue EXCEPT ![p] = Without(@, i)]
  BY DEF Take
<1>3. wpc' = [wpc EXCEPT ![w] = "exec"] /\ ppc' = ppc
  BY DEF Take, producers
<1>4. Shapes /\ Shapes'
  BY DEF PInv
<1>5. queue[p] \in Seq(AnyCommand)
  BY <1>1, <1>4 DEF Shapes
<1> HIDE DEF p
<1>6. /\ Len(queue[p]) \in Nat
      /\ Len(Without(queue[p], i)) = Len(queue[p]) - 1
      /\ \A k \in 1 .. Len(queue[p]) - 1 :
           Without(queue[p], i)[k] = IF k < i THEN queue[p][k] ELSE queue[p][k + 1]
  BY <1>5, WithoutFacts, LenProperties
<1>7. /\ queue'[p] = Without(queue[p], i)
      /\ \A q \in Pools \ {p} : queue'[q] = queue[q]
      /\ cmd'[w] = queue[p][i]
      /\ \A v \in Workers \ {w} : cmd'[v] = cmd[v] /\ wpc'[v] = wpc[v]
      /\ wpc'[w] = "exec"
  BY <1>1, <1>2, <1>3, <1>4 DEF Shapes
<1>8. Len(queue'["lblog"]) <= Len(queue["lblog"])
  <2>1. Len(queue["lblog"]) \in Nat
    BY <1>4, RoomTypes
  <2> QED
    BY <2>1, <1>6, <1>7 DEF Pools
<1>9. Room'
  BY <1>3, <1>4, <1>7, <1>8, RoomStays DEF LBInv, Workers
<1>10. \A q \in {"requests", "lblog"} :
         \A j \in 1 .. Len(queue'[q]) : queue'[q][j][1] # "query"
  <2> SUFFICES ASSUME NEW q \in {"requests", "lblog"}, NEW j \in 1 .. Len(queue'[q])
               PROVE  queue'[q][j][1] # "query"
    OBVIOUS
  <2>1. \A k \in 1 .. Len(queue[q]) : queue[q][k][1] # "query"
    BY DEF LBInv, QueriesApart
  <2>2. CASE q # p
    BY <2>1, <2>2, <1>7 DEF Pools
  <2>3. CASE q = p
    <3> DEFINE k == IF j < i THEN j ELSE j + 1
    <3>1. queue'[q][j] = queue[q][k] /\ k \in 1 .. Len(queue[q])
      BY <2>3, <1>2, <1>6, <1>7
    <3> QED
      BY <3>1, <2>1
  <2> QED
    BY <2>2, <2>3
<1>11. w \notin CommandWorkers => cmd'[w][1] # "query"
  BY <1>1, <1>2, <1>7 DEF LBInv, QueriesApart
<1>12. QueriesApart'
  BY <1>7, <1>10, <1>11 DEF LBInv, QueriesApart
<1> QED
  BY <1>9, <1>12 DEF LBInv

\* An event query adds the command it has made room for.
LEMMA LBAddFits ==
  ASSUME PInv, LBInv, PInv', NEW w \in Workers, LBAdd(w)
  PROVE  LBInv'
<1> DEFINE c == <<"log", logs + 1>>  pc == [wpc EXCEPT ![w] = "finish"]
<1>1. Shapes /\ Shapes'
  BY DEF PInv
<1>2. /\ c \in AnyCommand /\ c[1] # "query" /\ "lblog" \in Pools
      /\ pc \in [Workers -> {"top", "lock", "test", "waiting", "woken", "exec",
                             "lbcheck", "lbadd", "finish", "ended"}]
      /\ pc[w] = "finish" /\ \A v \in Workers \ {w} : pc[v] = wpc[v]
  BY <1>1 DEF Shapes, AnyCommand, Pools
<1>3. /\ wpc[w] = "lbadd" /\ AddRequest("lblog", c, pc)
      /\ UNCHANGED <<cmd, ppc>>
  BY DEF LBAdd, producers
<1> HIDE DEF c, pc
<1>4. /\ queue' = [queue EXCEPT !["lblog"] = Append(queue["lblog"], c)]
      /\ \A v \in Workers : Busy(v)' => wpc'[v] = pc[v]
  BY <1>1, <1>2, <1>3, AddFacts
<1>5. \A v \in Workers : wpc'[v] \in {"exec", "lbcheck", "lbadd"} => wpc[v] = wpc'[v] /\ v # w
  BY <1>2, <1>4 DEF Busy
<1>6. /\ queue'["lblog"] = Append(queue["lblog"], c)
      /\ queue'["requests"] = queue["requests"]
      /\ queue["lblog"] \in Seq(AnyCommand)
  BY <1>1, <1>4 DEF Shapes, Pools
<1>7. w \in CommandWorkers
  BY <1>3 DEF LBInv, QueriesApart
<1>8. Adders' \subseteq Adders \ {w} /\ w \in Adders
  BY <1>3, <1>5, <1>7 DEF Adders, Workers
<1>9. Len(queue'["lblog"]) = Len(queue["lblog"]) + 1
  BY <1>2, <1>6
<1>10. Room'
  <2>1. /\ Len(queue["lblog"]) \in Nat /\ RenewerAdds \in {0, 1} /\ LBLimit \in Nat
        /\ IsFiniteSet(Adders) /\ Cardinality(Adders) \in Nat
        /\ Cardinality(CommandWorkers) \in Nat
    BY <1>1, RoomTypes
  <2>2. /\ IsFiniteSet(Adders \ {w})
        /\ Cardinality(Adders \ {w}) = Cardinality(Adders) - 1
    BY <2>1, <1>8, FS_RemoveElement
  <2>3. /\ Cardinality(Adders') \in Nat
        /\ Cardinality(Adders') <= Cardinality(Adders \ {w})
    BY <2>2, <1>8, FS_Subset, FS_CardinalityType
  <2>4. RenewerAdds' = RenewerAdds
    BY <1>3 DEF RenewerAdds
  <2> QED
    BY <2>1, <2>2, <2>3, <2>4, <1>9 DEF LBInv, Room
<1>11. \A q \in {"requests", "lblog"} :
         \A j \in 1 .. Len(queue'[q]) : queue'[q][j][1] # "query"
  <2>1. \A j \in 1 .. Len(queue["lblog"]) : queue'["lblog"][j] = queue["lblog"][j]
    BY <1>2, <1>6
  <2>2. queue'["lblog"][Len(queue["lblog"]) + 1] = c
    BY <1>2, <1>6
  <2>3. \A j \in 1 .. Len(queue'["lblog"]) :
          j \in 1 .. Len(queue["lblog"]) \/ j = Len(queue["lblog"]) + 1
    BY <1>6, <1>9, LenProperties
  <2> QED
    <3>1. /\ \A j \in 1 .. Len(queue["lblog"]) : queue["lblog"][j][1] # "query"
          /\ \A j \in 1 .. Len(queue["requests"]) : queue["requests"][j][1] # "query"
      BY DEF LBInv, QueriesApart
    <3>2. \A j \in 1 .. Len(queue'["lblog"]) : queue'["lblog"][j][1] # "query"
      BY <3>1, <2>1, <2>2, <2>3, <1>2
    <3> QED
      BY <3>1, <3>2, <1>6
<1>12. QueriesApart'
  BY <1>3, <1>5, <1>11 DEF LBInv, QueriesApart
<1> QED
  BY <1>10, <1>12 DEF LBInv

\* The other steps of a worker add nothing.
LEMMA WorkerFits ==
  ASSUME PInv, LBInv, PInv', NEW w \in Workers, WorkerStep(w)
  PROVE  LBInv'
<1>1. Shapes /\ Shapes'
  BY DEF PInv
<1>2. /\ wpc \in [Workers -> {"top", "lock", "test", "waiting", "woken", "exec",
                               "lbcheck", "lbadd", "finish", "ended"}]
      /\ cmd \in [Workers -> AnyCommand \cup {None}]
      /\ Len(queue["lblog"]) \in Nat
  BY <1>1, RoomTypes DEF Shapes
<1>3. CASE Top(w) \/ Lock(w) \/ Wait(w) \/ Wake(w) \/ Execute(w) \/ Exit(w)
  <2>1. /\ UNCHANGED <<queue, cmd, ppc>>
        /\ \A v \in Workers : wpc'[v] \in {"exec", "lbcheck", "lbadd"} => wpc[v] = wpc'[v]
    BY <1>2, <1>3 DEF Top, Lock, Wait, Wake, Execute, Exit, producers
  <2>2. Room'
    BY <2>1, <1>1, <1>2, RoomStays DEF LBInv, Workers
  <2>3. QueriesApart'
    BY <2>1, <1>1, ApartStays DEF LBInv
  <2> QED
    BY <2>2, <2>3 DEF LBInv
<1>4. CASE QueryAborts(w)
  <2>1. /\ UNCHANGED <<queue, cmd, ppc>> /\ w \in CommandWorkers
        /\ \A v \in Workers : wpc'[v] \in {"exec", "lbadd"} => wpc[v] = wpc'[v]
        /\ \A v \in Workers : wpc'[v] = "lbcheck" => wpc[v] = wpc'[v] \/ v = w
    BY <1>2, <1>4 DEF QueryAborts, producers, LBInv, QueriesApart
  <2>2. Room'
    BY <2>1, <1>1, <1>2, RoomStays DEF LBInv, Workers
  <2>3. QueriesApart'
    BY <2>1, <1>1, ApartStays DEF LBInv
  <2> QED
    BY <2>2, <2>3 DEF LBInv
<1>5. CASE LBCheck(w)
  <2>1. /\ UNCHANGED <<queue, cmd, ppc>> /\ Len(queue["lblog"]) <= LBLimit
        /\ \A v \in Workers : wpc'[v] \in {"exec", "lbcheck"} => wpc[v] = wpc'[v]
        /\ \A v \in Workers : wpc'[v] = "lbadd" => wpc[v] \in {"lbcheck", "lbadd"}
    BY <1>2, <1>5 DEF LBCheck, producers
  <2>2. Room'
    BY <2>1, <1>1, RoomAtCheck
  <2>3. QueriesApart'
    BY <2>1, <1>1, ApartStays DEF LBInv
  <2> QED
    BY <2>2, <2>3 DEF LBInv
<1>6. CASE Finish(w)
  <2> DEFINE pc == [wpc EXCEPT ![w] = "top"]
  <2>1. /\ wpc' = Notified(PoolOf(w), pc) /\ cmd' = [cmd EXCEPT ![w] = None]
        /\ UNCHANGED <<queue, ppc>>
    BY <1>6 DEF Finish, producers
  <2>2. /\ pc \in [Workers -> {"top", "lock", "test", "waiting", "woken", "exec",
                               "lbcheck", "lbadd", "finish", "ended"}]
        /\ pc[w] = "top" /\ \A v \in Workers \ {w} : pc[v] = wpc[v]
    BY <1>2
  <2> HIDE DEF pc
  <2>3. \A v \in Workers : wpc'[v] # pc[v] => wpc'[v] = "woken"
    BY <2>1, <2>2, NotifiedFacts
  <2>4. \A v \in Workers : wpc'[v] \in {"exec", "lbcheck", "lbadd"} =>
          wpc[v] = wpc'[v] /\ cmd'[v] = cmd[v]
    BY <2>1, <2>2, <2>3, <1>2
  <2>5. Room'
    BY <2>1, <2>4, <1>1, <1>2, RoomStays DEF LBInv, Workers
  <2>6. QueriesApart'
    BY <2>1, <2>4, <1>1, ApartStays DEF LBInv
  <2> QED
    BY <2>5, <2>6 DEF LBInv
<1> QED
  BY <1>3, <1>4, <1>5, <1>6, TakeFits, LBAddFits DEF WorkerStep

\* Neither do the poller, the main thread and a check by the renewer; what the
\* renewer adds it has made room for.
LEMMA OthersFit ==
  ASSUME PInv, LBInv, PInv',
         ProducerStep \/ NewRequest \/ MemoryLimit \/ MainStop \/ UNCHANGED vars
  PROVE  LBInv'
<1>1. Shapes /\ Shapes'
  BY DEF PInv
<1>2. /\ wpc \in [Workers -> {"top", "lock", "test", "waiting", "woken", "exec",
                               "lbcheck", "lbadd", "finish", "ended"}]
      /\ ppc \in [Producers -> {"top", "loop", "queued", "lbcheck", "lbadd", "ended"}]
      /\ Len(queue["lblog"]) \in Nat /\ "renewer" \in Producers
      /\ queries \in Nat /\ logs \in Nat /\ added \in Nat
  BY <1>1, RoomTypes DEF Shapes, Producers
<1>3. ASSUME NEW p \in Pools, NEW c \in AnyCommand, AddRequest(p, c, wpc), cmd' = cmd,
             c[1] = "query" => p = "commands"
      PROVE  /\ QueriesApart'
             /\ \A v \in Workers : wpc'[v] \in {"exec", "lbcheck", "lbadd"} => wpc[v] = wpc'[v]
             /\ p # "lblog" => queue'["lblog"] = queue["lblog"]
             /\ Len(queue'["lblog"]) <= Len(queue["lblog"]) + 1
  <2>1. /\ queue' = [queue EXCEPT ![p] = Append(queue[p], c)]
        /\ \A v \in Workers : Busy(v)' => wpc'[v] = wpc[v]
    BY <1>1, <1>2, <1>3, AddFacts
  <2>2. \A v \in Workers : wpc'[v] \in {"exec", "lbcheck", "lbadd"} => wpc[v] = wpc'[v]
    BY <2>1 DEF Busy
  <2>3. /\ queue[p] \in Seq(AnyCommand) /\ queue'[p] = Append(queue[p], c)
        /\ \A q \in Pools \ {p} : queue'[q] = queue[q]
    BY <2>1, <1>1 DEF Shapes
  <2>4. /\ Len(queue'[p]) = Len(queue[p]) + 1 /\ Len(queue[p]) \in Nat
        /\ \A j \in 1 .. Len(queue[p]) : queue'[p][j] = queue[p][j]
        /\ queue'[p][Len(queue[p]) + 1] = c
    BY <2>3
  <2>5. \A j \in 1 .. Len(queue'[p]) : j \in 1 .. Len(queue[p]) \/ j = Len(queue[p]) + 1
    BY <2>4
  <2>6. ASSUME NEW q \in {"requests", "lblog"}, NEW j \in 1 .. Len(queue'[q])
        PROVE  queue'[q][j][1] # "query"
    <3>1. \A k \in 1 .. Len(queue[q]) : queue[q][k][1] # "query"
      BY DEF LBInv, QueriesApart
    <3>2. CASE q = p
      BY <3>1, <3>2, <2>4, <2>5, <1>3
    <3>3. CASE q # p
      BY <3>1, <3>3, <2>3 DEF Pools
    <3> QED
      BY <3>2, <3>3
  <2>7. QueriesApart'
    BY <2>2, <2>6, <1>3 DEF LBInv, QueriesApart
  <2>8. p # "lblog" => queue'["lblog"] = queue["lblog"]
    BY <2>3 DEF Pools
  <2> QED
    BY <2>2, <2>4, <2>7, <2>8, <1>2
<1>4. CASE Poll
  <2>1. <<"query", queries + 1>> \in AnyCommand /\ "commands" \in Pools
    BY <1>2 DEF AnyCommand, Pools
  <2>2. /\ AddRequest("commands", <<"query", queries + 1>>, wpc) /\ cmd' = cmd
        /\ ppc'["renewer"] = ppc["renewer"]
    BY <1>2, <1>4 DEF Poll
  <2>3. /\ QueriesApart' /\ queue'["lblog"] = queue["lblog"]
        /\ \A v \in Workers : wpc'[v] \in {"exec", "lbcheck", "lbadd"} => wpc[v] = wpc'[v]
    BY <2>1, <2>2, <1>3
  <2> QED
    BY <2>2, <2>3, <1>1, <1>2, RoomStays DEF LBInv, Workers
<1>5. CASE NewRequest
  <2>1. <<"request", added + 1>> \in AnyCommand /\ "requests" \in Pools
    BY <1>2 DEF AnyCommand, Pools
  <2>2. AddRequest("requests", <<"request", added + 1>>, wpc) /\ cmd' = cmd /\ ppc' = ppc
    BY <1>5 DEF NewRequest, producers
  <2>3. /\ QueriesApart' /\ queue'["lblog"] = queue["lblog"]
        /\ \A v \in Workers : wpc'[v] \in {"exec", "lbcheck", "lbadd"} => wpc[v] = wpc'[v]
    BY <2>1, <2>2, <1>3
  <2> QED
    BY <2>2, <2>3, <1>1, <1>2, RoomStays DEF LBInv, Workers
<1>6. CASE RenewAdd
  <2>1. <<"log", logs + 1>> \in AnyCommand /\ "lblog" \in Pools
    BY <1>2 DEF AnyCommand, Pools
  <2>2. /\ AddRequest("lblog", <<"log", logs + 1>>, wpc) /\ cmd' = cmd
        /\ ppc["renewer"] = "lbadd" /\ ppc'["renewer"] = "loop"
    BY <1>2, <1>6 DEF RenewAdd
  <2>3. /\ QueriesApart' /\ Len(queue'["lblog"]) <= Len(queue["lblog"]) + 1
        /\ \A v \in Workers : wpc'[v] \in {"exec", "lbcheck", "lbadd"} => wpc[v] = wpc'[v]
    BY <2>1, <2>2, <1>3
  <2>4. RenewerAdds = 1 /\ RenewerAdds' = 0
    BY <2>2 DEF RenewerAdds
  <2>5. /\ LBLimit \in Nat /\ Cardinality(CommandWorkers) \in Nat
        /\ IsFiniteSet(Adders) /\ Cardinality(Adders) \in Nat
    BY <1>1, RoomTypes
  <2>6. Adders' \subseteq Adders
    BY <2>3 DEF Adders, Workers
  <2>7. Cardinality(Adders') \in Nat /\ Cardinality(Adders') <= Cardinality(Adders)
    BY <2>5, <2>6, FS_Subset, FS_CardinalityType
  <2>8. Len(queue'["lblog"]) \in Nat
    BY <1>1 DEF Shapes, Pools
  <2> DEFINE a == Len(queue["lblog"])   b == Cardinality(Adders)
             x == Len(queue'["lblog"])  y == Cardinality(Adders')
             m == LBLimit + Cardinality(CommandWorkers) + 1
             z == RenewerAdds'
  <2>9. /\ a \in Nat /\ b \in Nat /\ x \in Nat /\ y \in Nat /\ m \in Nat /\ z = 0
        /\ x <= a + 1 /\ y <= b /\ a + b + 1 <= m
    BY <2>3, <2>4, <2>5, <2>7, <2>8, <1>2 DEF LBInv, Room
  <2>10. ASSUME x + y + z <= m PROVE Room'
    BY <2>10 DEF Room
  <2> HIDE DEF a, b, x, y, m, z
  <2>11. x + y + z <= m
    BY <2>9
  <2> QED
    BY <2>3, <2>10, <2>11 DEF LBInv
<1>7. CASE RenewCheck
  <2>1. UNCHANGED <<queue, wpc, cmd>> /\ Len(queue["lblog"]) <= LBLimit
    BY <1>7 DEF RenewCheck
  <2> QED
    BY <2>1, <1>1, RoomAtCheck DEF LBInv, QueriesApart
<1>8. CASE \/ PollDone \/ Renew
           \/ \E t \in Producers : ProducerEnds(t) \/ Iterate(t) \/ IterationEnds(t)
  <2>1. UNCHANGED <<queue, wpc, cmd>> /\ (ppc'["renewer"] = "lbadd" => ppc["renewer"] = "lbadd")
    BY <1>2, <1>8 DEF PollDone, Renew, ProducerEnds, Iterate, IterationEnds
  <2> QED
    BY <2>1, <1>1, <1>2, RoomStays DEF LBInv, QueriesApart
<1>9. CASE MemoryLimit \/ UNCHANGED vars
         \/ (\E k \in 1 .. Len(StopSteps) : StopFlag(k) \/ StopJoin(k))
  <2>1. UNCHANGED <<queue, wpc, cmd, ppc>>
    BY <1>9 DEF MemoryLimit, StopFlag, StopJoin, vars, producers
  <2> QED
    BY <2>1, <1>1, <1>2, RoomStays DEF LBInv, QueriesApart
<1>10. CASE \E k \in 1 .. Len(StopSteps) : StopNotify(k)
  <2>1. PICK k \in 1 .. Len(StopSteps) : StopNotify(k)
    BY <1>10
  <2>2. wpc' = Notified(StopSteps[k], wpc) /\ UNCHANGED <<queue, cmd, ppc>>
    BY <2>1 DEF StopNotify, producers
  <2>3. \A v \in Workers : wpc'[v] \in {"exec", "lbcheck", "lbadd"} => wpc[v] = wpc'[v]
    BY <2>2, <1>2, NotifiedFacts
  <2>4. Room'
    BY <2>2, <2>3, <1>1, <1>2, RoomStays DEF LBInv, Workers
  <2>5. QueriesApart'
    BY <2>2, <2>3, <1>1, ApartStays DEF LBInv
  <2> QED
    BY <2>4, <2>5 DEF LBInv
<1> QED
  BY <1>4, <1>5, <1>6, <1>7, <1>8, <1>9, <1>10 DEF ProducerStep, GoesOn, MainStop

(***************************************************************************)
(* The wait for the lblog queue bounds it for every number of workers,     *)
(* although the check of its length and the addition are two steps: the    *)
(* queue and the producers past the check never exceed the limit by more   *)
(* than one command per producer.                                          *)
(***************************************************************************)
THEOREM LBQueueBound == Spec => []LBQueueBounded
<1>1. Init => LBInv
  <2> SUFFICES ASSUME Init PROVE LBInv
    OBVIOUS
  <2>1. Shapes
    BY InitPInv DEF PInv
  <2>2. \A p \in Pools : queue[p] = <<>>
    BY DEF Init
  <2>3. \A w \in Workers : wpc[w] = "top"
    BY DEF Init
  <2>4. QueriesApart
    BY <2>2, <2>3 DEF QueriesApart, Pools
  <2>5. Len(queue["lblog"]) = 0 /\ RenewerAdds = 0
    BY <2>2 DEF Pools, RenewerAdds, Init, Producers
  <2>6. Room
    BY <2>1, <2>5, RoomTypes DEF Room
  <2> QED
    BY <2>4, <2>6 DEF LBInv
<1>2. PInv /\ PInv' /\ LBInv /\ [Next]_vars => LBInv'
  BY WorkerFits, OthersFit DEF Next
<1>3. PInv /\ LBInv => LBQueueBounded
  BY RoomTypes DEF PInv, LBInv, Room, LBQueueBounded
<1> QED
  BY <1>1, <1>2, <1>3, PoolInvariant, PTL DEF Spec
=============================================================================
