---------------------------- MODULE JobDirProofs ----------------------------
(***************************************************************************)
(* The job directory, for any number of writers, requests, crashes of the  *)
(* reader or of the machine, and errors of the reader or the start script. *)
(* Whatever the ids of the writing threads,                                *)
(* a request that shares its file name with no other is not lost           *)
(* (DeliveredIsKept) and not seen in part (FilesAreWhole), and what the    *)
(* reader has listed is there when it takes it (ListingIsFresh).  With ids *)
(* that differ no name is shared, and the directory implements the mailbox *)
(* (ImplementsMailbox).                                                    *)
(***************************************************************************)
EXTENDS JobDir, TLAPS
-----------------------------------------------------------------------------
(* The inductive invariant, whether the ids of the writers differ or not   *)

\* Whatever a step goes by is under the name that its delivery drew: a file in
\* the directories or on the disk, the data in a file, what a writer works on,
\* what the reader has moved or dispatched.
OwnName ==
  \A n \in Names :
    /\ tmp[n] # None => nameOf[tmp[n]] = n
    /\ new[n] # None => nameOf[new[n]] = n
    /\ old[n] # None => nameOf[old[n]] = n
    /\ disk[n].new # None => nameOf[disk[n].new] = n
    /\ disk[n].old # None => nameOf[disk[n].old] = n

DataNamed ==
  \A r \in Requests : data[r] # None => nameOf[r] # NoName /\ nameOf[data[r]] = nameOf[r]

WritersNamed ==
  /\ \A w \in Writers : wpc[w] # "idle" =>
       /\ wreq[w] \in Requests /\ wfd[w] \in Requests /\ wname[w] \in Names
       /\ nameOf[wreq[w]] = wname[w] /\ nameOf[wfd[w]] = wname[w]
  /\ \A v, w \in Writers :
       wpc[v] # "idle" /\ wpc[w] # "idle" /\ wreq[v] = wreq[w] => v = w

ReaderNamed ==
  /\ \A r \in sent \cup served \cup stored : nameOf[r] # NoName
  /\ \A e \in inHand : nameOf[e[2]] = e[1]
  /\ \A n \in result : \E r \in Requests : nameOf[r] = n

\* What the reader has listed is there; a reader that is down knows nothing.
Listing ==
  /\ rpc # "listing" => seen = {}
  /\ rpc = "down" => batch = {} /\ result = {} /\ inHand = {}
  /\ seen \cup batch \subseteq Entries(new)

\* Request r has a name that no other delivery has drawn.
Private(r) == nameOf[r] # NoName /\ Unshared(r)

\* The file of such a request is in one directory at a time, and so it is on the
\* disk: in tmp/ as long as its writer works on it, then in new/ and old/ until
\* it has been served.  A crash of the machine may bring it back from the disk.
Placed(r) ==
  LET n == nameOf[r] IN
  /\ tmp[n] = r => new[n] = None /\ old[n] = None /\ r \notin sent \cup served
  /\ new[n] = r => old[n] = None
  /\ new[n] = r \/ old[n] = r => r \in sent
  /\ r \in served /\ (new[n] = r \/ old[n] = r) => disk[n].new = r \/ disk[n].old = r
  /\ disk[n].new = r => disk[n].old = None
  /\ disk[n].new = r \/ disk[n].old = r => r \in sent
  /\ r \in stored => r \in sent
  /\ \A w \in Writers : wpc[w] # "idle" /\ wreq[w] = r => wfd[w] = r /\ tmp[n] = r

\* It holds the request once that has been written, unless the machine crashed
\* before it reached the disk.  It is not lost before it has been served, unless
\* the machine crashed before its data or its name had reached the disk.
Whole(r) ==
  LET n == nameOf[r] IN
  /\ \A w \in Writers : wpc[w] # "idle" /\ wreq[w] = r =>
       data[r] = IF wpc[w] = "written" THEN r ELSE None
  /\ r \in durable => data[r] = r
  /\ failures = 0 /\ (new[n] = r \/ old[n] = r) => data[r] = r
  /\ r \in sent => \/ r \in served \/ new[n] = r \/ old[n] = r
                   \/ failures > 0 /\ (data[r] = None \/ r \notin stored)
  /\ r \in stored => \/ r \in served \/ disk[n].new = r \/ disk[n].old = r
                     \/ failures > 0 /\ data[r] = None

\* The reader holds it once, and as long as it is in old/.
Held(r) ==
  LET n == nameOf[r] IN
  /\ \A e \in inHand : e[2] = r => old[n] = r
  /\ n \in result => old[n] = r /\ \A e \in inHand : e[2] # r

Safe(r) == Private(r) => Placed(r) /\ Whole(r) /\ Held(r)

IInv ==
  /\ TypeOK /\ OwnName /\ DataNamed /\ WritersNamed /\ ReaderNamed /\ Listing
  /\ \A r \in Requests : Safe(r)

-----------------------------------------------------------------------------
(* The names that deliver() makes, and who has one that is private         *)

LEMMA FileNameFacts ==
  ASSUME TypeOK, NEW w \in Writers
  PROVE  /\ FileName(w) \in Names
         /\ FileName(w)[1] = clock
         /\ FileName(w)[2] = Id[w]
         /\ FileName(w) # NoName
BY IdAssumption, BoundsAssumption DEF TypeOK, FileName, Names, NoName

LEMMA NoNameIsNone == NoName \notin Names
BY BoundsAssumption DEF Names, NoName

\* Nothing but the request itself goes by a private name.
LEMMA PrivateFile ==
  ASSUME IInv, NEW r \in Requests, Private(r)
  PROVE  /\ nameOf[r] \in Names
         /\ tmp[nameOf[r]] \in {r, None} /\ new[nameOf[r]] \in {r, None}
         /\ old[nameOf[r]] \in {r, None}
         /\ disk[nameOf[r]].new \in {r, None} /\ disk[nameOf[r]].old \in {r, None}
         /\ \A n \in Names : tmp[n] = r \/ new[n] = r \/ old[n] = r => n = nameOf[r]
         /\ data[r] \in {r, None}
         /\ \A x \in Requests : data[x] = r => x = r
         /\ \A w \in Writers : wpc[w] # "idle" =>
              /\ wreq[w] = r <=> wname[w] = nameOf[r]
              /\ wfd[w] = r <=> wname[w] = nameOf[r]
         /\ \A e \in inHand : e[2] = r <=> e[1] = nameOf[r]
<1> USE NoneIsNoRequest, NoNameIsNone
<1>1. /\ TypeOK /\ OwnName /\ DataNamed /\ WritersNamed /\ ReaderNamed
      /\ nameOf[r] \in Names
      /\ \A q \in Requests : nameOf[q] = nameOf[r] => q = r
  BY DEF IInv, Private, Unshared, TypeOK
<1>2. /\ \A n \in Names : tmp[n] \in Requests \cup {None} /\ new[n] \in Requests \cup {None}
                          /\ old[n] \in Requests \cup {None}
                          /\ disk[n].new \in Requests \cup {None}
                          /\ disk[n].old \in Requests \cup {None}
      /\ \A x \in Requests : data[x] \in Requests \cup {None}
      /\ \A e \in inHand : e[1] \in Names /\ e[2] \in Requests
  BY <1>1 DEF TypeOK
<1>3. /\ tmp[nameOf[r]] \in {r, None} /\ new[nameOf[r]] \in {r, None}
      /\ old[nameOf[r]] \in {r, None}
      /\ disk[nameOf[r]].new \in {r, None} /\ disk[nameOf[r]].old \in {r, None}
      /\ \A n \in Names : tmp[n] = r \/ new[n] = r \/ old[n] = r => n = nameOf[r]
  BY <1>1, <1>2 DEF OwnName
<1>4. data[r] \in {r, None} /\ \A x \in Requests : data[x] = r => x = r
  BY <1>1, <1>2 DEF DataNamed
<1>5. \A w \in Writers : wpc[w] # "idle" =>
              /\ wreq[w] = r <=> wname[w] = nameOf[r]
              /\ wfd[w] = r <=> wname[w] = nameOf[r]
  BY <1>1 DEF WritersNamed
<1>6. \A e \in inHand : e[2] = r <=> e[1] = nameOf[r]
  BY <1>1, <1>2 DEF ReaderNamed
<1> QED
  BY <1>1, <1>3, <1>4, <1>5, <1>6

\* The directories start empty.
LEMMA InitIInv == Init => IInv
<1> SUFFICES ASSUME Init PROVE IInv
  OBVIOUS
<1>1. TypeOK
  BY BoundsAssumption, IdAssumption DEF Init, TypeOK, Names, Nowhere
<1>2. OwnName /\ DataNamed /\ WritersNamed /\ ReaderNamed /\ Listing
  BY NoneIsNoRequest DEF Init, OwnName, DataNamed, WritersNamed, ReaderNamed, Listing, Entries, Nowhere
<1>3. \A r \in Requests : ~ Private(r)
  BY DEF Init, Private
<1> QED
  BY <1>1, <1>2, <1>3 DEF IInv, Safe

-----------------------------------------------------------------------------
(* The steps of deliver()                                                  *)

\* deliver() creates its file, or truncates one that an equal id has named.
LEMMA OpenKeeps ==
  ASSUME IInv, NEW w \in Writers, NEW r \in Requests, OpenTmp(w, r)
  PROVE  IInv'
<1> DEFINE n == FileName(w)
           i == IF tmp[n] = None THEN r ELSE tmp[n]
<1> USE NoneIsNoRequest, NoNameIsNone
<1>1. TypeOK /\ OwnName /\ DataNamed /\ WritersNamed /\ ReaderNamed /\ Listing
      /\ \A q \in Requests : Safe(q)
  BY DEF IInv
<1>2. n \in Names /\ n # NoName
  BY <1>1, FileNameFacts
<1>3. /\ i \in Requests
      /\ tmp[n] = None => i = r
      /\ tmp[n] # None => nameOf[i] = n /\ i # r /\ i = tmp[n]
  BY <1>1, <1>2 DEF OwnName, TypeOK, OpenTmp
<1>5. /\ nameOf[r] = NoName /\ wpc[w] = "idle"
      /\ r \notin served /\ r \notin sent /\ r \notin stored
      /\ \A m \in Names : /\ tmp[m] # r /\ new[m] # r /\ old[m] # r
                           /\ disk[m].new # r /\ disk[m].old # r
      /\ data[r] = None /\ \A q \in Requests : data[q] # r
      /\ \A v \in Writers : wpc[v] # "idle" => wreq[v] # r /\ wfd[v] # r
      /\ \A e \in inHand : e[2] # r
  <2>1. nameOf[r] = NoName /\ wpc[w] = "idle"
    BY DEF OpenTmp
  <2>2. r \notin served /\ r \notin sent /\ r \notin stored
    BY <1>1, <2>1 DEF ReaderNamed
  <2>3. \A m \in Names : /\ tmp[m] # r /\ new[m] # r /\ old[m] # r
                         /\ disk[m].new # r /\ disk[m].old # r
    BY <1>1, <2>1 DEF OwnName
  <2>4. data[r] = None /\ \A q \in Requests : data[q] # r
    BY <1>1, <2>1 DEF DataNamed
  <2>5. \A v \in Writers : wpc[v] # "idle" => wreq[v] # r /\ wfd[v] # r
    BY <1>1, <2>1 DEF WritersNamed
  <2>6. \A e \in inHand : e[2] # r
    BY <1>1, <2>1 DEF ReaderNamed, TypeOK
  <2> QED
    BY <2>1, <2>2, <2>3, <2>4, <2>5, <2>6
<1>6. /\ tmp' = [tmp EXCEPT ![n] = i]
      /\ data' = [data EXCEPT ![i] = None]
      /\ durable' = durable \ {i}
      /\ wpc' = [wpc EXCEPT ![w] = "opened"]
      /\ wreq' = [wreq EXCEPT ![w] = r]
      /\ wname' = [wname EXCEPT ![w] = n]
      /\ wfd' = [wfd EXCEPT ![w] = i]
      /\ last' = [last EXCEPT ![w] = clock]
      /\ nameOf' = [nameOf EXCEPT ![r] = n]
      /\ UNCHANGED <<clock, new, old, disk, stored, sent, rpc, seen, batch, result,
                     inHand, served, crashes, failures, faults>>
  BY DEF OpenTmp, reader, bounds
<1> HIDE DEF n, i
<1>7. /\ nameOf'[r] = n
      /\ \A q \in Requests \ {r} : nameOf'[q] = nameOf[q]
      /\ nameOf'[i] = n
  BY <1>1, <1>3, <1>6 DEF TypeOK
<1>8. TypeOK'
  BY <1>1, <1>2, <1>3, <1>6, BoundsAssumption DEF TypeOK
<1>9. OwnName'
  BY <1>1, <1>2, <1>3, <1>5, <1>6, <1>7 DEF TypeOK, OwnName
<1>10. DataNamed'
  BY <1>1, <1>3, <1>5, <1>6, <1>7 DEF TypeOK, DataNamed
<1>11. WritersNamed'
  <2>1. ASSUME NEW v \in Writers, wpc'[v] # "idle"
        PROVE  /\ wreq'[v] \in Requests /\ wfd'[v] \in Requests /\ wname'[v] \in Names
               /\ nameOf'[wreq'[v]] = wname'[v] /\ nameOf'[wfd'[v]] = wname'[v]
               /\ v # w => wpc[v] # "idle" /\ wreq'[v] = wreq[v] /\ wreq[v] # r
               /\ v = w => wreq'[v] = r
    <3>1. CASE v = w
      BY <3>1, <1>1, <1>2, <1>3, <1>6, <1>7 DEF TypeOK
    <3>2. CASE v # w
      <4>1. wpc[v] # "idle" /\ wreq'[v] = wreq[v] /\ wfd'[v] = wfd[v] /\ wname'[v] = wname[v]
        BY <3>2, <2>1, <1>1, <1>6 DEF TypeOK
      <4> QED
        BY <3>2, <4>1, <1>1, <1>5, <1>7 DEF WritersNamed
    <3> QED
      BY <3>1, <3>2
  <2> QED
    BY <2>1, <1>1 DEF WritersNamed
<1>12. ReaderNamed'
  <2>1. \A q \in sent \cup served \cup stored : nameOf'[q] # NoName
    BY <1>1, <1>5, <1>7 DEF ReaderNamed, TypeOK
  <2>2. \A e \in inHand : e[2] \in Requests
    BY <1>1 DEF TypeOK
  <2>3. \A e \in inHand : nameOf'[e[2]] = e[1]
    BY <1>1, <1>5, <1>7, <2>2 DEF ReaderNamed
  <2>4. \A m \in result : m \in Names /\ \E q \in Requests : nameOf'[q] = m
    BY <1>1, <1>5, <1>7 DEF ReaderNamed, TypeOK
  <2> QED
    BY <2>1, <2>3, <2>4, <1>6 DEF ReaderNamed
<1>13. Listing'
  BY <1>1, <1>6 DEF Listing, Entries
<1>14. ASSUME NEW q \in Requests, Private(q)'
       PROVE  Placed(q)' /\ Whole(q)' /\ Held(q)'
  <2>1. CASE q = r
    <3>1. tmp[n] = None /\ new[n] = None /\ old[n] = None /\ i = r
      <4>1. \A x \in Requests \ {r} : nameOf[x] # n
        BY <2>1, <1>14, <1>7 DEF Private, Unshared
      <4> QED
        BY <4>1, <1>1, <1>2, <1>3, <1>5 DEF OwnName, TypeOK
    <3>2. /\ tmp'[n] = r /\ new'[n] = None /\ old'[n] = None /\ data'[r] = None
          /\ wpc'[w] = "opened" /\ wfd'[w] = r
      BY <3>1, <1>1, <1>2, <1>6 DEF TypeOK
    <3>3. \A v \in Writers : wpc'[v] # "idle" /\ wreq'[v] = r => v = w
      BY <1>1, <1>5, <1>6 DEF TypeOK
    <3>4. n \notin result
      BY <2>1, <1>1, <1>2, <1>5, <1>7, <1>14 DEF ReaderNamed, Private, Unshared
    <3>5. r \notin durable' /\ disk'[n].new # r /\ disk'[n].old # r
      BY <3>1, <1>2, <1>5, <1>6
    <3>6. Placed(r)'
      BY <3>2, <3>3, <3>5, <1>5, <1>6, <1>7 DEF Placed
    <3>7. Whole(r)'
      BY <3>2, <3>3, <3>5, <1>5, <1>6, <1>7 DEF Whole
    <3>8. Held(r)'
      BY <3>4, <1>5, <1>6, <1>7 DEF Held
    <3> QED
      BY <2>1, <3>6, <3>7, <3>8
  <2>2. CASE q # r
    <3> DEFINE m == nameOf[q]
    <3>1. Private(q) /\ nameOf'[q] = m /\ m # n
      BY <2>2, <1>5, <1>7, <1>14 DEF Private, Unshared
    <3>2. Placed(q) /\ Whole(q) /\ Held(q) /\ m \in Names /\ i # q
      BY <3>1, <1>1, <1>3, <2>2, PrivateFile DEF Safe
    <3> HIDE DEF m
    <3>3. /\ tmp'[m] = tmp[m] /\ data'[q] = data[q] /\ (q \in durable' <=> q \in durable)
          /\ \A v \in Writers : wpc'[v] # "idle" /\ wreq'[v] = q =>
               /\ wpc[v] # "idle" /\ wreq[v] = q
               /\ wpc'[v] = wpc[v] /\ wfd'[v] = wfd[v]
      BY <2>2, <3>1, <3>2, <1>1, <1>3, <1>6 DEF TypeOK
    <3> QED
      BY <3>1, <3>2, <3>3, <1>6 DEF Placed, Whole, Held, m
  <2> QED
    BY <2>1, <2>2
<1> QED
  BY <1>8, <1>9, <1>10, <1>11, <1>12, <1>13, <1>14 DEF IInv, Safe

\* The contents are written into the writer's file.
LEMMA WriteKeeps ==
  ASSUME IInv, NEW w \in Writers, WriteTmp(w)
  PROVE  IInv'
<1> USE NoneIsNoRequest, NoNameIsNone
<1> DEFINE i == wfd[w]
<1>1. TypeOK /\ OwnName /\ DataNamed /\ WritersNamed /\ ReaderNamed /\ Listing
      /\ \A q \in Requests : Safe(q)
  BY DEF IInv
<1>2. /\ wpc[w] = "opened" /\ i \in Requests /\ wreq[w] \in Requests /\ wname[w] \in Names
      /\ nameOf[wreq[w]] = wname[w] /\ nameOf[i] = wname[w]
  BY <1>1 DEF WriteTmp, WritersNamed
<1>3. PICK c \in {wreq[w]} \cup (IF data[i] = None THEN {} ELSE {None}) :
        data' = [data EXCEPT ![i] = c]
  BY DEF WriteTmp
<1>4. /\ durable' = durable \ {i}
      /\ wpc' = [wpc EXCEPT ![w] = "written"]
      /\ UNCHANGED <<clock, tmp, new, old, disk, stored, wreq, wname, wfd, last,
                     nameOf, sent, rpc, seen, batch, result, inHand, served,
                     crashes, failures, faults>>
  BY DEF WriteTmp, reader, bounds
<1> HIDE DEF i
<1>5. TypeOK'
  BY <1>1, <1>2, <1>3, <1>4, BoundsAssumption DEF TypeOK
<1>6. DataNamed'
  BY <1>1, <1>2, <1>3, <1>4 DEF DataNamed, TypeOK
<1>7. OwnName' /\ ReaderNamed' /\ Listing'
  BY <1>1, <1>4 DEF OwnName, ReaderNamed, Listing, Entries
<1>8. \A v \in Writers : wpc'[v] # "idle" => wpc[v] # "idle" /\ (v # w => wpc'[v] = wpc[v])
  BY <1>1, <1>2, <1>4 DEF TypeOK
<1>9. WritersNamed'
  BY <1>1, <1>4, <1>8 DEF WritersNamed
<1>10. ASSUME NEW q \in Requests, Private(q)'
       PROVE  Placed(q)' /\ Whole(q)' /\ Held(q)'
  <2>1. Private(q) /\ Placed(q) /\ Whole(q) /\ Held(q)
    BY <1>1, <1>4, <1>10 DEF Safe, Private, Unshared
  <2>2. Placed(q)' /\ Held(q)'
    BY <2>1, <1>4, <1>8 DEF Placed, Held
  <2>3. Whole(q)'
    <3>1. CASE wname[w] = nameOf[q]
      <4>1. i = q /\ wreq[w] = q
        BY <3>1, <2>1, <1>2, PrivateFile DEF i
      <4>2. data[q] = None /\ tmp[nameOf[q]] = q /\ q \notin sent /\ q \notin stored
        BY <4>1, <2>1, <1>2 DEF Placed, Whole
      <4>3. data'[q] = q /\ wpc'[w] = "written"
        BY <4>1, <4>2, <1>1, <1>3, <1>4 DEF TypeOK
      <4>4. \A v \in Writers : wpc'[v] # "idle" /\ wreq'[v] = q => v = w
        BY <4>1, <1>1, <1>2, <1>4, <1>8 DEF WritersNamed
      <4> QED
        BY <4>2, <4>3, <4>4, <1>4 DEF Whole
    <3>2. CASE wname[w] # nameOf[q]
      <4>1. i # q /\ wreq[w] # q
        BY <3>2, <2>1, <1>2, PrivateFile DEF i
      <4>2. data'[q] = data[q] /\ (q \in durable' <=> q \in durable)
        BY <4>1, <1>1, <1>3, <1>4 DEF TypeOK
      <4>3. \A v \in Writers : wpc'[v] # "idle" /\ wreq'[v] = q => wpc'[v] = wpc[v]
        BY <4>1, <1>4, <1>8
      <4> QED
        BY <2>1, <4>2, <4>3, <1>4, <1>8 DEF Whole
    <3> QED
      BY <3>1, <3>2
  <2> QED
    BY <2>2, <2>3
<1> QED
  BY <1>5, <1>6, <1>7, <1>9, <1>10 DEF IInv, Safe

\* rename() moves a file into new/.
LEMMA RenameKeeps ==
  ASSUME IInv, NEW w \in Writers, RenameNew(w)
  PROVE  IInv'
<1> USE NoneIsNoRequest, NoNameIsNone
<1> DEFINE n == wname[w]  x == tmp[n]  r == wreq[w]
<1>1. TypeOK /\ OwnName /\ DataNamed /\ WritersNamed /\ ReaderNamed /\ Listing
      /\ \A q \in Requests : Safe(q)
  BY DEF IInv
<1>2. /\ wpc[w] = "written" /\ r \in Requests /\ n \in Names /\ nameOf[r] = n
      /\ x \in Requests /\ nameOf[x] = n
  BY <1>1 DEF RenameNew, WritersNamed, OwnName, TypeOK
<1>3. /\ new' = [new EXCEPT ![n] = x]
      /\ tmp' = [tmp EXCEPT ![n] = None]
      /\ sent' = sent \cup {r}
      /\ wpc' = [wpc EXCEPT ![w] = "idle"]
      /\ wreq' = [wreq EXCEPT ![w] = None]
      /\ wname' = [wname EXCEPT ![w] = NoName]
      /\ wfd' = [wfd EXCEPT ![w] = None]
      /\ UNCHANGED <<clock, old, data, durable, disk, stored, last, nameOf,
                     rpc, seen, batch, result, inHand, served,
                     crashes, failures, faults>>
  BY DEF RenameNew, Done, reader, stable, bounds
<1> HIDE DEF n, x, r
<1>4. TypeOK'
  BY <1>1, <1>2, <1>3, BoundsAssumption DEF TypeOK
<1>5. OwnName'
  BY <1>1, <1>2, <1>3 DEF OwnName, TypeOK
<1>6. DataNamed' /\ ReaderNamed'
  BY <1>1, <1>2, <1>3 DEF DataNamed, ReaderNamed
<1>7. \A v \in Writers : wpc'[v] # "idle" =>
        /\ v # w /\ wpc'[v] = wpc[v]
        /\ wreq'[v] = wreq[v] /\ wname'[v] = wname[v] /\ wfd'[v] = wfd[v]
  BY <1>1, <1>2, <1>3 DEF TypeOK
<1>8. WritersNamed'
  BY <1>1, <1>3, <1>7 DEF WritersNamed
<1>9. Listing'
  BY <1>1, <1>2, <1>3 DEF Listing, Entries, TypeOK
<1>10. ASSUME NEW q \in Requests, Private(q)'
       PROVE  Placed(q)' /\ Whole(q)' /\ Held(q)'
  <2> DEFINE m == nameOf[q]
  <2>1. Private(q) /\ Placed(q) /\ Whole(q) /\ Held(q) /\ m \in Names
    BY <1>1, <1>3, <1>10, PrivateFile DEF Safe, Private, Unshared
  <2>2. CASE n = m
    <3>1. r = q /\ x = q
      BY <2>1, <2>2, <1>2, PrivateFile DEF x, r, n
    <3>2. tmp[m] = q /\ new[m] = None /\ old[m] = None /\ q \notin sent \cup served
          /\ data[q] = q /\ q \notin stored
      BY <3>1, <2>1, <2>2, <1>2 DEF Placed, Whole, x, r
    <3>3. new'[m] = q /\ tmp'[m] = None /\ old'[m] = None
      BY <3>1, <3>2, <2>1, <2>2, <1>1, <1>3 DEF TypeOK
    <3>4. \A v \in Writers : wpc'[v] # "idle" => wreq'[v] # q
      BY <3>1, <1>1, <1>2, <1>3, <1>7 DEF WritersNamed, r
    <3>5. Held(q)'
      BY <3>2, <2>1, <1>3 DEF Held
    <3>6. Placed(q)'
      BY <3>1, <3>2, <3>3, <3>4, <2>1, <1>3 DEF Placed
    <3>7. Whole(q)'
      BY <3>1, <3>2, <3>3, <3>4, <2>1, <1>3 DEF Whole
    <3> QED
      BY <3>5, <3>6, <3>7
  <2>3. CASE n # m
    <3>1. new'[m] = new[m] /\ tmp'[m] = tmp[m] /\ (q \in sent' <=> q \in sent)
      BY <2>1, <2>3, <1>1, <1>2, <1>3 DEF TypeOK
    <3> QED
      BY <3>1, <2>1, <1>3, <1>7 DEF Placed, Whole, Held
  <2> QED
    BY <2>2, <2>3
<1> QED
  BY <1>4, <1>5, <1>6, <1>8, <1>9, <1>10 DEF IInv, Safe

\* A delivery that fails leaves its file in tmp/.
LEMMA DeliverFailsKeeps ==
  ASSUME IInv, NEW w \in Writers, DeliverFails(w)
  PROVE  IInv'
<1>1. /\ wpc' = [wpc EXCEPT ![w] = "idle"]
      /\ wreq' = [wreq EXCEPT ![w] = None]
      /\ wname' = [wname EXCEPT ![w] = NoName]
      /\ wfd' = [wfd EXCEPT ![w] = None]
      /\ UNCHANGED <<clock, tmp, new, old, data, durable, disk, stored, last,
                     nameOf, sent, rpc, seen, batch, result, inHand,
                     served, crashes, failures, faults>>
  BY DEF DeliverFails, Done, cached, stable, reader, bounds
<1>2. \A v \in Writers : wpc'[v] # "idle" =>
        /\ wpc'[v] = wpc[v]
        /\ wreq'[v] = wreq[v] /\ wname'[v] = wname[v] /\ wfd'[v] = wfd[v]
  BY <1>1 DEF IInv, TypeOK
<1>3. TypeOK'
  BY <1>1 DEF IInv, TypeOK
<1>4. OwnName' /\ DataNamed' /\ WritersNamed' /\ ReaderNamed' /\ Listing'
  BY <1>1, <1>2 DEF IInv, OwnName, DataNamed, WritersNamed, ReaderNamed, Listing, Entries
<1>5. ASSUME NEW q \in Requests, Private(q)'
      PROVE  Placed(q)' /\ Whole(q)' /\ Held(q)'
  <2>1. Private(q) /\ Placed(q) /\ Whole(q) /\ Held(q)
    BY <1>1, <1>5 DEF IInv, Safe, Private, Unshared
  <2> QED
    BY <2>1, <1>1, <1>2 DEF Placed, Whole, Held
<1> QED
  BY <1>3, <1>4, <1>5 DEF IInv, Safe

-----------------------------------------------------------------------------
(* The steps of the reader, the kernel and the start script                *)

\* set_old moves an entry of new/ to old/.
LEMMA SetOldKeeps ==
  ASSUME IInv, NEW n \in Names, SetOld(n)
  PROVE  IInv'
<1> USE NoneIsNoRequest, NoNameIsNone
<1> DEFINE x == new[n]
<1>1. TypeOK /\ OwnName /\ DataNamed /\ WritersNamed /\ ReaderNamed /\ Listing
      /\ \A q \in Requests : Safe(q)
  BY DEF IInv
<1>2. x \in Requests /\ nameOf[x] = n
  BY <1>1 DEF SetOld, OwnName, TypeOK
<1>3. /\ old' = [old EXCEPT ![n] = x]
      /\ new' = [new EXCEPT ![n] = None]
      /\ batch' = batch \ {n}
      /\ result' = result \cup {n}
      /\ rpc = "moving"
      /\ UNCHANGED <<clock, tmp, data, durable, disk, stored, wpc, wreq, wname, wfd,
                     last, nameOf, sent, rpc, seen, inHand, served, crashes,
                     failures, faults>>
  BY DEF SetOld, writer, stable, bounds
<1> HIDE DEF x
<1>4. TypeOK'
  BY <1>1, <1>2, <1>3, BoundsAssumption DEF TypeOK
<1>5. OwnName'
  BY <1>1, <1>2, <1>3 DEF OwnName, TypeOK
<1>6. DataNamed' /\ WritersNamed' /\ ReaderNamed'
  BY <1>1, <1>2, <1>3 DEF DataNamed, WritersNamed, ReaderNamed
<1>7. Listing'
  BY <1>1, <1>3 DEF Listing, Entries, TypeOK
<1>8. ASSUME NEW q \in Requests, Private(q)'
      PROVE  Placed(q)' /\ Whole(q)' /\ Held(q)'
  <2> DEFINE m == nameOf[q]
  <2>1. Private(q) /\ Placed(q) /\ Whole(q) /\ Held(q) /\ m \in Names
    BY <1>1, <1>3, <1>8, PrivateFile DEF Safe, Private, Unshared
  <2>2. CASE n = m
    <3>1. x = q /\ new[m] = q /\ old[m] = None
      BY <2>1, <2>2, <1>2, PrivateFile DEF x, Placed
    <3>2. new'[m] = None /\ old'[m] = q /\ q \in sent /\ tmp[m] # q
      BY <3>1, <2>1, <2>2, <1>1, <1>3 DEF TypeOK, Placed
    <3>3. \A e \in inHand : e[2] # q
      BY <3>1, <2>1 DEF Held
    <3> QED
      BY <3>1, <3>2, <3>3, <2>1, <1>3 DEF Placed, Whole, Held
  <2>3. CASE n # m
    <3>1. new'[m] = new[m] /\ old'[m] = old[m] /\ (m \in result' <=> m \in result)
      BY <2>1, <2>3, <1>1, <1>3 DEF TypeOK
    <3> QED
      BY <3>1, <2>1, <1>3 DEF Placed, Whole, Held
  <2> QED
    BY <2>2, <2>3
<1> QED
  BY <1>4, <1>5, <1>6, <1>7, <1>8 DEF IInv, Safe

\* The reader drops what it knows, or part of it, and leaves the files alone: it
\* crashes, it meets an error, it ends read() or dispatches the last item.
LEMMA ForgetKeeps ==
  ASSUME IInv,
         UNCHANGED <<clock, tmp, new, old, data, durable, disk, stored, wpc, wreq,
                     wname, wfd, last, nameOf, sent, served, failures>>,
         rpc' \in {"down", "idle", "moving", "dispatching"}, seen' = {},
         batch' \subseteq batch, result' \subseteq result, inHand' \subseteq inHand,
         rpc' = "down" => batch' = {} /\ result' = {} /\ inHand' = {},
         crashes' \in 0 .. MaxCrashes, faults' \in 0 .. MaxFaults
  PROVE  IInv'
<1>1. TypeOK'
  BY DEF IInv, TypeOK
<1>2. OwnName' /\ DataNamed' /\ WritersNamed' /\ ReaderNamed' /\ Listing'
  BY DEF IInv, OwnName, DataNamed, WritersNamed, ReaderNamed, Listing, Entries
<1>3. ASSUME NEW q \in Requests, Private(q)'
      PROVE  Placed(q)' /\ Whole(q)' /\ Held(q)'
  <2>1. Private(q) /\ Placed(q) /\ Whole(q) /\ Held(q)
    BY <1>3 DEF IInv, Safe, Private, Unshared
  <2> QED
    BY <2>1 DEF Placed, Whole, Held
<1> QED
  BY <1>1, <1>2, <1>3 DEF IInv, Safe

LEMMA ErrorsKeep ==
  ASSUME IInv,
         \/ ReadEnd \/ Again \/ Crash
         \/ \E n \in batch : SetOldFails(n)
         \/ \E n \in result : DispatchFails(n)
  PROVE  IInv'
<1>1. TypeOK /\ (rpc # "listing" => seen = {})
  BY DEF IInv, Listing
<1>2. /\ crashes \in 0 .. MaxCrashes /\ faults \in 0 .. MaxFaults
      /\ crashes < MaxCrashes => crashes + 1 \in 0 .. MaxCrashes
      /\ faults < MaxFaults => faults + 1 \in 0 .. MaxFaults
  BY <1>1, BoundsAssumption DEF TypeOK
<1>3. CASE ReadEnd \/ Again
  <2>1. /\ UNCHANGED <<clock, tmp, new, old, data, durable, disk, stored, wpc, wreq,
                       wname, wfd, last, nameOf, sent, served, failures>>
        /\ rpc' \in {"idle", "dispatching"} /\ seen' = {}
        /\ batch' = batch /\ result' = result /\ inHand' = inHand
        /\ crashes' = crashes /\ faults' = faults
    BY <1>1, <1>3 DEF ReadEnd, Again, cached, stable, writer, bounds
  <2> QED
    BY <2>1, <1>2, ForgetKeeps
<1>4. CASE Crash
  <2>1. /\ UNCHANGED <<clock, tmp, new, old, data, durable, disk, stored, wpc, wreq,
                       wname, wfd, last, nameOf, sent, served, failures>>
        /\ rpc' = "down" /\ seen' = {} /\ batch' = {} /\ result' = {} /\ inHand' = {}
        /\ crashes < MaxCrashes /\ crashes' = crashes + 1 /\ faults' = faults
    BY <1>4 DEF Crash, ReaderGone, cached, stable, writer
  <2> QED
    BY <2>1, <1>2, ForgetKeeps
<1>5. CASE \E n \in batch : SetOldFails(n)
  <2>1. /\ UNCHANGED <<clock, tmp, new, old, data, durable, disk, stored, wpc, wreq,
                       wname, wfd, last, nameOf, sent, served, failures>>
        /\ rpc' = "idle" /\ seen' = {} /\ batch' = {} /\ result' = {} /\ inHand' = inHand
        /\ crashes' = crashes /\ faults < MaxFaults /\ faults' = faults + 1
    BY <1>1, <1>5 DEF SetOldFails, cached, stable, writer
  <2> QED
    BY <2>1, <1>2, ForgetKeeps
<1>6. CASE \E n \in result : DispatchFails(n)
  <2>1. /\ UNCHANGED <<clock, tmp, new, old, data, durable, disk, stored, wpc, wreq,
                       wname, wfd, last, nameOf, sent, served, failures>>
        /\ rpc' = "dispatching" /\ seen' = {}
        /\ batch' = batch /\ result' \subseteq result /\ inHand' = inHand
        /\ crashes' = crashes /\ faults < MaxFaults /\ faults' = faults + 1
    BY <1>1, <1>6 DEF DispatchFails, cached, stable, writer
  <2> QED
    BY <2>1, <1>2, ForgetKeeps
<1> QED
  BY <1>3, <1>4, <1>5, <1>6

\* A file that parses goes to a worker, one that does not is removed.
LEMMA DispatchKeeps ==
  ASSUME IInv, NEW n \in Names, Dispatch(n)
  PROVE  IInv'
<1> USE NoneIsNoRequest, NoNameIsNone
<1> DEFINE x == old[n]  e == <<n, data[x]>>
<1>1. TypeOK /\ OwnName /\ DataNamed /\ WritersNamed /\ ReaderNamed /\ Listing
      /\ \A q \in Requests : Safe(q)
  BY DEF IInv
<1>2. rpc = "dispatching" /\ n \in result /\ seen = {}
  BY <1>1 DEF Dispatch, First, Listing
<1>3. UNCHANGED <<clock, tmp, new, data, durable, disk, stored, wpc, wreq, wname,
                  wfd, last, nameOf, sent, served, crashes, failures, faults>>
  BY DEF Dispatch, ReaderGone, writer, stable, bounds
<1>4. CASE x = None
  BY <1>1, <1>3, <1>4, ForgetKeeps DEF Dispatch, ReaderGone, TypeOK
<1>5. CASE x # None /\ data[x] # None
  <2>1. x \in Requests /\ nameOf[x] = n /\ data[x] \in Requests /\ nameOf[data[x]] = n
        /\ e \in Names \X Requests
    BY <1>1, <1>5 DEF OwnName, DataNamed, TypeOK
  <2>2. /\ result' = result \ {n} /\ inHand' = inHand \cup {e}
        /\ UNCHANGED <<old, rpc, seen, batch>>
    BY <1>5 DEF Dispatch
  <2>3. e[1] = n /\ e[2] = data[x]
    OBVIOUS
  <2> HIDE DEF x, e
  <2>4. TypeOK'
    BY <1>1, <1>3, <2>1, <2>2, BoundsAssumption DEF TypeOK
  <2>5. OwnName' /\ DataNamed' /\ WritersNamed' /\ ReaderNamed' /\ Listing'
    BY <1>1, <1>2, <1>3, <2>1, <2>2, <2>3
       DEF OwnName, DataNamed, WritersNamed, ReaderNamed, Listing, Entries
  <2>6. ASSUME NEW q \in Requests, Private(q)'
        PROVE  Placed(q)' /\ Whole(q)' /\ Held(q)'
    <3>1. Private(q) /\ Placed(q) /\ Whole(q) /\ Held(q) /\ nameOf[q] \in Names
      BY <1>1, <1>3, <2>6, PrivateFile DEF Safe, Private, Unshared
    <3>2. Placed(q)' /\ Whole(q)'
      BY <3>1, <1>3, <2>2 DEF Placed, Whole
    <3>3. e[2] = q => n = nameOf[q]
      BY <2>1, <2>3
    <3>4. n = nameOf[q] => old[n] = q
      BY <3>1, <1>2 DEF Held
    <3>5. Held(q)'
      BY <3>1, <3>3, <3>4, <1>3, <2>2 DEF Held
    <3> QED
      BY <3>2, <3>5
  <2> QED
    BY <2>4, <2>5, <2>6 DEF IInv, Safe
<1>6. CASE x # None /\ data[x] = None
  <2>1. /\ result' = result \ {n} /\ old' = [old EXCEPT ![n] = None]
        /\ UNCHANGED <<rpc, seen, batch, inHand>>
    BY <1>6 DEF Dispatch
  <2> HIDE DEF x, e
  <2>3. TypeOK'
    BY <1>1, <1>3, <2>1, BoundsAssumption DEF TypeOK
  <2>4. OwnName' /\ DataNamed' /\ WritersNamed' /\ ReaderNamed' /\ Listing'
    BY <1>1, <1>2, <1>3, <2>1
       DEF OwnName, DataNamed, WritersNamed, ReaderNamed, Listing, Entries, TypeOK
  <2>5. ASSUME NEW q \in Requests, Private(q)'
        PROVE  Placed(q)' /\ Whole(q)' /\ Held(q)'
    <3> DEFINE m == nameOf[q]
    <3>1. Private(q) /\ Placed(q) /\ Whole(q) /\ Held(q) /\ m \in Names
      BY <1>1, <1>3, <2>5, PrivateFile DEF Safe, Private, Unshared
    <3>2. CASE n = m
      <4>1. /\ old[m] = q /\ \A f \in inHand : f[2] # q
            /\ data[q] = None /\ q \in sent /\ failures > 0
        <5>1. old[m] = q /\ \A f \in inHand : f[2] # q
          BY <3>1, <3>2, <1>2 DEF Held
        <5>2. data[q] = None /\ q \in sent
          BY <5>1, <3>1, <3>2, <1>6 DEF x, Placed
        <5>3. failures # 0
          BY <5>1, <5>2, <3>1 DEF Whole
        <5> QED
          BY <5>1, <5>2, <5>3, <1>1, BoundsAssumption DEF TypeOK
      <4>2. old'[m] = None /\ tmp[m] # q /\ new[m] # q
        BY <4>1, <3>1, <3>2, <1>1, <2>1 DEF TypeOK, Placed
      <4>3. m \notin result'
        BY <3>2, <2>1
      <4> QED
        BY <4>1, <4>2, <4>3, <3>1, <1>3, <2>1 DEF Placed, Whole, Held
    <3>3. CASE n # m
      <4>1. old'[m] = old[m] /\ (m \in result' <=> m \in result)
        BY <3>1, <3>3, <1>1, <2>1 DEF TypeOK
      <4> QED
        BY <4>1, <3>1, <1>3, <2>1 DEF Placed, Whole, Held
    <3> QED
      BY <3>2, <3>3
  <2> QED
    BY <2>3, <2>4, <2>5 DEF IInv, Safe
<1> QED
  BY <1>4, <1>5, <1>6

\* The clean-up removes the file the reader moved, or one that has replaced it.
LEMMA CleanupKeeps ==
  ASSUME IInv, NEW e \in inHand, Cleanup(e)
  PROVE  IInv'
<1> USE NoneIsNoRequest, NoNameIsNone
<1>1. TypeOK /\ OwnName /\ DataNamed /\ WritersNamed /\ ReaderNamed /\ Listing
      /\ \A q \in Requests : Safe(q)
  BY DEF IInv
<1>2. e[1] \in Names /\ e[2] \in Requests /\ nameOf[e[2]] = e[1] /\ e = <<e[1], e[2]>>
  BY <1>1 DEF TypeOK, ReaderNamed
<1>3. /\ rpc # "down"
      /\ old' = [old EXCEPT ![e[1]] = None]
      /\ inHand' = inHand \ {e}
      /\ served' = served \cup {e[2]}
      /\ UNCHANGED <<clock, tmp, new, data, durable, disk, stored, wpc, wreq, wname,
                     wfd, last, nameOf, sent, rpc, seen, batch, result, crashes,
                     failures, faults>>
  BY DEF Cleanup, writer, stable, bounds
<1>4. TypeOK'
  BY <1>1, <1>2, <1>3, BoundsAssumption DEF TypeOK
<1>5. OwnName' /\ DataNamed' /\ WritersNamed' /\ ReaderNamed' /\ Listing'
  BY <1>1, <1>2, <1>3
     DEF OwnName, DataNamed, WritersNamed, ReaderNamed, Listing, Entries, TypeOK
<1>6. ASSUME NEW q \in Requests, Private(q)'
      PROVE  Placed(q)' /\ Whole(q)' /\ Held(q)'
  <2> DEFINE m == nameOf[q]
  <2>1. Private(q) /\ Placed(q) /\ Whole(q) /\ Held(q) /\ m \in Names
    BY <1>1, <1>3, <1>6, PrivateFile DEF Safe, Private, Unshared
  <2>2. e[2] = q <=> e[1] = m
    BY <2>1, PrivateFile
  <2>3. CASE e[2] = q
    <3>1. old[m] = q /\ q \in sent /\ new[m] # q /\ tmp[m] # q /\ m \notin result
      BY <2>1, <2>3 DEF Placed, Held
    <3>2. old'[m] = None /\ q \in served'
      BY <2>1, <2>2, <2>3, <1>1, <1>3 DEF TypeOK
    <3>3. \A f \in inHand' : f[2] # q
      <4> SUFFICES ASSUME NEW f \in inHand, f[2] = q PROVE f = e
        BY <3>1, <1>3
      <4>1. f[1] = m /\ f = <<f[1], f[2]>>
        BY <2>1, <1>1, PrivateFile DEF TypeOK
      <4> QED
        BY <4>1, <2>2, <2>3, <1>2
    <3> QED
      BY <3>1, <3>2, <3>3, <2>1, <1>3 DEF Placed, Whole, Held
  <2>4. CASE e[2] # q
    <3>1. old'[m] = old[m] /\ (q \in served' <=> q \in served)
      BY <2>1, <2>2, <2>4, <1>1, <1>3 DEF TypeOK
    <3> QED
      BY <3>1, <2>1, <1>3 DEF Placed, Whole, Held
  <2> QED
    BY <2>3, <2>4
<1> QED
  BY <1>4, <1>5, <1>6 DEF IInv, Safe

\* The start script moves files of old/ back.
LEMMA RestartKeeps ==
  ASSUME IInv, Restart
  PROVE  IInv'
<1> USE NoneIsNoRequest, NoNameIsNone
<1>1. TypeOK /\ OwnName /\ DataNamed /\ WritersNamed /\ ReaderNamed /\ Listing
      /\ \A q \in Requests : Safe(q)
  BY DEF IInv
<1>2. PICK S \in SUBSET Entries(old) :
        /\ new' = [n \in Names |-> IF n \in S THEN old[n] ELSE new[n]]
        /\ old' = [n \in Names |-> IF n \in S THEN None ELSE old[n]]
        /\ faults' \in 0 .. MaxFaults
  <2>1. \A f \in 0 .. MaxFaults : f < MaxFaults => f + 1 \in 0 .. MaxFaults
    BY BoundsAssumption
  <2>2. faults \in 0 .. MaxFaults
    BY <1>1 DEF TypeOK
  <2> QED
    BY <2>1, <2>2 DEF Restart
<1>3. /\ rpc = "down" /\ rpc' = "idle"
      /\ UNCHANGED <<clock, tmp, data, durable, disk, stored, wpc, wreq, wname, wfd,
                     last, nameOf, sent, seen, batch, result, inHand, served, crashes,
                     failures>>
  BY DEF Restart, writer, stable
<1>4. TypeOK'
  BY <1>1, <1>2, <1>3, BoundsAssumption DEF TypeOK, Entries
<1>5. OwnName'
  BY <1>1, <1>2, <1>3 DEF OwnName, Entries
<1>6. DataNamed' /\ WritersNamed' /\ ReaderNamed'
  BY <1>1, <1>3 DEF DataNamed, WritersNamed, ReaderNamed
<1>7. Listing'
  BY <1>1, <1>2, <1>3 DEF Listing, Entries
<1>8. ASSUME NEW q \in Requests, Private(q)'
      PROVE  Placed(q)' /\ Whole(q)' /\ Held(q)'
  <2> DEFINE m == nameOf[q]
  <2>1. Private(q) /\ Placed(q) /\ Whole(q) /\ Held(q) /\ m \in Names
        /\ old[m] \in {q, None}
    BY <1>1, <1>3, <1>8, PrivateFile DEF Safe, Private, Unshared
  <2>2. \/ new'[m] = new[m] /\ old'[m] = old[m]
        \/ old[m] = q /\ new'[m] = q /\ old'[m] = None
    BY <2>1, <1>2 DEF Entries
  <2>3. result = {} /\ inHand = {}
    BY <1>1, <1>3 DEF Listing
  <2> QED
    BY <2>1, <2>2, <2>3, <1>3 DEF Placed, Whole, Held
<1> QED
  BY <1>4, <1>5, <1>6, <1>7, <1>8 DEF IInv, Safe

\* Time passes.
LEMMA TickKeeps ==
  ASSUME IInv, Tick
  PROVE  IInv'
<1>1. /\ clock' \in 1 .. MaxClock
      /\ UNCHANGED <<tmp, new, old, data, durable, disk, stored, wpc, wreq, wname,
                     wfd, last, nameOf, sent, rpc, seen, batch, result, inHand,
                     served, crashes, failures, faults>>
  BY BoundsAssumption DEF Tick, cached, stable, writer, reader, bounds, IInv, TypeOK
<1>2. TypeOK'
  BY <1>1 DEF IInv, TypeOK
<1>3. OwnName' /\ DataNamed' /\ WritersNamed' /\ ReaderNamed' /\ Listing'
  BY <1>1 DEF IInv, OwnName, DataNamed, WritersNamed, ReaderNamed, Listing, Entries
<1>4. ASSUME NEW q \in Requests PROVE Safe(q)'
  BY <1>1 DEF IInv, Safe, Private, Unshared, Placed, Whole, Held
<1> QED
  BY <1>2, <1>3, <1>4 DEF IInv

\* readdir returns entries of new/.
LEMMA ListKeeps ==
  ASSUME IInv, ListBegin \/ ListEnd
  PROVE  IInv'
<1>1. UNCHANGED <<clock, tmp, new, old, data, durable, disk, stored, wpc, wreq,
                  wname, wfd, last, nameOf, sent, result, inHand, served, crashes,
                  failures, faults>>
  BY DEF ListBegin, ListEnd, cached, stable, writer, bounds
<1>2. /\ rpc # "down"
      /\ rpc' \in {"listing", "moving"} /\ seen' \cup batch' \subseteq Entries(new)
      /\ rpc' = "moving" => seen' = {}
  BY DEF ListBegin, ListEnd, IInv, Listing
<1>3. TypeOK'
  BY <1>1, <1>2 DEF IInv, TypeOK, Entries
<1>4. OwnName' /\ DataNamed' /\ WritersNamed' /\ ReaderNamed' /\ Listing'
  BY <1>1, <1>2 DEF IInv, OwnName, DataNamed, WritersNamed, ReaderNamed, Listing, Entries
<1>5. ASSUME NEW q \in Requests PROVE Safe(q)'
  BY <1>1, <1>2 DEF IInv, Safe, Private, Unshared, Placed, Whole, Held
<1> QED
  BY <1>3, <1>4, <1>5 DEF IInv

\* The kernel writes a file back.
LEMMA WritebackKeeps ==
  ASSUME IInv, NEW i \in Requests, Writeback(i)
  PROVE  IInv'
<1>1. /\ data[i] # None /\ durable' = durable \cup {i}
      /\ UNCHANGED <<clock, tmp, new, old, data, disk, stored, wpc, wreq, wname, wfd,
                     last, nameOf, sent, rpc, seen, batch, result, inHand, served,
                     crashes, failures, faults>>
  BY DEF Writeback, cached, writer, reader, bounds
<1>2. TypeOK'
  BY <1>1 DEF IInv, TypeOK
<1>3. OwnName' /\ DataNamed' /\ WritersNamed' /\ ReaderNamed' /\ Listing'
  BY <1>1 DEF IInv, OwnName, DataNamed, WritersNamed, ReaderNamed, Listing, Entries
<1>4. ASSUME NEW q \in Requests, Private(q)'
      PROVE  Placed(q)' /\ Whole(q)' /\ Held(q)'
  <2>1. Private(q) /\ Placed(q) /\ Whole(q) /\ Held(q)
    BY <1>1, <1>4 DEF IInv, Safe, Private, Unshared
  <2>2. i = q => data[q] = q
    BY <2>1, <1>1, PrivateFile
  <2> QED
    BY <2>1, <2>2, <1>1 DEF Placed, Whole, Held
<1> QED
  BY <1>2, <1>3, <1>4 DEF IInv, Safe

\* The kernel writes the entries of a name to the disk.
LEMMA SyncKeeps ==
  ASSUME IInv, NEW n \in Names, SyncName(n)
  PROVE  IInv'
<1> USE NoneIsNoRequest, NoNameIsNone
<1> DEFINE entries == [new |-> new[n], old |-> old[n]]
<1>1. TypeOK /\ OwnName /\ DataNamed /\ WritersNamed /\ ReaderNamed /\ Listing
      /\ \A q \in Requests : Safe(q)
  BY DEF IInv
<1>2. /\ disk' = [disk EXCEPT ![n] = entries]
      /\ stored' = stored \cup ({new[n], old[n]} \ {None})
      /\ UNCHANGED <<clock, tmp, new, old, data, durable, wpc, wreq, wname, wfd,
                     last, nameOf, sent, rpc, seen, batch, result, inHand, served,
                     crashes, failures, faults>>
  BY DEF SyncName, cached, writer, reader, bounds
<1>3. /\ entries.new = new[n] /\ entries.old = old[n]
      /\ entries \in [new : Requests \cup {None}, old : Requests \cup {None}]
  BY <1>1 DEF TypeOK
<1> HIDE DEF entries
<1>4. /\ disk'[n] = entries
      /\ \A m \in Names : m # n => disk'[m] = disk[m]
  BY <1>1, <1>2 DEF TypeOK
<1>5. TypeOK'
  <2>1. new[n] \in Requests \cup {None} /\ old[n] \in Requests \cup {None}
    BY <1>1 DEF TypeOK
  <2>2. stored' \subseteq Requests
    BY <1>1, <1>2, <2>1 DEF TypeOK
  <2>3. disk' \in [Names -> [new : Requests \cup {None}, old : Requests \cup {None}]]
    BY <1>1, <1>2, <1>3 DEF TypeOK
  <2> QED
    BY <1>1, <1>2, <2>2, <2>3 DEF TypeOK
<1>6. OwnName'
  BY <1>1, <1>2, <1>3, <1>4 DEF OwnName
<1>7. DataNamed' /\ WritersNamed' /\ Listing'
  BY <1>1, <1>2 DEF DataNamed, WritersNamed, Listing, Entries
<1>8. ReaderNamed'
  BY <1>1, <1>2 DEF ReaderNamed, OwnName
<1>9. ASSUME NEW q \in Requests, Private(q)'
      PROVE  Placed(q)' /\ Whole(q)' /\ Held(q)'
  <2> DEFINE m == nameOf[q]
  <2>1. Private(q) /\ Placed(q) /\ Whole(q) /\ Held(q) /\ m \in Names
        /\ new[m] \in {q, None} /\ old[m] \in {q, None}
    BY <1>1, <1>2, <1>9, PrivateFile DEF Safe, Private, Unshared
  <2>2. CASE n = m
    <3>1. disk'[m].new = new[m] /\ disk'[m].old = old[m]
      BY <2>2, <1>3, <1>4
    <3>2. q \in stored' <=> q \in stored \/ new[m] = q \/ old[m] = q
      BY <2>2, <1>2
    <3> QED
      BY <3>1, <3>2, <2>1, <1>2 DEF Placed, Whole, Held
  <2>3. CASE n # m
    <3>1. disk'[m] = disk[m]
      BY <2>1, <2>3, <1>4
    <3>2. q \in stored' <=> q \in stored
      BY <2>1, <2>3, <1>1, <1>2 DEF OwnName
    <3> QED
      BY <3>1, <3>2, <2>1, <1>2 DEF Placed, Whole, Held
  <2> QED
    BY <2>2, <2>3
<1> QED
  BY <1>5, <1>6, <1>7, <1>8, <1>9 DEF IInv, Safe

\* The machine goes down.
LEMMA PowerFailureKeeps ==
  ASSUME IInv, PowerFailure
  PROVE  IInv'
<1> USE NoneIsNoRequest, NoNameIsNone
<1>1. /\ failures' = failures + 1 /\ failures' \in 0 .. MaxPowerFailures
      /\ tmp' = [n \in Names |-> None]
      /\ new' = [n \in Names |-> disk[n].new]
      /\ old' = [n \in Names |-> disk[n].old]
      /\ data' = [i \in Requests |-> IF i \in durable THEN data[i] ELSE None]
      /\ wpc' = [w \in Writers |-> "idle"]
      /\ wreq' = [w \in Writers |-> None]
      /\ wname' = [w \in Writers |-> NoName]
      /\ wfd' = [w \in Writers |-> None]
      /\ rpc' = "down" /\ seen' = {} /\ batch' = {}
      /\ result' = {} /\ inHand' = {}
      /\ UNCHANGED <<clock, durable, disk, stored, last, nameOf, sent, served,
                     crashes, faults>>
  BY BoundsAssumption DEF PowerFailure, ReaderGone, stable, IInv, TypeOK
<1>2. TypeOK'
  <2>1. \A n \in Names : disk[n].new \in Requests \cup {None} /\ disk[n].old \in Requests \cup {None}
    BY DEF IInv, TypeOK
  <2> QED
    BY <1>1, <2>1 DEF IInv, TypeOK
<1>3. OwnName' /\ DataNamed' /\ WritersNamed' /\ ReaderNamed' /\ Listing'
  BY <1>1 DEF IInv, OwnName, DataNamed, WritersNamed, ReaderNamed, Listing, Entries, TypeOK
<1>4. ASSUME NEW q \in Requests, Private(q)'
      PROVE  Placed(q)' /\ Whole(q)' /\ Held(q)'
  <2>1. Private(q) /\ Placed(q) /\ Whole(q) /\ Held(q)
    BY <1>1, <1>4 DEF IInv, Safe, Private, Unshared
  <2>2. /\ q \in durable => data'[q] = q
        /\ data[q] = None \/ q \notin durable => data'[q] = None
    BY <2>1, <1>1 DEF Whole
  <2>3. failures' > 0
    BY <1>1, BoundsAssumption DEF IInv, TypeOK
  <2>4. nameOf[q] \in Names
    BY <2>1, PrivateFile
  <2>5. /\ tmp'[nameOf[q]] = None
        /\ new'[nameOf[q]] = disk[nameOf[q]].new /\ old'[nameOf[q]] = disk[nameOf[q]].old
    BY <2>4, <1>1
  <2>6. \A w \in Writers : wpc'[w] = "idle"
    BY <1>1
  <2>7. Placed(q)'
    BY <2>1, <2>5, <2>6, <1>1 DEF Placed
  <2>8. Whole(q)'
    BY <2>1, <2>2, <2>3, <2>5, <2>6, <1>1 DEF Whole
  <2>9. Held(q)'
    BY <1>1 DEF Held
  <2> QED
    BY <2>7, <2>8, <2>9
<1> QED
  BY <1>2, <1>3, <1>4 DEF IInv, Safe

\* Every step keeps the invariant.
LEMMA NextKeeps ==
  ASSUME IInv, [Next]_vars
  PROVE  IInv'
<1>1. CASE Tick
  BY <1>1, TickKeeps
<1>2. CASE Deliver
  BY <1>2, OpenKeeps, WriteKeeps, RenameKeeps, DeliverFailsKeeps DEF Deliver
<1>3. CASE Read
  <2>1. \A n \in batch \cup result : n \in Names
    BY DEF IInv, TypeOK
  <2> QED
    BY <1>3, <2>1, ListKeeps, SetOldKeeps, ErrorsKeep, DispatchKeeps DEF Read
<1>4. CASE \E e \in inHand : Cleanup(e)
  BY <1>4, CleanupKeeps
<1>5. CASE Crash \/ Fault
  BY <1>5, ErrorsKeep DEF Fault
<1>6. CASE Restart
  BY <1>6, RestartKeeps
<1>7. CASE \E r \in Requests : Writeback(r)
  BY <1>7, WritebackKeeps
<1>8. CASE PowerFailure
  BY <1>8, PowerFailureKeeps
<1>10. CASE \E n \in Names : SyncName(n)
  BY <1>10, SyncKeeps
<1>9. CASE UNCHANGED vars
  <2> USE <1>9 DEF vars
  <2>1. TypeOK' /\ OwnName' /\ DataNamed' /\ WritersNamed' /\ ReaderNamed' /\ Listing'
    BY DEF IInv, TypeOK, OwnName, DataNamed, WritersNamed, ReaderNamed, Listing, Entries
  <2>2. ASSUME NEW q \in Requests PROVE Safe(q)'
    BY DEF IInv, Safe, Private, Unshared, Placed, Whole, Held
  <2> QED
    BY <2>1, <2>2 DEF IInv
<1> QED
  BY <1>1, <1>2, <1>3, <1>4, <1>5, <1>6, <1>7, <1>8, <1>9, <1>10 DEF Next

\* The invariant holds in every reachable state, whatever the ids are.
THEOREM Invariance == Spec => []IInv
<1>1. IInv /\ [Next]_vars => IInv'
  BY NextKeeps
<1> QED
  BY InitIInv, <1>1, PTL DEF Spec

(***************************************************************************)
(* No delivered request is lost that shares its name with no other: it has *)
(* been served, or its file is in new/ or old/ with its data, through      *)
(* every crash of the reader, every error that unwinds read(), Dispatch or *)
(* the mv of the start script, and every restart; and through every crash  *)
(* of the machine if its data and its entry were on the disk before.       *)
(***************************************************************************)
THEOREM DeliveredIsKept == Spec => []NoLoss
<1>1. ASSUME IInv, NEW r \in sent, Unshared(r), failures = 0 \/ r \in durable \cap stored
      PROVE  r \in served \/ Kept(r)
  <2>1. r \in Requests /\ nameOf[r] # NoName
    BY <1>1 DEF IInv, TypeOK, ReaderNamed
  <2>2. Private(r) /\ Whole(r) /\ nameOf[r] \in Names
    BY <1>1, <2>1, PrivateFile DEF IInv, Safe, Private
  <2>3. r \in served \/ new[nameOf[r]] = r \/ old[nameOf[r]] = r
    BY <1>1, <2>1, <2>2, NoneIsNoRequest DEF Whole
  <2>4. new[nameOf[r]] = r \/ old[nameOf[r]] = r => data[r] = r
    BY <1>1, <2>2 DEF Whole
  <2> QED
    BY <2>1, <2>2, <2>3, <2>4, NoneIsNoRequest DEF Kept
<1>2. IInv => NoLoss
  BY <1>1 DEF NoLoss
<1> QED
  BY <1>2, Invariance, PTL

(***************************************************************************)
(* Nor does the reader ever see a partial file of such a request while the *)
(* machine stays up: a file gets into new/ by rename, when its data are    *)
(* complete.                                                               *)
(***************************************************************************)
THEOREM FilesAreWhole == Spec => []NeverPartial
<1>1. ASSUME IInv, failures = 0, NEW n \in Names, new[n] # None, Unshared(new[n])
      PROVE  data[new[n]] = new[n]
  <2>1. new[n] \in Requests /\ nameOf[new[n]] = n
    BY <1>1 DEF IInv, TypeOK, OwnName
  <2>2. Private(new[n])
    BY <1>1, <2>1, NoNameIsNone DEF Private
  <2> QED
    BY <1>1, <2>1, <2>2 DEF IInv, Safe, Whole
<1>2. IInv => NeverPartial
  BY <1>1 DEF NeverPartial
<1> QED
  BY <1>2, Invariance, PTL

(***************************************************************************)
(* And the reader's listing of new/ is never stale: between the listing    *)
(* and the moves to old/ nobody takes a listed file away, so the rename in *)
(* set_old() does not fail for want of a file.                             *)
(***************************************************************************)
THEOREM ListingIsFresh == Spec => []ListedStillThere
<1>1. IInv => ListedStillThere
  BY DEF IInv, Listing, ListedStillThere
<1> QED
  BY <1>1, Invariance, PTL

-----------------------------------------------------------------------------
(* With ids that differ no name is shared                                  *)

\* Stamps do not run ahead of the clock, and name their writer.
Stamps ==
  /\ \A w \in Writers : last[w] <= clock
  /\ \A r \in Requests : nameOf[r] # NoName =>
       \E w \in Writers : nameOf[r][2] = Id[w] /\ nameOf[r][1] <= last[w]

\* No two deliveries drew the same name.
NamesDiffer ==
  \A q, r \in Requests : nameOf[q] = nameOf[r] /\ nameOf[r] # NoName => q = r

\* A new name differs from every name given before.
LEMMA FileNameFresh ==
  ASSUME TypeOK, Stamps, IdInjective, NEW w \in Writers, last[w] < clock
  PROVE  \A r \in Requests : nameOf[r] # FileName(w)
<1> SUFFICES ASSUME NEW r \in Requests, nameOf[r] = FileName(w) PROVE FALSE
  OBVIOUS
<1>1. nameOf[r] # NoName /\ nameOf[r][1] = clock /\ nameOf[r][2] = Id[w]
  BY FileNameFacts
<1>2. PICK v \in Writers : Id[w] = Id[v] /\ clock <= last[v]
  BY <1>1 DEF Stamps
<1>3. v = w
  BY <1>2 DEF IdInjective
<1>4. clock \in Nat /\ last[w] \in Nat
  BY BoundsAssumption DEF TypeOK
<1> QED
  BY <1>2, <1>3, <1>4

\* Only the beginning of a delivery draws a stamp.
LEMMA StampSteps ==
  ASSUME IInv, [Next]_vars
  PROVE  \/ \E w \in Writers, r \in Requests : OpenTmp(w, r)
         \/ last' = last /\ nameOf' = nameOf /\ clock' \in {clock, clock + 1}
BY DEF Next, Tick, Deliver, WriteTmp, RenameNew, DeliverFails, Read, ListBegin, ListEnd,
       SetOld, ReadEnd, Dispatch, Again, Fault, SetOldFails, DispatchFails, Cleanup,
       Crash, Restart, Writeback, SyncName, PowerFailure, writer, vars

LEMMA NamesStayDifferent ==
  ASSUME IInv, Stamps, NamesDiffer, IdInjective, [Next]_vars
  PROVE  Stamps' /\ NamesDiffer'
<1>1. TypeOK /\ clock \in Nat /\ last \in [Writers -> Nat]
      /\ \A q \in Requests : nameOf[q] # NoName => nameOf[q][1] \in Nat
  BY BoundsAssumption DEF IInv, TypeOK, Names
<1>2. CASE last' = last /\ nameOf' = nameOf /\ clock' \in {clock, clock + 1}
  BY <1>1, <1>2 DEF Stamps, NamesDiffer
<1>3. ASSUME NEW w \in Writers, NEW r \in Requests, OpenTmp(w, r)
      PROVE  Stamps' /\ NamesDiffer'
  <2> DEFINE n == FileName(w)
  <2>1. n[1] = clock /\ n[2] = Id[w] /\ n # NoName /\ last[w] < clock
        /\ last' = [last EXCEPT ![w] = clock] /\ nameOf' = [nameOf EXCEPT ![r] = n]
        /\ clock' = clock
    BY <1>1, <1>3, FileNameFacts DEF OpenTmp
  <2>2. \A q \in Requests : nameOf[q] # n
    BY <1>1, <2>1, FileNameFresh
  <2> HIDE DEF n
  <2>3. NamesDiffer'
    BY <1>1, <2>1, <2>2 DEF NamesDiffer, TypeOK
  <2>4. \A v \in Writers : last[v] <= last'[v] /\ last'[v] <= clock' /\ last'[v] \in Nat
    BY <1>1, <2>1 DEF Stamps
  <2>5. ASSUME NEW q \in Requests, nameOf'[q] # NoName
        PROVE  \E v \in Writers : nameOf'[q][2] = Id[v] /\ nameOf'[q][1] <= last'[v]
    <3>1. CASE q = r
      BY <3>1, <1>1, <2>1 DEF TypeOK
    <3>2. CASE q # r
      <4>1. nameOf'[q] = nameOf[q]
        BY <3>2, <1>1, <2>1 DEF TypeOK
      <4>2. PICK v \in Writers : nameOf[q][2] = Id[v] /\ nameOf[q][1] <= last[v]
        BY <4>1, <2>5 DEF Stamps
      <4> QED
        BY <4>1, <4>2, <1>1, <2>4, <2>5
    <3> QED
      BY <3>1, <3>2
  <2> QED
    BY <2>3, <2>4, <2>5 DEF Stamps
<1> QED
  BY <1>2, <1>3, StampSteps

\* Then every delivery's file is private.
DistinctInv == IInv /\ Stamps /\ NamesDiffer

LEMMA AllPrivate ==
  ASSUME DistinctInv, NEW r \in Requests, nameOf[r] # NoName
  PROVE  Private(r) /\ Placed(r) /\ Whole(r) /\ Held(r)
<1>1. Private(r)
  BY DEF DistinctInv, NamesDiffer, Private, Unshared
<1> QED
  BY <1>1 DEF DistinctInv, IInv, Safe

LEMMA Inductive ==
  ASSUME IdInjective
  PROVE  Spec => []DistinctInv
<1>1. Init => Stamps /\ NamesDiffer
  BY BoundsAssumption DEF Init, Stamps, NamesDiffer
<1>2. DistinctInv /\ [Next]_vars => DistinctInv'
  BY NextKeeps, NamesStayDifferent DEF DistinctInv
<1> QED
  BY <1>1, <1>2, InitIInv, PTL DEF Spec, DistinctInv

-----------------------------------------------------------------------------
(* Every step is a step of the mailbox                                     *)

\* A file is in new/ or old/ under the name of its delivery only.
LEMMA WhereItIs ==
  ASSUME DistinctInv, NEW r \in Requests
  PROVE  /\ \A n \in Names : new[n] = r \/ old[n] = r => n = nameOf[r]
         /\ InDir(new, r) => ~ InDir(old, r)
         /\ InDir(new, r) \/ InDir(old, r) => r \in sent
<1> USE NoneIsNoRequest, NoNameIsNone
<1>1. \A n \in Names : new[n] = r \/ old[n] = r => n = nameOf[r]
  BY DEF DistinctInv, IInv, OwnName
<1>2. InDir(new, r) \/ InDir(old, r) => nameOf[r] # NoName
  BY <1>1 DEF InDir
<1> QED
  BY <1>1, <1>2, AllPrivate DEF Placed, InDir

\* The mailbox sees new/, old/, served and sent only.
LEMMA MailStutters ==
  ASSUME UNCHANGED <<new, old, served, sent>>
  PROVE  UNCHANGED mailStatus
BY DEF mailStatus, InDir

\* rename() into new/ sends.
LEMMA RenameSends ==
  ASSUME DistinctInv, NEW w \in Writers, RenameNew(w)
  PROVE  Mail!Send(wreq[w])
<1> USE NoneIsNoRequest
<1> DEFINE r == wreq[w]  n == wname[w]
<1>1. wpc[w] # "idle" /\ n \in Names /\ r \in Requests /\ nameOf[r] = n
  BY DEF DistinctInv, IInv, WritersNamed, RenameNew
<1>2. tmp[n] = r /\ new[n] = None /\ old[n] = None /\ r \notin served \cup sent
  BY <1>1, AllPrivate, NoNameIsNone DEF Placed
<1>3. ~ InDir(new, r) /\ ~ InDir(old, r)
  BY <1>1, <1>2, WhereItIs DEF InDir
<1>4. new' = [new EXCEPT ![n] = r] /\ sent' = sent \cup {r} /\ UNCHANGED <<old, served>>
  BY <1>2 DEF RenameNew, reader
<1>5. new \in [Names -> Requests \cup {None}]
  BY DEF DistinctInv, IInv, TypeOK
<1> HIDE DEF r, n
<1>6. \A q \in Requests : InDir(new', q) <=> InDir(new, q) \/ q = r
  BY <1>1, <1>2, <1>4, <1>5 DEF InDir
<1>7. mailStatus[r] = "unsent"
  BY <1>1, <1>2, <1>3 DEF mailStatus
<1>8. mailStatus' = [mailStatus EXCEPT ![r] = "pending"]
  <2>1. \A q \in Requests : mailStatus'[q] = IF q = r THEN "pending" ELSE mailStatus[q]
    BY <1>2, <1>4, <1>6 DEF mailStatus, InDir
  <2> QED
    BY <2>1, <1>1 DEF mailStatus
<1> QED
  BY <1>7, <1>8 DEF Mail!Send, r

\* set_old takes.
LEMMA SetOldTakes ==
  ASSUME DistinctInv, NEW n \in Names, SetOld(n)
  PROVE  Mail!Take(new[n])
<1> USE NoneIsNoRequest
<1> DEFINE r == new[n]
<1>11. r \in Requests /\ nameOf[r] = n
  BY DEF DistinctInv, IInv, TypeOK, OwnName, SetOld
<1>1. r \in Requests /\ nameOf[r] = n /\ old[n] = None
  BY <1>11, AllPrivate, NoNameIsNone DEF Placed
<1>2. InDir(new, r) /\ ~ InDir(old, r)
  BY <1>1, WhereItIs DEF InDir
<1>3. /\ new' = [new EXCEPT ![n] = None]
      /\ old' = [old EXCEPT ![n] = r]
      /\ served' = served /\ sent' = sent
  BY DEF SetOld, writer
<1>4. new \in [Names -> Requests \cup {None}] /\ old \in [Names -> Requests \cup {None}]
  BY DEF DistinctInv, IInv, TypeOK
<1>5. \A m \in Names : new[m] = r => m = n
  BY <1>1, WhereItIs
<1>6. new[n] = r
  OBVIOUS
<1> HIDE DEF r
<1>7. \A q \in Requests : InDir(new', q) <=> InDir(new, q) /\ q # r
  <2>1. \A m \in Names : new'[m] = IF m = n THEN None ELSE new[m]
    BY <1>3, <1>4
  <2> QED
    BY <2>1, <1>1, <1>5, <1>6 DEF InDir
<1>8. \A q \in Requests : InDir(old', q) <=> InDir(old, q) \/ q = r
  <2>1. \A m \in Names : old'[m] = IF m = n THEN r ELSE old[m]
    BY <1>3, <1>4
  <2> QED
    BY <2>1, <1>1 DEF InDir
<1>9. mailStatus[r] = "pending"
  BY <1>1, <1>2 DEF mailStatus
<1>10. mailStatus' = [mailStatus EXCEPT ![r] = "taken"]
  <2>1. \A q \in Requests : mailStatus'[q] = IF q = r THEN "taken" ELSE mailStatus[q]
    BY <1>2, <1>3, <1>7, <1>8 DEF mailStatus, InDir
  <2> QED
    BY <2>1, <1>1 DEF mailStatus
<1> QED
  BY <1>9, <1>10 DEF Mail!Take, r

\* The clean-up serves.
LEMMA CleanupServes ==
  ASSUME DistinctInv, NEW e \in inHand, Cleanup(e)
  PROVE  e[2] \in Requests /\ Mail!Serve(e[2])
<1> USE NoneIsNoRequest
<1> DEFINE r == e[2]  n == e[1]
<1>8. n \in Names /\ r \in Requests /\ nameOf[r] = n
  BY DEF DistinctInv, IInv, TypeOK, ReaderNamed
<1>1. n \in Names /\ r \in Requests /\ old[n] = r
  BY <1>8, AllPrivate, NoNameIsNone DEF Held
<1>2. InDir(old, r) /\ ~ InDir(new, r)
  BY <1>1, WhereItIs DEF InDir
<1>3. /\ old' = [old EXCEPT ![n] = None]
      /\ new' = new
      /\ served' = served \cup {r}
      /\ sent' = sent
  BY DEF Cleanup, writer
<1>4. old \in [Names -> Requests \cup {None}]
  BY DEF DistinctInv, IInv, TypeOK
<1> HIDE DEF r, n
<1>9. \A m \in Names : old[m] = r => m = n
  BY <1>1, WhereItIs
<1>5. \A q \in Requests : InDir(old', q) <=> InDir(old, q) /\ q # r
  BY <1>1, <1>3, <1>4, <1>9 DEF InDir
<1>6. mailStatus[r] = "taken"
  BY <1>1, <1>2 DEF mailStatus
<1>7. mailStatus' = [mailStatus EXCEPT ![r] = "served"]
  <2>1. \A q \in Requests : mailStatus'[q] = IF q = r THEN "served" ELSE mailStatus[q]
    BY <1>2, <1>3, <1>5 DEF mailStatus, InDir
  <2> QED
    BY <2>1, <1>1 DEF mailStatus
<1> QED
  BY <1>1, <1>6, <1>7 DEF Mail!Serve, r

\* The start script puts back.
LEMMA RestartRequeues ==
  ASSUME DistinctInv, Restart
  PROVE  Mail!Requeue
<1> USE NoneIsNoRequest
<1>1. PICK S \in SUBSET Entries(old) :
        /\ new' = [n \in Names |-> IF n \in S THEN old[n] ELSE new[n]]
        /\ old' = [n \in Names |-> IF n \in S THEN None ELSE old[n]]
        /\ served' = served /\ sent' = sent
  BY DEF Restart, writer
<1> DEFINE T == {r \in Requests : \E n \in S : old[n] = r}
<1>2. \A n \in S : n \in Names /\ old[n] \in Requests /\ new[n] = None
  <2> SUFFICES ASSUME NEW n \in S PROVE n \in Names /\ old[n] \in Requests /\ new[n] = None
    OBVIOUS
  <2>1. n \in Names /\ old[n] \in Requests /\ nameOf[old[n]] = n
    BY DEF Entries, DistinctInv, IInv, TypeOK, OwnName
  <2>2. Placed(old[n]) /\ new[n] \in {old[n], None}
    BY <2>1, AllPrivate, PrivateFile, NoNameIsNone DEF DistinctInv
  <2> QED
    BY <2>1, <2>2 DEF Placed
<1>3. \A r \in T : InDir(old, r) /\ ~ InDir(new, r)
  BY <1>2, WhereItIs DEF InDir
<1>4. T \in SUBSET {r \in Requests : mailStatus[r] = "taken"}
  BY <1>3 DEF mailStatus
<1>5. \A r \in Requests : InDir(new', r) <=> InDir(new, r) \/ r \in T
  BY <1>1, <1>2 DEF InDir
<1>6. \A r \in Requests : InDir(old', r) <=> InDir(old, r) /\ r \notin T
  <2>1. \A r \in Requests, n \in Names, m \in Names : old[n] = r /\ old[m] = r => n = m
    BY WhereItIs
  <2> QED
    BY <1>1, <1>2, <2>1 DEF InDir
<1> HIDE DEF T
<1>7. \A r \in Requests : mailStatus'[r] = IF r \in T THEN "pending" ELSE mailStatus[r]
  BY <1>1, <1>3, <1>5, <1>6 DEF mailStatus, InDir
<1>8. mailStatus' = [r \in Requests |-> IF r \in T THEN "pending" ELSE mailStatus[r]]
  BY <1>7 DEF mailStatus
<1> QED
  BY <1>4, <1>8 DEF Mail!Requeue

\* A file that lost its contents with the machine is thrown away: its request is
\* lost, unless it had been served before the crash.
LEMMA DispatchLoses ==
  ASSUME DistinctInv, NEW n \in Names, Dispatch(n), old[n] # None, data[old[n]] = None
  PROVE  old[n] \in Requests /\ (Mail!Lose(old[n]) \/ Mail!Serve(old[n]))
<1> USE NoneIsNoRequest
<1> DEFINE r == old[n]
<1>1. r \in Requests /\ old[n] = r /\ data[r] = None
  BY DEF DistinctInv, IInv, TypeOK
<1>2. InDir(old, r) /\ ~ InDir(new, r)
  BY <1>1, WhereItIs DEF InDir
<1>3. /\ old' = [old EXCEPT ![n] = None]
      /\ UNCHANGED <<new, served, sent>>
  BY <1>1 DEF Dispatch, writer
<1>4. old \in [Names -> Requests \cup {None}]
  BY DEF DistinctInv, IInv, TypeOK
<1>5. \A m \in Names : old[m] = r => m = n
  BY <1>1, WhereItIs
<1>6. Placed(r) /\ Whole(r) /\ nameOf[r] = n
  BY <1>1, AllPrivate, NoNameIsNone DEF DistinctInv, IInv, OwnName
<1>7. failures # 0 /\ MaxPowerFailures > 0 /\ r \in sent
  BY <1>1, <1>6, BoundsAssumption DEF DistinctInv, IInv, TypeOK, Placed, Whole
<1> HIDE DEF r
<1>8. \A q \in Requests : InDir(old', q) <=> InDir(old, q) /\ q # r
  BY <1>1, <1>3, <1>4, <1>5 DEF InDir
<1>9. mailStatus[r] = "taken"
  BY <1>1, <1>2 DEF mailStatus
<1>10. mailStatus' = [mailStatus EXCEPT ![r] = IF r \in served THEN "served" ELSE "lost"]
  <2>1. \A q \in Requests : mailStatus'[q] = IF q = r
                                             THEN IF r \in served THEN "served" ELSE "lost"
                                             ELSE mailStatus[q]
    BY <1>2, <1>3, <1>7, <1>8 DEF mailStatus, InDir
  <2> QED
    BY <2>1, <1>1 DEF mailStatus
<1> QED
  BY <1>1, <1>7, <1>9, <1>10 DEF Mail!Lose, Mail!Serve, r

\* A crash of the machine takes requests back to where the disk has them.
LEMMA PowerFailureRollsBack ==
  ASSUME DistinctInv, PowerFailure
  PROVE  Mail!Rollback
<1> USE NoneIsNoRequest, NoNameIsNone
<1>1. /\ new' = [n \in Names |-> disk[n].new]
      /\ old' = [n \in Names |-> disk[n].old]
      /\ UNCHANGED <<sent, served>>
      /\ MaxPowerFailures > 0
  BY BoundsAssumption DEF PowerFailure, ReaderGone, DistinctInv, IInv, TypeOK
<1>2. mailStatus' \in [Requests -> {"unsent", "pending", "taken", "served", "lost"}]
  BY DEF mailStatus
<1>3. ASSUME NEW r \in Requests
      PROVE  mailStatus'[r] \in IF mailStatus[r] = "unsent" THEN {"unsent"}
                                ELSE {mailStatus[r], "pending", "taken", "lost"}
  <2>1. InDir(new', r) \/ InDir(old', r) => r \in sent
    <3> SUFFICES ASSUME NEW n \in Names, disk[n].new = r \/ disk[n].old = r
                 PROVE  r \in sent
      BY <1>1 DEF InDir
    <3>1. nameOf[r] = n
      BY DEF DistinctInv, IInv, OwnName
    <3> QED
      BY <3>1, AllPrivate DEF Placed
  <2>2. r \in served /\ (InDir(new, r) \/ InDir(old, r)) => InDir(new', r) \/ InDir(old', r)
    <3> SUFFICES ASSUME r \in served, NEW n \in Names, new[n] = r \/ old[n] = r
                 PROVE  InDir(new', r) \/ InDir(old', r)
      BY DEF InDir
    <3>1. nameOf[r] = n
      BY DEF DistinctInv, IInv, OwnName
    <3>2. disk[n].new = r \/ disk[n].old = r
      BY <3>1, AllPrivate DEF Placed
    <3> QED
      BY <3>2, <1>1 DEF InDir
  <2>3. InDir(new, r) \/ InDir(old, r) => r \in sent
    BY WhereItIs
  <2>4. mailStatus'[r] = IF InDir(new', r) THEN "pending"
                         ELSE IF InDir(old', r) THEN "taken"
                         ELSE IF r \in served THEN "served"
                         ELSE IF r \in sent THEN "lost" ELSE "unsent"
    BY <1>1 DEF mailStatus, InDir
  <2>5. mailStatus[r] = IF InDir(new, r) THEN "pending"
                        ELSE IF InDir(old, r) THEN "taken"
                        ELSE IF r \in served THEN "served"
                        ELSE IF r \in sent THEN "lost" ELSE "unsent"
    BY DEF mailStatus
  <2> QED
    BY <2>1, <2>2, <2>3, <2>4, <2>5
<1> QED
  BY <1>1, <1>2, <1>3 DEF Mail!Rollback

\* Every step is a step of the mailbox or changes nothing in it.
LEMMA StepRefines ==
  ASSUME DistinctInv, [Next]_vars
  PROVE  [Mail!Next]_mailStatus
<1>1. CASE Tick
  BY <1>1, MailStutters DEF Tick, cached, reader, writer
<1>2. CASE Deliver
  <2>1. CASE \E w \in Writers : RenameNew(w)
    <3>1. PICK w \in Writers : RenameNew(w)
      BY <2>1
    <3>2. wreq[w] \in Requests
      BY <3>1 DEF DistinctInv, IInv, WritersNamed, RenameNew
    <3> QED
      BY <3>1, <3>2, RenameSends DEF Mail!Next
  <2>2. CASE ~ \E w \in Writers : RenameNew(w)
    BY <1>2, <2>2, MailStutters
       DEF Deliver, OpenTmp, WriteTmp, DeliverFails, cached, reader
  <2> QED
    BY <2>1, <2>2
<1>3. CASE Read
  <2>1. CASE \E n \in batch : SetOld(n)
    <3>1. PICK n \in Names : SetOld(n)
      BY <2>1 DEF DistinctInv, IInv, TypeOK
    <3>2. new[n] \in Requests
      BY <3>1 DEF SetOld, DistinctInv, IInv, TypeOK
    <3> QED
      BY <3>1, <3>2, SetOldTakes DEF Mail!Next
  <2>2. CASE \E n \in result : Dispatch(n)
    <3>1. PICK n \in Names : Dispatch(n)
      BY <2>2 DEF DistinctInv, IInv, TypeOK
    <3>2. CASE old[n] # None /\ data[old[n]] = None
      BY <3>1, <3>2, DispatchLoses DEF Mail!Next
    <3>3. CASE old[n] = None \/ data[old[n]] # None
      BY <3>1, <3>3, MailStutters DEF Dispatch, ReaderGone, writer
    <3> QED
      BY <3>2, <3>3
  <2>3. CASE ListBegin \/ ListEnd \/ ReadEnd \/ Again
    BY <2>3, MailStutters DEF ListBegin, ListEnd, ReadEnd, Again, cached, writer
  <2> QED
    BY <1>3, <2>1, <2>2, <2>3 DEF Read
<1>4. CASE \E e \in inHand : Cleanup(e)
  BY <1>4, CleanupServes DEF Mail!Next
<1>5. CASE Crash \/ Fault
  BY <1>5, MailStutters
     DEF Crash, Fault, SetOldFails, DispatchFails, ReaderGone, cached, writer
<1>6. CASE Restart
  BY <1>6, RestartRequeues DEF Mail!Next
<1>7. CASE (\E r \in Requests : Writeback(r)) \/ (\E n \in Names : SyncName(n))
  BY <1>7, MailStutters DEF Writeback, SyncName, cached, reader, writer
<1>8. CASE PowerFailure
  BY <1>8, PowerFailureRollsBack DEF Mail!Next
<1>9. CASE UNCHANGED vars
  BY <1>9, MailStutters DEF vars
<1> QED
  BY <1>1, <1>2, <1>3, <1>4, <1>5, <1>6, <1>7, <1>8, <1>9 DEF Next

(***************************************************************************)
(* JobDir::deliver, JobDirReader::read and the start script implement the  *)
(* mailbox when no two deliveries draw the same name: a request appears    *)
(* whole and in one step, survives every crash, error and restart of the   *)
(* reader, and leaves only when it has been served.  Only a crash of the   *)
(* machine, which leaves what the disk has, loses requests or brings back  *)
(* what was served.                                                        *)
(***************************************************************************)
THEOREM ImplementsMailbox ==
  ASSUME IdInjective
  PROVE  Spec => MailSpec
<1>1. Init => Mail!Init
  <2> SUFFICES ASSUME Init PROVE mailStatus = [r \in Requests |-> "unsent"]
    BY DEF Mail!Init
  <2>1. \A r \in Requests : /\ r \notin served \cup sent
                            /\ ~ InDir(new, r) /\ ~ InDir(old, r)
    BY NoneIsNoRequest DEF Init, InDir
  <2> QED
    BY <2>1 DEF mailStatus
<1>2. DistinctInv /\ [Next]_vars => [Mail!Next]_mailStatus
  BY StepRefines
<1> QED
  BY <1>1, <1>2, Inductive, PTL DEF Spec, MailSpec, Mail!Spec
=============================================================================
