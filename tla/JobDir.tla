------------------------------- MODULE JobDir -------------------------------
(***************************************************************************)
(* The job directory: three directories tmp/, new/ and old/ through which  *)
(* the services pass requests to each other.  JobDir::deliver creates a    *)
(* file in tmp/, writes it and renames it into new/; JobDirReader::read    *)
(* lists new/ and renames each entry into old/; the dispatcher then parses *)
(* the files it was given; a file leaves old/ when its request has been    *)
(* served; the start script moves what it finds in old/ back to new/.      *)
(*                                                                         *)
(* A directory maps names to inodes; an inode is named after the request   *)
(* whose delivery created it, and data says what the file holds: a request *)
(* or None for an empty or unparsable file.  Nothing is synced: disk is    *)
(* what a crash of the machine leaves of the directories.                  *)
(***************************************************************************)
EXTENDS Naturals, FiniteSets

CONSTANTS
  Writers,          \* threads that deliver
  Requests,         \* requests, each delivered once
  Id,               \* the thread id each writer puts in the names of its files
  None,
  MaxClock,         \* bound: ticks of gettimeofday
  MaxCrashes,       \* bound: crashes of the reading process
  MaxPowerFailures, \* bound: crashes of the machine
  MaxFaults         \* bound: errors the reader or its start script meets

ASSUME IdAssumption == Id \in [Writers -> Nat]

ASSUME NoneIsNoRequest == None \notin Requests

ASSUME BoundsAssumption ==
  /\ MaxClock \in Nat \ {0}
  /\ MaxCrashes \in Nat
  /\ MaxPowerFailures \in Nat
  /\ MaxFaults \in Nat

VARIABLES
  clock,         \* universal_time()
  tmp, new, old, \* the directories: name -> inode or None
  data,          \* inode -> what the file holds
  durable,       \* inodes whose data the kernel has written to the disk
  disk,          \* name -> the entries of new/ and old/ on the disk
  stored,        \* requests whose entry in new/ or old/ has reached the disk
  wpc, wreq, wname, wfd, last,  \* deliver() in each writer
  nameOf,        \* the name each request was given, once its delivery began
  sent,          \* requests whose deliver() has returned normally
  rpc,           \* Dispatcher::operator() and JobDirReader::read()
  seen,          \* what readdir has certainly returned
  batch,         \* entries of new/ still to be moved
  result,        \* items read() has collected, not dispatched yet
  inHand,        \* <<name, request>> handed to a worker, not yet cleaned up
  served,        \* requests cleaned up after execution
  crashes, failures, faults

cached == <<tmp, new, old, data>>
stable == <<durable, disk, stored>>
writer == <<wpc, wreq, wname, wfd, last, nameOf, sent>>
reader == <<rpc, seen, batch, result, inHand, served>>
bounds == <<crashes, failures, faults>>
vars   == <<clock, tmp, new, old, data, durable, disk, stored, wpc, wreq,
            wname, wfd, last, nameOf, sent, rpc, seen, batch, result, inHand,
            served, crashes, failures, faults>>

Names == (1 .. MaxClock) \X {Id[w] : w \in Writers}

Entries(d) == {n \in Names : d[n] # None}

NoName == <<0, 0>>

Nowhere == [new |-> None, old |-> None]

TypeOK ==
  /\ clock \in 1 .. MaxClock
  /\ tmp \in [Names -> Requests \cup {None}]
  /\ new \in [Names -> Requests \cup {None}]
  /\ old \in [Names -> Requests \cup {None}]
  /\ data \in [Requests -> Requests \cup {None}]
  /\ durable \subseteq Requests
  /\ disk \in [Names -> [new : Requests \cup {None},
                          old : Requests \cup {None}]]
  /\ stored \subseteq Requests
  /\ wpc \in [Writers -> {"idle", "opened", "written"}]
  /\ wreq \in [Writers -> Requests \cup {None}]
  /\ wname \in [Writers -> Names \cup {NoName}]
  /\ wfd \in [Writers -> Requests \cup {None}]
  /\ last \in [Writers -> 0 .. MaxClock]
  /\ nameOf \in [Requests -> Names \cup {NoName}]
  /\ sent \subseteq Requests
  /\ rpc \in {"down", "idle", "listing", "moving", "dispatching"}
  /\ seen \subseteq Names
  /\ batch \subseteq Names
  /\ result \subseteq Names
  /\ inHand \subseteq Names \X Requests
  /\ served \subseteq Requests
  /\ crashes \in 0 .. MaxCrashes
  /\ failures \in 0 .. MaxPowerFailures
  /\ faults \in 0 .. MaxFaults

Init ==
  /\ clock = 1
  /\ tmp = [n \in Names |-> None]
  /\ new = [n \in Names |-> None]
  /\ old = [n \in Names |-> None]
  /\ data = [r \in Requests |-> None]
  /\ durable = {}
  /\ disk = [n \in Names |-> Nowhere]
  /\ stored = {}
  /\ wpc = [w \in Writers |-> "idle"]
  /\ wreq = [w \in Writers |-> None]
  /\ wname = [w \in Writers |-> NoName]
  /\ wfd = [w \in Writers |-> None]
  /\ last = [w \in Writers |-> 0]
  /\ nameOf = [r \in Requests |-> NoName]
  /\ sent = {}
  /\ rpc = "idle"
  /\ seen = {}
  /\ batch = {}
  /\ result = {}
  /\ inHand = {}
  /\ served = {}
  /\ crashes = 0
  /\ failures = 0
  /\ faults = 0

-----------------------------------------------------------------------------
(* JobDir::deliver                                                         *)

\* A delivery takes longer than a microsecond and the clock is not set back:
\* a thread never uses the same stamp twice.
Tick ==
  /\ clock < MaxClock
  /\ clock' = clock + 1
  /\ UNCHANGED <<cached, stable, writer, reader, bounds>>

FileNameMutant(w) == <<clock, CHOOSE i \in {Id[v] : v \in Writers} : TRUE>>

FileName(w) == <<clock, Id[w]>>

\* fs::ofstream tmp_file(tmp_path): creates the file, or truncates the one of
\* that name.
OpenTmp(w, r) ==
  LET n == FileName(w)
      inode == IF tmp[n] = None THEN r ELSE tmp[n]
  IN  /\ wpc[w] = "idle"
      /\ nameOf[r] = NoName
      /\ last[w] < clock
      /\ tmp' = [tmp EXCEPT ![n] = inode]
      /\ data' = [data EXCEPT ![inode] = None]
      /\ durable' = durable \ {inode}
      /\ wpc' = [wpc EXCEPT ![w] = "opened"]
      /\ wreq' = [wreq EXCEPT ![w] = r]
      /\ wname' = [wname EXCEPT ![w] = n]
      /\ wfd' = [wfd EXCEPT ![w] = inode]
      /\ last' = [last EXCEPT ![w] = clock]
      /\ nameOf' = [nameOf EXCEPT ![r] = n]
      /\ UNCHANGED <<clock, new, old, disk, stored, sent, reader, bounds>>

\* The contents are flushed and the file closed.  What is written over the
\* bytes of another writer may not parse.
WriteTmp(w) ==
  /\ wpc[w] = "opened"
  /\ \E c \in {wreq[w]} \cup (IF data[wfd[w]] = None THEN {} ELSE {None}) :
       data' = [data EXCEPT ![wfd[w]] = c]
  /\ durable' = durable \ {wfd[w]}
  /\ wpc' = [wpc EXCEPT ![w] = "written"]
  /\ UNCHANGED <<clock, tmp, new, old, disk, stored, wreq, wname, wfd, last,
                 nameOf, sent, reader, bounds>>

\* deliver() returns or throws.
Done(w) ==
  /\ wpc' = [wpc EXCEPT ![w] = "idle"]
  /\ wreq' = [wreq EXCEPT ![w] = None]
  /\ wname' = [wname EXCEPT ![w] = NoName]
  /\ wfd' = [wfd EXCEPT ![w] = None]

\* std::rename(tmp_path, new_path): replaces an entry of that name; fails when
\* tmp/ has none.
RenameNewMutant(w) ==
  /\ wpc[w] = "opened"
  /\ tmp[wname[w]] # None
  /\ new' = [new EXCEPT ![wname[w]] = tmp[wname[w]]]
  /\ tmp' = [tmp EXCEPT ![wname[w]] = None]
  /\ sent' = sent \cup {wreq[w]}
  /\ Done(w)
  /\ UNCHANGED <<clock, old, data, stable, last, nameOf, reader, bounds>>

RenameNew(w) ==
  /\ wpc[w] = "written"
  /\ tmp[wname[w]] # None
  /\ new' = [new EXCEPT ![wname[w]] = tmp[wname[w]]]
  /\ tmp' = [tmp EXCEPT ![wname[w]] = None]
  /\ sent' = sent \cup {wreq[w]}
  /\ Done(w)
  /\ UNCHANGED <<clock, old, data, stable, last, nameOf, reader, bounds>>

\* create, write or rename failed (JobDirError), or the writer died: what is
\* in tmp/ stays there.
DeliverFails(w) ==
  /\ wpc[w] # "idle"
  /\ Done(w)
  /\ UNCHANGED <<clock, cached, stable, last, nameOf, sent, reader, bounds>>

-----------------------------------------------------------------------------
(* JobDirReader::read and the dispatcher                                   *)

\* new_entries(): readdir returns what is there when it starts, and any part
\* of what is renamed into new/ meanwhile.
ListBegin ==
  /\ rpc = "idle"
  /\ seen' = Entries(new)
  /\ rpc' = "listing"
  /\ UNCHANGED <<clock, cached, stable, writer, batch, result, inHand, served,
                 bounds>>

ListEnd ==
  /\ rpc = "listing"
  /\ \E extra \in SUBSET (Entries(new) \ seen) : batch' = seen \cup extra
  /\ seen' = {}
  /\ rpc' = "moving"
  /\ UNCHANGED <<clock, cached, stable, writer, result, inHand, served, bounds>>

\* leaf_less: names compare by time stamp, then by id
Before(m, n) == m[1] < n[1] \/ (m[1] = n[1] /\ m[2] < n[2])

First(n, S) == n \in S /\ \A m \in S : ~ Before(m, n)

\* JobDir::set_old: rename from new/ to old/; the item joins the result.
SetOldMutant(n) ==
  /\ rpc = "moving"
  /\ First(n, batch)
  /\ new[n] # None
  /\ old' = [old EXCEPT ![n] = new[n]]
  /\ new' = [new EXCEPT ![n] = None]
  /\ result' = result \cup {n}
  /\ UNCHANGED <<clock, tmp, data, stable, writer, rpc, seen, batch, inHand,
                 served, bounds>>

SetOld(n) ==
  /\ rpc = "moving"
  /\ First(n, batch)
  /\ new[n] # None
  /\ old' = [old EXCEPT ![n] = new[n]]
  /\ new' = [new EXCEPT ![n] = None]
  /\ batch' = batch \ {n}
  /\ result' = result \cup {n}
  /\ UNCHANGED <<clock, tmp, data, stable, writer, rpc, seen, inHand, served,
                 bounds>>

\* The rename fails: the JobDirError unwinds read() and takes along the items
\* collected so far, whose files stay in old/; the dispatcher tries again.
SetOldFails(n) ==
  /\ rpc = "moving"
  /\ First(n, batch)
  /\ faults < MaxFaults
  /\ faults' = faults + 1
  /\ batch' = {}
  /\ result' = {}
  /\ rpc' = "idle"
  /\ UNCHANGED <<clock, cached, stable, writer, seen, inHand, served, crashes,
                 failures>>

ReadEnd ==
  /\ rpc = "moving"
  /\ batch = {}
  /\ rpc' = "dispatching"
  /\ UNCHANGED <<clock, cached, stable, writer, seen, batch, result, inHand,
                 served, bounds>>

ReaderGone ==
  /\ rpc' = "down"
  /\ seen' = {}
  /\ batch' = {}
  /\ result' = {}
  /\ inHand' = {}
  /\ UNCHANGED served

\* Dispatch::operator(): item->value() throws when the file is not there, and
\* that ends the workload manager; a file that does not parse is removed by the
\* scope guard; else the request goes to a worker.
DispatchMutant(n) ==
  /\ rpc = "dispatching"
  /\ First(n, result)
  /\ old[n] # None
  /\ old' = [old EXCEPT ![n] = None]
  /\ inHand' = IF data[old[n]] = None THEN inHand
               ELSE inHand \cup {<<n, data[old[n]]>>}
  /\ result' = result \ {n}
  /\ UNCHANGED <<clock, tmp, new, data, stable, writer, rpc, seen, batch,
                 served, bounds>>

Dispatch(n) ==
  /\ rpc = "dispatching"
  /\ First(n, result)
  /\ IF old[n] = None THEN ReaderGone /\ UNCHANGED old
     ELSE /\ result' = result \ {n}
          /\ IF data[old[n]] = None
             THEN /\ old' = [old EXCEPT ![n] = None]
                  /\ UNCHANGED inHand
             ELSE /\ inHand' = inHand \cup {<<n, data[old[n]]>>}
                  /\ UNCHANGED old
          /\ UNCHANGED <<rpc, seen, batch, served>>
  /\ UNCHANGED <<clock, tmp, new, data, stable, writer, bounds>>

\* CannotCreateLBContext, after the guard was dismissed: the item is dropped and
\* its file stays in old/.
DispatchFails(n) ==
  /\ rpc = "dispatching"
  /\ First(n, result)
  /\ old[n] # None
  /\ data[old[n]] # None
  /\ faults < MaxFaults
  /\ faults' = faults + 1
  /\ result' = result \ {n}
  /\ UNCHANGED <<clock, cached, stable, writer, rpc, seen, batch, inHand,
                 served, crashes, failures>>

\* The dispatcher schedules its next execution.
Again ==
  /\ rpc = "dispatching"
  /\ result = {}
  /\ rpc' = "idle"
  /\ UNCHANGED <<clock, cached, stable, writer, seen, batch, result, inHand,
                 served, bounds>>

\* The request has been executed: remove_from_input() removes its file.
Cleanup(e) ==
  /\ rpc # "down"
  /\ e \in inHand
  /\ old' = [old EXCEPT ![e[1]] = None]
  /\ inHand' = inHand \ {e}
  /\ served' = served \cup {e[2]}
  /\ UNCHANGED <<clock, tmp, new, data, stable, writer, rpc, seen, batch,
                 result, bounds>>

-----------------------------------------------------------------------------
(* Crashes and the start script                                            *)

Crash ==
  /\ crashes < MaxCrashes
  /\ rpc # "down"
  /\ crashes' = crashes + 1
  /\ ReaderGone
  /\ UNCHANGED <<clock, cached, stable, writer, failures, faults>>

\* check_input: find old/ -type f | xargs mv new/; "error moving files from old
\* to new dir, continuing" when a part of them stays.
RestartMutant ==
  /\ rpc = "down"
  /\ rpc' = "idle"
  /\ UNCHANGED <<clock, cached, stable, writer, seen, batch, result, inHand,
                 served, bounds>>

Restart ==
  /\ rpc = "down"
  /\ \E S \in SUBSET Entries(old) :
       /\ IF S = Entries(old) THEN UNCHANGED faults
          ELSE faults < MaxFaults /\ faults' = faults + 1
       /\ new' = [n \in Names |-> IF n \in S THEN old[n] ELSE new[n]]
       /\ old' = [n \in Names |-> IF n \in S THEN None ELSE old[n]]
  /\ rpc' = "idle"
  /\ UNCHANGED <<clock, tmp, data, stable, writer, seen, batch, result, inHand,
                 served, crashes, failures>>

\* The kernel writes a file back, or the entries of one name: the directories
\* on the disk lag behind, but a rename is there altogether or not at all.
\* After the last crash of the machine nothing depends on the disk.
Writeback(i) ==
  /\ failures < MaxPowerFailures
  /\ data[i] # None
  /\ i \notin durable
  /\ durable' = durable \cup {i}
  /\ UNCHANGED <<clock, cached, disk, stored, writer, reader, bounds>>

SyncName(n) ==
  LET entries == [new |-> new[n], old |-> old[n]]
  IN  /\ failures < MaxPowerFailures
      /\ disk[n] # entries
      /\ disk' = [disk EXCEPT ![n] = entries]
      /\ stored' = stored \cup ({new[n], old[n]} \ {None})
      /\ UNCHANGED <<clock, cached, durable, writer, reader, bounds>>

\* The machine goes down: new/ and old/ are those of the disk, and files that
\* were never synced are empty.  What the disk holds in tmp/ meets nobody: later
\* deliveries have later stamps.
PowerFailure ==
  /\ failures < MaxPowerFailures
  /\ failures' = failures + 1
  /\ tmp' = [n \in Names |-> None]
  /\ new' = [n \in Names |-> disk[n].new]
  /\ old' = [n \in Names |-> disk[n].old]
  /\ data' = [i \in Requests |-> IF i \in durable THEN data[i] ELSE None]
  /\ wpc' = [w \in Writers |-> "idle"]
  /\ wreq' = [w \in Writers |-> None]
  /\ wname' = [w \in Writers |-> NoName]
  /\ wfd' = [w \in Writers |-> None]
  /\ ReaderGone
  /\ UNCHANGED <<clock, stable, last, nameOf, sent, crashes,
                 faults>>

-----------------------------------------------------------------------------
Deliver == \E w \in Writers :
             \/ \E r \in Requests : OpenTmp(w, r)
             \/ WriteTmp(w)
             \/ RenameNew(w)
             \/ DeliverFails(w)

Read == \/ ListBegin
        \/ ListEnd
        \/ \E n \in batch : SetOld(n)
        \/ ReadEnd
        \/ \E n \in result : Dispatch(n)
        \/ Again

Fault == \/ \E n \in batch : SetOldFails(n)
         \/ \E n \in result : DispatchFails(n)

Next ==
  \/ Tick
  \/ Deliver
  \/ Read
  \/ Fault
  \/ \E e \in inHand : Cleanup(e)
  \/ Crash
  \/ Restart
  \/ \E i \in Requests : Writeback(i)
  \/ \E n \in Names : SyncName(n)
  \/ PowerFailure

Spec == Init /\ [][Next]_vars

(***************************************************************************)
(* The reader's main thread, its workers and the operator's start script   *)
(* run; nothing forces a writer to deliver.                                *)
(***************************************************************************)
FairSpec ==
  /\ Spec
  /\ WF_vars(Read)
  /\ WF_vars(Restart)
  /\ WF_vars(\E e \in inHand : Cleanup(e))

-----------------------------------------------------------------------------
(* Properties                                                              *)

(***************************************************************************)
(* Different threads have different ids.  pthread_self() is unique within  *)
(* a process.  The worker threads of the workload manager share one JobDir *)
(* object, which keeps the id of the thread that created it, and the       *)
(* processes of WMProxy may have equal ids: they rely on the clock (and on *)
(* the random tag of WMReal::submit) alone.                                *)
(***************************************************************************)
IdInjective == \A v, w \in Writers : Id[v] = Id[w] => v = w

Unshared(r) == \A q \in Requests \ {r} : nameOf[q] # nameOf[r]

\* The files that the reader can still serve hold r.
Kept(r) == \E n \in Names : (new[n] # None /\ data[new[n]] = r)
                          \/ (old[n] # None /\ data[old[n]] = r)

(***************************************************************************)
(* Crash of a process, failure of a delivery or of the reader, restart: a  *)
(* request whose deliver() returned is kept in new/ or old/ until it has   *)
(* been served, unless another delivery drew the same file name.  With a   *)
(* crash of the machine this holds of the requests whose data and whose    *)
(* entry in new/ or old/ had reached the disk, since deliver() syncs       *)
(* neither.                                                                *)
(***************************************************************************)
NoLoss ==
  \A r \in sent : Unshared(r) /\ (failures = 0 \/ r \in durable \cap stored)
                    => r \in served \/ Kept(r)

(***************************************************************************)
(* As long as names are not shared and the machine stays up, every entry   *)
(* of new/ is a whole request: the reader never sees a partial file and    *)
(* never throws a request away as invalid.                                 *)
(***************************************************************************)
NeverPartial ==
  failures = 0 => \A n \in Names :
                    new[n] # None /\ Unshared(new[n]) => data[new[n]] = new[n]

(***************************************************************************)
(* The listing of new/ is not stale when it is used: every entry still to  *)
(* be moved exists, and set_old does not throw because it has gone.        *)
(***************************************************************************)
ListedStillThere == seen \cup batch \subseteq Entries(new)

(***************************************************************************)
(* A file in old/ that nobody will look at before the next start: the      *)
(* exception that unwound read() or Dispatch took its item along, or mv    *)
(* left it there.                                                          *)
(***************************************************************************)
Stranded(r) ==
  /\ rpc # "down"
  /\ faults > 0
  /\ \E n \in Names : /\ old[n] # None /\ data[old[n]] = r
                      /\ n \notin result
                      /\ \A e \in inHand : e[1] # n

(***************************************************************************)
(* Every delivered request is eventually served, whatever the finitely     *)
(* many crashes of the reader interrupt.  There are two excuses: the       *)
(* machine crashed and its file did not survive, or one of the errors that *)
(* the dispatcher and the start script log and go on after has left it in  *)
(* old/, where it stays as long as the daemon is not started again.        *)
(***************************************************************************)
EventuallyServed ==
  \A r \in Requests :
    r \in sent ~> \/ r \in served
                  \/ failures > 0 /\ ~ Kept(r)
                  \/ []Stranded(r)

(***************************************************************************)
(* With ids that differ the directories implement the mailbox: a request   *)
(* is lost, or comes back after it was served, only when the machine       *)
(* crashes, since deliver() does not sync ("sync too? yes, rename doesn't  *)
(* sync (TODO)").                                                          *)
(***************************************************************************)
InDir(d, r) == \E n \in Names : d[n] = r

mailStatus ==
  [r \in Requests |-> IF InDir(new, r) THEN "pending"
                     ELSE IF InDir(old, r) THEN "taken"
                     ELSE IF r \in served THEN "served"
                     ELSE IF r \in sent THEN "lost"
                     ELSE "unsent"]

Mail == INSTANCE Mailbox WITH status <- mailStatus,
                              Lossy  <- MaxPowerFailures > 0

MailSpec == Mail!Spec
=============================================================================
