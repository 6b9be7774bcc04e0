---------------------------- MODULE FileContainer ----------------------------
(***************************************************************************)
(* The file container of JobController and LogMonitor                      *)
(* (org.glite.wms.jobsubmission/src/common/file_container.cpp, and         *)
(* org.glite.wms.common/src/utilities/filecontainer.cpp, which is the same *)
(* code): a doubly linked list kept in one file, which the daemons use for *)
(* the jobs they follow (id_container.cpp), the jobs they are cancelling   *)
(* (AbortedContainer.cpp) and the timeouts (Timer.cpp).                    *)
(*                                                                         *)
(* The header of the file has the number of entries, the positions of the  *)
(* first and the last one, a status character and an undo journal: before  *)
(* an operation overwrites an iterator or the limits it writes the old     *)
(* value into the journal and then the status that says how far it has     *)
(* come.  The first access of a new process finds a status other than      *)
(* closed when the last process died inside an operation, and recover_data *)
(* undoes it.                                                              *)
(*                                                                         *)
(* Every stream insertion ends in endl, flush, sync or a seek, so that     *)
(* each of them is one write to the file, and the process may die between  *)
(* any two.  An operation is the sequence of its writes, computed when it  *)
(* starts from the file (which only the holder of the lock changes);       *)
(* Write does one of them.                                                 *)
(*                                                                         *)
(* An entry takes three cells of the file: its iterator (prev, next), its  *)
(* state ('g' good, 'i' erased) and its data.  Positions count cells from  *)
(* the end of the header.  Left out: the time stamp (one process at a time *)
(* writes; a process that starts reads everything), the second iterator of *)
(* an entry and fc_removed, which nobody follows, and I/O errors.          *)
(***************************************************************************)
EXTENDS Integers, SequencesExt

CONSTANTS
  Ops,           \* the operations the users of the container call
  MaxOps,        \* bound: operations
  MaxCrashes     \* bound: deaths of the process

ASSUME OpsAssumption ==
  Ops \subseteq {"add", "first", "remove", "only", "update", "truncate", "compact"}
ASSUME BoundsAssumption == MaxOps \in Nat /\ MaxCrashes \in Nat

VARIABLES
  file,      \* what is on the disk
  copy,      \* the entries of the .bak file that backupFile writes
  op,        \* the operation under way, "none" or "down" (no process)
  todo,      \* the writes it has still to do
  failed,    \* an access to the container has returned an error
  list,      \* ghost: the entries as the users of the container know them
  goal,      \* ghost: the entries after the operation under way
  wounds,    \* ghost: the unprotected windows the process has died in
  ops, crashes

vars == <<file, copy, op, todo, failed, list, goal, wounds, ops, crashes>>

-----------------------------------------------------------------------------
(* The file *)

HeaderSize == 1      \* the position of the first entry
None == "none"       \* a header line that is not there

Iterator(prev, next, pos) == [prev |-> prev, next |-> next, pos |-> pos]
Vuoto == Iterator(0, 0, 0)

Limits(first, last) == [prev |-> first, next |-> last]

\* A file of no bytes, and one that createEmptyFile has written.
Blank == [status |-> None, size |-> 0, backup |-> [i \in 0..2 |-> Vuoto],
          limitsBackup |-> Limits(0, 0), limits |-> Limits(0, 0), header |-> FALSE,
          cells |-> <<>>]
Empty == [Blank EXCEPT !.status = "closed", !.limits = Limits(HeaderSize, HeaderSize),
                       !.header = TRUE]

GetEnd(f) == Len(f.cells) + 1

IteratorCell(it) == [is |-> "iterator", prev |-> it.prev, next |-> it.next]
StateCell(s) == [is |-> "state", val |-> s]
DataCell(d) == [is |-> "data", val |-> d]
Hole == [is |-> "hole"]

CellIs(f, p, kind) == p \in 1..Len(f.cells) /\ f.cells[p].is = kind

\* readIterator: the end and the start of the list have empty iterators.
ReadIterator(f, p) ==
  IF CellIs(f, p, "iterator")
    THEN [ok |-> TRUE, it |-> Iterator(f.cells[p].prev, f.cells[p].next, p)]
    ELSE [ok |-> p \in {0, GetEnd(f)}, it |-> Iterator(0, 0, p)]

-----------------------------------------------------------------------------
(* One write *)

WStatus(s) == [kind |-> "status", val |-> s]
WSize(n) == [kind |-> "size", val |-> n]
WLimits(l) == [kind |-> "limits", val |-> l]
WIterator(it) == [kind |-> "iterator", val |-> it]
WState(p, s) == [kind |-> "state", pos |-> p, val |-> s]
WCell(c) == [kind |-> "cell", val |-> c]
WCut(p) == [kind |-> "cut", val |-> p]
WCopy == [kind |-> "copy"]
WHeader == [kind |-> "header"]

\* The cells up to position n - 1: a cut beyond the end pads the file.
Cut(cells, n) == [i \in 1..(n - 1) |-> IF i <= Len(cells) THEN cells[i] ELSE Hole]
Put(cells, p, c) ==
  [i \in 1..(IF p > Len(cells) THEN p ELSE Len(cells)) |->
     IF i = p THEN c ELSE IF i <= Len(cells) THEN cells[i] ELSE Hole]

\* writeIterator does not refuse position 0, where the line it writes covers
\* the time stamp and the first digits of the size, which then reads as 0.
Apply(f, w) ==
  CASE w.kind = "status"   -> [f EXCEPT !.status = w.val]
    [] w.kind = "size"     -> [f EXCEPT !.size = w.val]
    [] w.kind = "limits"   -> [f EXCEPT !.limits = w.val]
    [] w.kind = "backup"   -> [f EXCEPT !.backup[w.pos] = w.val]
    [] w.kind = "limitsBackup" -> [f EXCEPT !.limitsBackup = w.val]
    [] w.kind = "reset"    -> [f EXCEPT !.backup = Blank.backup, !.limitsBackup = Blank.limitsBackup]
    [] w.kind = "iterator" -> IF w.val.pos = 0 THEN [f EXCEPT !.size = 0]
                              ELSE [f EXCEPT !.cells = Put(@, w.val.pos, IteratorCell(w.val))]
    [] w.kind = "state"    -> [f EXCEPT !.cells = Put(@, w.pos + 1, StateCell(w.val))]
    [] w.kind = "cell"     -> [f EXCEPT !.cells = Append(@, w.val)]
    [] w.kind = "cut"      -> IF w.val = 0 THEN Blank ELSE [f EXCEPT !.cells = Cut(@, w.val)]
    [] w.kind = "header"   -> [f EXCEPT !.header = TRUE]
    [] w.kind = "copy"     -> f

Run(f, ws) == FoldLeft(Apply, f, ws)

\* Programs: the writes a function of the code does on file f, and whether
\* it returns all_good.
Prog(ws, ok) == [ws |-> ws, ok |-> ok]

-----------------------------------------------------------------------------
(* The writes of the private functions *)

WriteIteratorBackup(what, it, status) ==
  <<[kind |-> "backup", pos |-> what, val |-> it], WStatus(status)>>

WriteLimitsBackup(status, l) ==
  <<[kind |-> "limitsBackup", val |-> l], WStatus(status)>>

CreateEmptyBackup(status) == <<[kind |-> "reset"], WStatus(status)>>

WriteDataHeader(it, state) == <<WIterator(it), WState(it.pos, state)>>

WriteDataHere(it, d, writing, written) ==
  <<WStatus(writing), WCell(IteratorCell(it)), WCell(StateCell("g")), WCell(DataCell(d)), WStatus(written)>>

CreateEmptyFile ==
  <<WSize(0), WStatus("opened")>> \o CreateEmptyBackup("empty")
    \o <<WLimits(Limits(HeaderSize, HeaderSize)), WHeader, WStatus("closed")>>

TruncateFile(p) ==
  <<WCut(p)>> \o (IF p = 0 THEN CreateEmptyFile ELSE <<>>) \o <<WStatus("ft_end")>>

EraseFile(p) == WriteIteratorBackup(0, Iterator(p, p, p), "ft_begin") \o TruncateFile(p)

\* The last entry in list order, which need not be the last in the file,
\* points to the end of the file.
ResetNextOfLast(f, status) ==
  LET last == ReadIterator(f, f.limits.next).it IN
  WriteIteratorBackup(2, last, status)
    \o <<WIterator([last EXCEPT !.next = GetEnd(f)])>>

AddDataAtEnd(f, d) ==
  LET end == GetEnd(f)
      last == ReadIterator(f, f.limits.next).it
      alone == f.limits.next = end
  IN (IF alone THEN <<>>
      ELSE WriteIteratorBackup(0, last, "ae_iterator")
             \o <<WIterator([last EXCEPT !.next = end])>>)
     \o WriteLimitsBackup("ae_limits", f.limits)
     \o <<WLimits([f.limits EXCEPT !.next = end])>>
     \o WriteDataHere(Iterator(IF alone THEN 0 ELSE last.pos, end + 3, end), d,
                      "ae_writing", "ae_written")

AddDataAtBegin(f, d) ==
  LET end == GetEnd(f)
      first == ReadIterator(f, f.limits.prev).it
      ws == WriteIteratorBackup(0, first, "ab_iterator")
              \o <<WIterator([first EXCEPT !.prev = end])>>
              \o WriteLimitsBackup("ab_limits", f.limits)
              \o <<WLimits([f.limits EXCEPT !.prev = end])>>
              \o WriteDataHere(Iterator(0, first.pos, end), d, "ab_writing", "ab_written")
  IN ws \o ResetNextOfLast(Run(f, ws), "ab_last")

AddDataInMiddle(f, d, where) ==
  LET end == GetEnd(f)
      after == ReadIterator(f, where).it
      before == ReadIterator(f, after.prev).it
      ws == WriteIteratorBackup(0, after, "am_iterator1")
              \o WriteIteratorBackup(1, before, "am_iterator2")
              \o <<WIterator([after EXCEPT !.prev = end]), WIterator([before EXCEPT !.next = end])>>
              \o WriteDataHere(Iterator(before.pos, where, end), d, "am_writing", "am_written")
  IN ws \o ResetNextOfLast(Run(f, ws), "am_last")

\* Mutant: the status is written before the value it speaks of.
MarkDataAsErasedMutant(it, status) ==
  <<WStatus(status), [kind |-> "backup", pos |-> 2, val |-> it]>> \o WriteDataHeader(it, "i")

MarkDataAsErased(it, status) ==
  WriteIteratorBackup(2, it, status) \o WriteDataHeader(it, "i")

-----------------------------------------------------------------------------
(* checkConsistency *)

\* From the first entry on to the last, counting the entries and the end of
\* the one that lies furthest in the file.
RECURSIVE Walk(_, _, _, _)
Visit(f, r, n, furthest) ==
  LET counted == CellIs(f, r.it.pos + 1, "state")
      n1 == IF counted THEN n + 1 ELSE n
      far == IF counted /\ r.it.pos + 3 > furthest THEN r.it.pos + 3 ELSE furthest
  IN IF ~r.ok \/ n1 > Len(f.cells) THEN [ok |-> FALSE]
     ELSE IF counted /\ r.it.pos = f.limits.next
            THEN [ok |-> TRUE, n |-> n1, last |-> r.it, furthest |-> far]
     ELSE IF r.it.next < HeaderSize \/ r.it.next >= GetEnd(f) THEN [ok |-> FALSE]
     ELSE Walk(f, r.it.next, n1, far)
Walk(f, p, n, furthest) == Visit(f, ReadIterator(f, p), n, furthest)

\* Mutant: the last entry of the list is taken for the last one of the file.
CutTailMutant(f, walk) ==
  IF walk.last.pos + 3 >= GetEnd(f) THEN <<>> ELSE TruncateFile(walk.last.pos + 3)

\* What lies beyond the furthest entry is cut off.
CutTail(f, walk) ==
  IF walk.furthest >= GetEnd(f) THEN <<>>
  ELSE TruncateFile(walk.furthest)
         \o (IF walk.last.next = walk.furthest THEN <<>>
             ELSE <<WIterator([walk.last EXCEPT !.next = walk.furthest])>>)

\* Mutant: a size that is too large is not corrected.
CorrectMutant(f, allowed, walk) ==
  LET off == walk.n - f.size
      fits == off > 0 /\ (off <= allowed \/ allowed = 0)
  IN (IF fits THEN <<WSize(walk.n)>> ELSE <<>>) \o CutTail(f, walk)

\* The size is corrected by no more than what is allowed.
Correct(f, allowed, walk) ==
  LET off == walk.n - f.size
      fits == \/ off > 0 /\ off <= allowed
              \/ off < 0 /\ off >= allowed
              \/ off # 0 /\ allowed = 0
  IN (IF fits THEN <<WSize(walk.n)>> ELSE <<>>) \o CutTail(f, walk)

Checked(f, allowed, walk) ==
  IF walk.ok THEN Prog(Correct(f, allowed, walk), TRUE) ELSE Prog(<<>>, FALSE)

CheckConsistency(f, allowed) == Checked(f, allowed, Walk(f, f.limits.prev, 0, 0))

-----------------------------------------------------------------------------
(* The writes of the operations *)

\* removeDataPointer, for the entry alone in the list, the last, the first
\* and one in the middle.
UnlinkOnly(f) ==
  LET check == IF f.size = 1 THEN Prog(<<>>, TRUE) ELSE CheckConsistency(f, 1 - f.size) IN
  Prog(check.ws \o (IF ~check.ok THEN <<>>
                    ELSE EraseFile(HeaderSize)
                           \o <<WLimits(Limits(HeaderSize, HeaderSize)), WHeader>>),
       check.ok)

UnlinkLast(f, it) ==
  LET prev == ReadIterator(f, it.prev).it IN
  WriteLimitsBackup("rd_limits", f.limits)
    \o <<WLimits([f.limits EXCEPT !.next = it.prev])>>
    \o WriteIteratorBackup(0, prev, "rd_iterator")
    \o <<WIterator([prev EXCEPT !.next = GetEnd(f)])>>
    \o MarkDataAsErased(it, "rd_mark1")

UnlinkFirst(f, it) ==
  LET next == ReadIterator(f, it.next).it IN
  WriteLimitsBackup("rd_limits", f.limits)
    \o <<WLimits([f.limits EXCEPT !.prev = it.next])>>
    \o WriteIteratorBackup(0, next, "rd_iterator")
    \o <<WIterator([next EXCEPT !.prev = 0])>>
    \o MarkDataAsErased(it, "rd_mark1")

UnlinkMiddle(f, it) ==
  LET next == ReadIterator(f, it.next).it
      prev == ReadIterator(f, it.prev).it
  IN WriteIteratorBackup(0, next, "rd_iterator2")
       \o WriteIteratorBackup(1, prev, "rd_iterator3")
       \o <<WIterator([next EXCEPT !.prev = prev.pos]), WIterator([prev EXCEPT !.next = next.pos])>>
       \o MarkDataAsErased(it, "rd_mark2")

RemoveDataPointer(f, it) ==
  LET last == it.next = GetEnd(f)
      first == it.prev = 0
  IN CASE last /\ first   -> UnlinkOnly(f)
       [] last /\ ~first  -> Prog(UnlinkLast(f, it), TRUE)
       [] ~last /\ first  -> Prog(UnlinkFirst(f, it), TRUE)
       [] ~last /\ ~first -> Prog(UnlinkMiddle(f, it), TRUE)

\* add_data before the entry at where, or at the end.
AddData(f, d, where) ==
  <<WStatus("opened")>>
    \o (IF where = GetEnd(f) THEN AddDataAtEnd(f, d)
        ELSE IF where = f.limits.prev THEN AddDataAtBegin(f, d)
        ELSE AddDataInMiddle(f, d, where))
    \o CreateEmptyBackup("ad_empty")
    \o <<WSize(f.size + 1), WStatus("closed")>>

\* remove_data of the entry at where; a size of 0 is corrected first.
RemoveData(f, where) ==
  LET r == RemoveDataPointer(f, ReadIterator(f, where).it)
      ws == <<WStatus("opened")>> \o r.ws
      reset == ws \o CreateEmptyBackup("rd_empty")
      f1 == Run(f, reset)
      check == CheckConsistency(f1, 0)
  IN IF ~r.ok THEN Prog(ws, FALSE)
     ELSE IF f1.size > 0
            THEN Prog(reset \o <<WSize(f1.size - 1), WStatus("closed")>>, TRUE)
     ELSE IF ~check.ok THEN Prog(reset \o check.ws, FALSE)
     ELSE Prog(reset \o check.ws \o <<WSize(Run(f1, check.ws).size), WStatus("closed")>>, TRUE)

\* truncate, which the FileList calls clear.
Truncate == EraseFile(0)

-----------------------------------------------------------------------------
(* recover_data *)

\* The steps of each status; a case of the switch falls through to the next
\* one unless it fails.
RecoverySteps(status) ==
  CASE status \in {"ae_writing", "ae_written"} -> <<"cutNext", "limits", "iterator0", "checkAdd">>
    [] status = "ae_limits"    -> <<"limits", "iterator0", "checkAdd">>
    [] status = "ae_iterator"  -> <<"iterator0", "checkAdd">>
    [] status = "ab_last"      -> <<"iterator2", "cutPrev", "limits", "iterator0", "checkAdd">>
    [] status \in {"ab_writing", "ab_written"} -> <<"cutPrev", "limits", "iterator0", "checkAdd">>
    [] status = "ab_limits"    -> <<"limits", "iterator0", "checkAdd">>
    [] status = "ab_iterator"  -> <<"iterator0", "checkAdd">>
    [] status = "am_last"      -> <<"iterator2", "cutMiddle", "iterator1", "iterator0", "checkAdd">>
    [] status \in {"am_writing", "am_written"} -> <<"cutMiddle", "iterator1", "iterator0", "checkAdd">>
    [] status = "am_iterator2" -> <<"iterator1", "iterator0", "checkAdd">>
    [] status = "am_iterator1" -> <<"iterator0", "checkAdd">>
    [] status = "ad_empty"     -> <<"checkAdd">>
    [] status = "rd_mark1"     -> <<"unerase", "iterator0", "limits", "checkRemove">>
    [] status = "rd_iterator"  -> <<"iterator0", "limits", "checkRemove">>
    [] status = "rd_limits"    -> <<"limits", "checkRemove">>
    [] status = "rd_mark2"     -> <<"unerase", "iterator1", "iterator0", "checkRemove">>
    [] status = "rd_iterator3" -> <<"iterator1", "iterator0", "checkRemove">>
    [] status = "rd_iterator2" -> <<"iterator0", "checkRemove">>
    [] status = "rd_empty"     -> <<"checkRemove">>
    [] status = "ft_begin"     -> <<"cutErased">>
    [] status = "empty"        -> <<"empty">>
    [] status \in {"opened", "ft_end"} -> <<>>

RecoveryStep(f, step) ==
  LET middle == ReadIterator(f, f.backup[0].pos) IN
  CASE step = "cutNext"     -> Prog(TruncateFile(f.limits.next), TRUE)
    [] step = "cutPrev"     -> Prog(TruncateFile(f.limits.prev), TRUE)
    [] step = "cutMiddle"   -> IF middle.ok THEN Prog(TruncateFile(middle.it.prev), TRUE)
                               ELSE Prog(<<>>, FALSE)
    [] step = "cutErased"   -> Prog(TruncateFile(f.backup[0].pos), TRUE)
    [] step = "limits"      -> Prog(<<WLimits(f.limitsBackup)>>, TRUE)
    [] step = "iterator0"   -> Prog(<<WIterator(f.backup[0])>>, TRUE)
    [] step = "iterator1"   -> Prog(<<WIterator(f.backup[1])>>, TRUE)
    [] step = "iterator2"   -> Prog(<<WIterator(f.backup[2])>>, TRUE)
    [] step = "unerase"     -> IF CellIs(f, f.backup[2].pos + 1, "state") /\ f.backup[2].pos # 0
                                 THEN Prog(WriteDataHeader(f.backup[2], "g"), TRUE)
                                 ELSE Prog(<<>>, FALSE)
    [] step = "checkAdd"    -> CheckConsistency(f, 1)
    [] step = "checkRemove" -> CheckConsistency(f, -1)
    [] step = "empty"       -> Prog(<<WStatus("closed")>>
                                      \o (IF f.size = 0 /\ f.limits.prev # GetEnd(f)
                                            THEN EraseFile(0) ELSE <<>>), TRUE)

RECURSIVE RunSteps(_, _)
RunSteps(f, steps) ==
  IF steps = <<>> THEN Prog(<<>>, TRUE)
  ELSE LET r == RecoveryStep(f, Head(steps))
           rest == RunSteps(Run(f, r.ws), Tail(steps))
       IN IF r.ok THEN Prog(r.ws \o rest.ws, rest.ok) ELSE r

\* initContainer: a header that cannot be read is an error, a status other
\* than closed is recovered.
InitContainer(f) ==
  IF ~f.header THEN Prog(<<>>, FALSE)
  ELSE IF f.status = "closed" THEN Prog(<<>>, TRUE)
  ELSE LET r == RunSteps(f, RecoverySteps(f.status)) IN
       Prog(<<WCopy>> \o r.ws \o (IF r.ok THEN <<WStatus("closed")>> ELSE <<>>), r.ok)

-----------------------------------------------------------------------------
(* Reading the list *)

\* The positions that next leads through from p, as long as they are entries,
\* and those that prev leads through.
RECURSIVE Forward(_, _, _), Backward(_, _, _)
Forward(f, p, n) ==
  IF n = 0 \/ ~CellIs(f, p, "iterator") THEN <<>>
  ELSE <<p>> \o Forward(f, f.cells[p].next, n - 1)
Backward(f, p, n) ==
  IF n = 0 \/ ~CellIs(f, p, "iterator") THEN <<>>
  ELSE Append(Backward(f, f.cells[p].prev, n - 1), p)

Positions(f) == Forward(f, f.limits.prev, Len(f.cells))
Entries(f) == [i \in DOMAIN Positions(f) |->
                 IF CellIs(f, Positions(f)[i] + 2, "data")
                   THEN f.cells[Positions(f)[i] + 2].val ELSE None]

\* compact_data: copy, erase and add everything again.
RECURSIVE AddAll(_, _)
AddAll(f, ds) ==
  IF ds = <<>> THEN <<>>
  ELSE LET ws == AddDataAtEnd(f, Head(ds)) IN ws \o AddAll(Run(f, ws), Tail(ds))

CompactData(f) ==
  LET erased == <<WCopy>> \o EraseFile(0) \o <<WStatus("opened")>>
      ds == Entries(f)
  IN erased \o AddAll(Run(f, erased), ds) \o CreateEmptyBackup("empty")
       \o <<WSize(Len(ds)), WStatus("closed")>>

\* update_pointer of the IdContainer: the entry is erased and added at the end.
UpdatePointer(f, where, d) ==
  LET r == RemoveData(f, where)
      f1 == Run(f, r.ws)
  IN IF r.ok THEN Prog(r.ws \o AddData(f1, d, GetEnd(f1)), TRUE) ELSE r

-----------------------------------------------------------------------------
(* The process that uses the container *)

Init ==
  /\ file = Empty
  /\ copy = <<>>
  /\ op = "none"
  /\ todo = <<>>
  /\ failed = FALSE
  /\ list = <<>> /\ goal = <<>> /\ wounds = {}
  /\ ops = 0 /\ crashes = 0

Begin(name, prog, result) ==
  /\ name \in Ops
  /\ op = "none"
  /\ ops < MaxOps
  /\ ops' = ops + 1
  /\ op' = IF prog.ok THEN name ELSE "error"
  /\ todo' = prog.ws
  /\ goal' = result
  /\ UNCHANGED <<file, copy, failed, list, wounds, crashes>>

\* insertData of the FileList: before the i-th entry or at the end.  The
\* data are opaque to the container: every entry holds the number of the
\* operation that added it.
Insert ==
  LET ps == Positions(file)
      d == ops + 1
  IN \E i \in 1..(Len(ps) + 1) :
    Begin(IF ps = <<>> THEN "first" ELSE "add",
          Prog(AddData(file, d, IF i <= Len(ps) THEN ps[i] ELSE GetEnd(file)), TRUE),
          InsertAt(Entries(file), i, d))

\* erasePointer of the FileList.
Erase ==
  LET ps == Positions(file) IN
  \E i \in DOMAIN ps :
    Begin(IF Len(ps) = 1 THEN "only" ELSE "remove",
          RemoveData(file, ps[i]), RemoveAt(Entries(file), i))

Update ==
  LET ps == Positions(file) IN
  \E i \in DOMAIN ps :
    Begin("update", UpdatePointer(file, ps[i], Entries(file)[i]),
          Append(RemoveAt(Entries(file), i), Entries(file)[i]))

Clear == Begin("truncate", Prog(Truncate, TRUE), <<>>)

Compact == Begin("compact", Prog(CompactData(file), TRUE), list)

\* The next write; the last one ends the operation or the recovery.
Write ==
  /\ todo # <<>>
  /\ file' = Apply(file, Head(todo))
  /\ copy' = IF Head(todo).kind = "copy" THEN Entries(file) ELSE copy
  /\ todo' = Tail(todo)
  /\ IF Tail(todo) # <<>> THEN UNCHANGED <<op, failed, list, goal>>
     ELSE /\ op' = IF op = "error" THEN "down" ELSE "none"
          /\ failed' = (op = "error")
          /\ list' = IF op \notin {"recover", "error"} \/ Entries(file') = goal THEN goal ELSE list
          /\ goal' = IF op = "error" THEN goal ELSE list'
  /\ UNCHANGED <<wounds, ops, crashes>>

\* createEmptyBackup has reset the journal and the status still asks for it.
ResetPending == todo # <<>> /\ Head(todo).kind = "status" /\ file.backup = Blank.backup
                /\ Head(todo).val \in {"ad_empty", "rd_empty"}

\* Ghost: what the journal does not protect.  checkConsistency fails on a list
\* that is or becomes empty ("alone"), a file that has been cut to nothing
\* has no header, compact_data has the entries in the .bak file alone and
\* update_pointer erases the entry before it adds it again.
Window ==
  CASE ResetPending -> {"reset"}
    [] op \in {"recover", "error"} -> {"recovery"}
    [] op = "compact" -> {"compact"}
    [] op = "truncate" /\ ~file.header -> {"erase"}
    [] \/ op \in {"first", "only"} /\ file.status \notin {"closed", "opened", "ad_empty"}
       \/ op = "update" /\ Len(list) = 1 -> {"alone"}
    [] op = "update" -> {"update"}
    [] OTHER -> {}

Crash ==
  /\ todo # <<>>
  /\ crashes < MaxCrashes
  /\ crashes' = crashes + 1
  /\ op' = "down"
  /\ todo' = <<>>
  /\ wounds' = wounds \cup Window
  /\ UNCHANGED <<file, copy, failed, list, goal, ops>>

\* The first access of the next process, which ends when it fails.
Restart ==
  /\ op = "down"
  /\ LET r == InitContainer(file)
         now == r.ws = <<>>
     IN /\ todo' = r.ws
        /\ op' = IF now THEN (IF r.ok THEN "none" ELSE "down")
                 ELSE (IF r.ok THEN "recover" ELSE "error")
        /\ failed' = (now /\ ~r.ok)
        /\ list' = IF now /\ r.ok /\ Entries(file) = goal THEN goal ELSE list
        /\ goal' = IF now /\ r.ok THEN list' ELSE goal
  /\ UNCHANGED <<file, copy, wounds, ops, crashes>>

Next == Insert \/ Erase \/ Update \/ Clear \/ Compact \/ Write \/ Crash \/ Restart

Spec == Init /\ [][Next]_vars

-----------------------------------------------------------------------------
(* Properties *)

Statuses == {None, "closed", "opened", "empty", "ft_begin", "ft_end",
             "ae_iterator", "ae_limits", "ae_writing", "ae_written",
             "ab_iterator", "ab_limits", "ab_writing", "ab_written", "ab_last",
             "am_iterator1", "am_iterator2", "am_writing", "am_written", "am_last", "ad_empty",
             "rd_limits", "rd_iterator", "rd_iterator2", "rd_iterator3",
             "rd_mark1", "rd_mark2", "rd_empty"}

\* Types of the state.
TypeOK ==
  /\ file.status \in Statuses
  /\ file.size \in Nat
  /\ \A i \in 1..Len(file.cells) : file.cells[i].is \in {"iterator", "state", "data"}
  /\ op \in Ops \cup {"none", "down", "recover", "error"}
  /\ (op \in {"none", "down"}) = (todo = <<>>)
  /\ list \in Seq(1..MaxOps) /\ goal \in Seq(1..MaxOps)

\* Between operations the list can be walked both ways: next leads from the
\* first entry of the limits to the last one and from there to the end of
\* the file, prev leads back to the first one, and no entry on the way is
\* marked as erased; an empty list leaves nothing but the header.  The size in
\* the header, which remove_data and size() take at its word, is the number of
\* entries.  This outlives a death of the process outside the windows.
WellFormed ==
  op = "none" /\ wounds \subseteq {"update"} =>
    LET ps == Positions(file) IN
    /\ file.size = Len(ps)
    /\ IF ps = <<>> THEN file.limits = Limits(HeaderSize, HeaderSize) /\ file.cells = <<>>
       ELSE /\ Last(ps) = file.limits.next
            /\ file.cells[Last(ps)].next = GetEnd(file)
            /\ Backward(file, file.limits.next, Len(file.cells)) = ps
            /\ \A i \in DOMAIN ps : file.cells[ps[i] + 1] = StateCell("g")

\* Between operations the list has the entries its users put there: an
\* operation that returned has had its effect, one during which the process
\* died, outside the windows, has had all of it or none.
Atomic == op = "none" /\ wounds = {} => Entries(file) = list

\* A process that died in an operation, outside the windows, leaves a
\* container that its successor can recover and use: no access fails.
Recovers == wounds \subseteq {"update"} => ~failed
=============================================================================
