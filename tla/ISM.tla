-------------------------------- MODULE ISM --------------------------------
(***************************************************************************)
(* The information supermarket: two copies ("sides") of the tables that    *)
(* describe the computing and the storage elements.  Worker threads match  *)
(* jobs against the active side while the purchaser refills the dark one   *)
(* and then switches.  The purchaser must wait for the threads that still  *)
(* read the side it is about to clear; it counts them through the          *)
(* references to a shared_ptr per side.                                    *)
(***************************************************************************)
EXTENDS Integers, FiniteSets

CONSTANTS Matchers,   \* worker threads, as far as they read the ISM
          CEs, SEs,   \* entries of the two slices, ism::ce and ism::se
          Schemas,    \* how many of GLUE 1.3 and GLUE 2.0 are purchased
          FirstMayFail \* the synchronous purchase at start-up may fail

Sides   == {0, 1}
Entries == CEs \cup SEs
NoSide  == -1         \* s_active_side before the first purchase
Idle    == -2         \* a matcher that holds no side

ASSUME ISMAssumption == /\ CEs \cap SEs = {}
                        /\ IsFiniteSet(Matchers)
                        /\ Schemas \in {1, 2} /\ FirstMayFail \in BOOLEAN

VARIABLES s_active_side,
          s_matching_threads, \* the matchers that share a side's shared_ptr
          ism,                \* the entries of each side
          void,               \* those whose expiry time was set to -1
          side, slice, seen,  \* of a matcher: what it iterates, how far it is
          pc, schema, todo,   \* of the purchaser: step, schema, entries fetched
          bought, snapshot,   \* entries of this cycle; of the last switch
          started,            \* the worker threads exist
          upd, uslice,        \* the updater and the slice it is in,
          ubegin, uend, useen \* ... its two iterators

vars == <<s_active_side, s_matching_threads, ism, void, side, slice, seen, pc,
          schema, todo, bought, snapshot, started, upd, uslice, ubegin, uend, useen>>
store     == <<s_active_side, ism, void, snapshot>>
matchers  == <<side, slice, seen>>
purchaser == <<pc, schema, todo, bought, started>>
updater   == <<upd, uslice, ubegin, uend, useen>>

Init == /\ s_active_side = NoSide
        /\ s_matching_threads = [s \in Sides |-> {}]
        /\ ism = [s \in Sides |-> {}] /\ void = [s \in Sides |-> {}]
        /\ side = [m \in Matchers |-> Idle]
        /\ slice = [m \in Matchers |-> CEs]
        /\ seen = [m \in Matchers |-> {}]
        /\ pc = "wait" /\ schema = 1 /\ todo = {}
        /\ bought = {} /\ snapshot = {}
        /\ started = FALSE
        /\ upd = "idle" /\ uslice = CEs /\ ubegin = 0 /\ uend = 0 /\ useen = {}

-----------------------------------------------------------------------------
(* ism.cpp: the sides.                                                     *)

dark_side   == IF s_active_side = NoSide THEN 0 ELSE (s_active_side + 1) % 2
active_side == IF s_active_side = NoSide THEN 1 ELSE s_active_side

\* use_count() - 1, as far as the purchaser's test "> 0" can tell.
matching_threads(s) == Cardinality(s_matching_threads[s])

switch_active_side ==
  s_active_side' = IF s_active_side = NoSide THEN 0 ELSE (s_active_side + 1) % 2

\* The shared_ptr never points to anything, so that the test of line 82 always
\* succeeds and reset() gives the side a new count: the matchers that share the
\* old one are no longer counted.  Before the first purchase the reset hits
\* what lies before the array and the copy of an empty shared_ptr counts
\* nothing.
match_on_active_side(m) ==
  s_matching_threads' = IF s_active_side = NoSide THEN s_matching_threads
                        ELSE [s_matching_threads EXCEPT ![s_active_side] = {m}]

-----------------------------------------------------------------------------
(* The matchers: checkRequirement on the computing elements, the storage   *)
(* element look-ups of storage_utils and brokerinfo.                       *)

BeginMatch(m) == /\ started /\ side[m] = Idle
                 /\ match_on_active_side(m)
                 /\ side' = [side EXCEPT ![m] = active_side]
                 /\ \E k \in {CEs, SEs} : slice' = [slice EXCEPT ![m] = k]
                 /\ seen' = [seen EXCEPT ![m] = {}]
                 /\ UNCHANGED <<store, purchaser, updater>>

\* Mutant: a void entry is skipped without moving the iterator.
MatchEntryMutant(m) == /\ side[m] # Idle
                       /\ \E e \in (ism[side[m]] \cap slice[m]) \ seen[m] :
                            /\ e \notin void[side[m]]
                            /\ seen' = [seen EXCEPT ![m] = @ \cup {e}]
                       /\ UNCHANGED <<s_matching_threads, store, side, slice,
                                      purchaser, updater>>

\* The iterator goes to the next entry (a void one is skipped after a look).
MatchEntry(m) == /\ side[m] # Idle
                 /\ \E e \in (ism[side[m]] \cap slice[m]) \ seen[m] :
                      seen' = [seen EXCEPT ![m] = @ \cup {e}]
                 /\ UNCHANGED <<s_matching_threads, store, side, slice,
                                purchaser, updater>>

\* The end of the table is reached and the copy of the shared_ptr is destroyed.
EndMatch(m) == /\ side[m] # Idle
               /\ (ism[side[m]] \cap slice[m]) \subseteq seen[m]
               /\ s_matching_threads' =
                    [s_matching_threads EXCEPT ![side[m]] = @ \ {m}]
               /\ side' = [side EXCEPT ![m] = Idle]
               /\ slice' = [slice EXCEPT ![m] = CEs]
               /\ seen' = [seen EXCEPT ![m] = {}]
               /\ UNCHANGED <<store, purchaser, updater>>

-----------------------------------------------------------------------------
(* ism_ii_purchaser::operator().                                           *)

\* Mutant: the purchaser clears without waiting.
ClearCEMutant == /\ pc = "wait"
                 /\ ism' = [ism EXCEPT ![dark_side] = @ \ CEs]
                 /\ void' = [void EXCEPT ![dark_side] = @ \ CEs]
                 /\ pc' = "clear_se"
                 /\ UNCHANGED <<s_active_side, s_matching_threads, matchers,
                                schema, todo, bought, snapshot, started, updater>>

\* The wait for the matchers of the dark side, then the first clear.
ClearCE == /\ pc = "wait" /\ matching_threads(dark_side) = 0
           /\ ism' = [ism EXCEPT ![dark_side] = @ \ CEs]
           /\ void' = [void EXCEPT ![dark_side] = @ \ CEs]
           /\ pc' = "clear_se"
           /\ UNCHANGED <<s_active_side, s_matching_threads, matchers, schema,
                          todo, bought, snapshot, started, updater>>

ClearSE == /\ pc = "clear_se"
           /\ ism' = [ism EXCEPT ![dark_side] = @ \ SEs]
           /\ void' = [void EXCEPT ![dark_side] = @ \ SEs]
           /\ pc' = "fetch"
           /\ UNCHANGED <<s_active_side, s_matching_threads, matchers, schema,
                          todo, bought, snapshot, started, updater>>

\* fetch_bdii_info, then apply_skip_predicate: any set of entries.
Fetch == /\ pc = "fetch"
         /\ \E found \in SUBSET Entries :
              /\ todo' = found
              /\ bought' = bought \cup found
         /\ pc' = "populate"
         /\ UNCHANGED <<store, s_matching_threads, matchers, schema, started,
                        updater>>

\* Mutant: the switch is made although the purchase failed.
PurchaseFailsMutant ==
  /\ pc \in {"fetch", "populate"} /\ (started \/ FirstMayFail)
  /\ pc' = "sleep" /\ schema' = 1 /\ todo' = {} /\ bought' = {}
  /\ switch_active_side
  /\ UNCHANGED <<ism, void, snapshot, s_matching_threads, matchers, started,
                 updater>>

\* LDAPException, or any other while the side is filled: no switch.
PurchaseFails ==
  /\ pc \in {"fetch", "populate"} /\ (started \/ FirstMayFail)
  /\ pc' = "sleep" /\ schema' = 1 /\ todo' = {} /\ bought' = {}
  /\ UNCHANGED <<store, s_matching_threads, matchers, started, updater>>

\* populate_ism(ce), populate_ism(se), entry by entry; an entry that is there
\* already is merged.
Populate == /\ pc = "populate"
            /\ \E e \in todo :
                 /\ e \in SEs => todo \cap CEs = {}
                 /\ ism' = [ism EXCEPT ![dark_side] = @ \cup {e}]
                 /\ todo' = todo \ {e}
            /\ UNCHANGED <<s_active_side, void, snapshot, s_matching_threads,
                           matchers, pc, schema, bought, started, updater>>

NextSchema == /\ pc = "populate" /\ todo = {} /\ schema < Schemas
              /\ schema' = schema + 1 /\ pc' = "fetch"
              /\ UNCHANGED <<store, s_matching_threads, matchers, todo, bought,
                             started, updater>>

Switch == /\ pc = "populate" /\ todo = {} /\ schema = Schemas
          /\ switch_active_side
          /\ snapshot' = bought
          /\ pc' = "sleep" /\ schema' = 1 /\ bought' = {}
          /\ UNCHANGED <<s_matching_threads, ism, void, matchers, todo, started,
                         updater>>

\* The interval elapses, or an expired entry wakes the purchaser.  The first,
\* synchronous, purchase returns here and main() starts the threads.
Sleep == /\ pc = "sleep"
         /\ pc' = "wait" /\ started' = TRUE
         /\ UNCHANGED <<store, s_matching_threads, matchers, schema, todo,
                        bought, updater>>

-----------------------------------------------------------------------------
(* call_update_ism_entries: first the computing elements, then the storage *)
(* elements.  It is not counted among the matchers, and takes the end of   *)
(* the table before the beginning.                                         *)

UpdateEnd == /\ started /\ upd = "idle"
             /\ uend' = active_side /\ upd' = "begin"
             /\ UNCHANGED <<store, s_matching_threads, matchers, purchaser,
                            uslice, ubegin, useen>>

UpdateBegin == /\ upd = "begin"
               /\ ubegin' = active_side /\ upd' = "iterate" /\ useen' = {}
               /\ UNCHANGED <<store, s_matching_threads, matchers, purchaser,
                              uslice, uend>>

\* The update function of the II purchaser always fails: an expired entry
\* becomes void.  Whether an entry has expired depends on the time.
UpdateEntry == /\ upd = "iterate"
               /\ \E e \in (ism[ubegin] \cap uslice) \ useen :
                    /\ useen' = useen \cup {e}
                    /\ \/ void' = [void EXCEPT ![ubegin] = @ \cup {e}]
                       \/ UNCHANGED void
               /\ UNCHANGED <<s_active_side, ism, snapshot, s_matching_threads,
                              matchers, purchaser, upd, uslice, ubegin, uend>>

\* The loop ends at the end of the table.  With an end of the other side it
\* runs past it: undefined, taken to end somewhere or never.
UpdateDone == /\ upd = "iterate" /\ ism[ubegin] \cap uslice \subseteq useen
              /\ uslice' = IF uslice = CEs THEN SEs ELSE CEs
              /\ upd' = "idle" /\ ubegin' = 0 /\ uend' = 0 /\ useen' = {}
              /\ UNCHANGED <<store, s_matching_threads, matchers, purchaser>>

UpdateLost == /\ upd = "iterate" /\ ism[ubegin] \cap uslice \subseteq useen
              /\ uend # ubegin
              /\ upd' = "lost"
              /\ UNCHANGED <<store, s_matching_threads, matchers, purchaser,
                             uslice, ubegin, uend, useen>>

-----------------------------------------------------------------------------
Purchase == \/ ClearCE \/ ClearSE \/ Fetch \/ PurchaseFails \/ Populate
            \/ NextSchema \/ Switch \/ Sleep

Update == UpdateEnd \/ UpdateBegin \/ UpdateEntry \/ UpdateDone \/ UpdateLost

Next == \/ \E m \in Matchers : BeginMatch(m) \/ MatchEntry(m) \/ EndMatch(m)
        \/ Purchase \/ Update

\* The threads are scheduled; a match takes finite time.
Fairness == /\ \A m \in Matchers : WF_vars(MatchEntry(m) \/ EndMatch(m))
            /\ WF_vars(Purchase)

Spec     == Init /\ [][Next]_vars
LiveSpec == Spec /\ Fairness

-----------------------------------------------------------------------------
(* Properties.                                                             *)

\* The values the variables can have.
TypeOK ==
  /\ s_active_side \in Sides \cup {NoSide}
  /\ s_matching_threads \in [Sides -> SUBSET Matchers]
  /\ ism \in [Sides -> SUBSET Entries] /\ void \in [Sides -> SUBSET Entries]
  /\ side \in [Matchers -> Sides \cup {Idle}]
  /\ slice \in [Matchers -> {CEs, SEs}]
  /\ seen \in [Matchers -> SUBSET Entries]
  /\ pc \in {"wait", "clear_se", "fetch", "populate", "sleep"}
  /\ schema \in 1..2
  /\ todo \subseteq Entries /\ bought \subseteq Entries
  /\ snapshot \subseteq Entries
  /\ started \in BOOLEAN
  /\ upd \in {"idle", "begin", "iterate", "lost"}
  /\ uslice \in {CEs, SEs}
  /\ ubegin \in Sides /\ uend \in Sides /\ useen \subseteq Entries

\* The purchaser is changing this side.
Writing(s) == pc \in {"clear_se", "fetch", "populate"} /\ s = dark_side

\* Whoever asks for the ISM gets all of a successful purchase and nothing of
\* another one: a failed purchase, however far it got, is never switched to,
\* and what is active is not refilled.
ActiveSideComplete ==
  s_active_side # NoSide =>
    /\ ism[s_active_side] = snapshot
    /\ ~Writing(s_active_side)

\* The matcher that a side's count does cover, the last one to have called
\* match_on_active_side, keeps its side unchanged until it has finished.
LastMatcherProtected ==
  \A s \in Sides : \A m \in s_matching_threads[s] :
     /\ side[m] = s
     /\ ~Writing(s)
     /\ seen[m] \subseteq ism[s]

\* The purchaser does not wait for ever for the dark side to be left: nobody
\* can join the matchers of a side that is not active.
PurchaserProceeds == pc = "wait" ~> pc # "wait"
=============================================================================
