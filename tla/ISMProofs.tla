----------------------------- MODULE ISMProofs -----------------------------
(***************************************************************************)
(* Proofs, for any number of matchers and any tables, of what the double   *)
(* buffering of the ISM does guarantee.                                    *)
(***************************************************************************)
EXTENDS ISM, FiniteSetTheorems, TLAPS

\* What the dark side holds at each step of a purchase, from which it follows
\* that a completed purchase is complete.
DarkContents ==
  /\ pc \in {"wait", "clear_se", "sleep"} => bought = {}
  /\ pc = "clear_se" => ism[dark_side] \cap CEs = {}
  /\ pc = "fetch" => ism[dark_side] = bought
  /\ pc = "populate" => ism[dark_side] \cup todo = bought

\* The inductive invariant.
IInv == TypeOK /\ DarkContents /\ ActiveSideComplete /\ LastMatcherProtected

\* The dark side is a side, and never the active one.
LEMMA DarkSide ==
  ASSUME s_active_side \in Sides \cup {NoSide}
  PROVE  /\ dark_side \in Sides /\ active_side \in Sides
         /\ dark_side # s_active_side
<1>1. CASE s_active_side = NoSide
  BY <1>1 DEF dark_side, active_side, Sides, NoSide
<1>2. CASE s_active_side = 0
  <2>1. (0 + 1) % 2 = 1
    OBVIOUS
  <2>. QED BY <1>2, <2>1 DEF dark_side, active_side, Sides, NoSide
<1>3. CASE s_active_side = 1
  <2>1. (1 + 1) % 2 = 0
    OBVIOUS
  <2>. QED BY <1>3, <2>1 DEF dark_side, active_side, Sides, NoSide
<1>. QED BY <1>1, <1>2, <1>3 DEF Sides

\* The purchaser leaves its wait only when nobody is counted on the dark side.
LEMMA NobodyCounted ==
  ASSUME TypeOK, NEW s \in Sides, matching_threads(s) = 0
  PROVE  s_matching_threads[s] = {}
<1>1. IsFiniteSet(s_matching_threads[s])
  BY ISMAssumption, FS_Subset DEF TypeOK
<1>. QED BY <1>1, FS_EmptySet DEF matching_threads

-----------------------------------------------------------------------------
\* Type correctness is inductive by itself.
LEMMA TypeStep == ASSUME TypeOK, [Next]_vars PROVE TypeOK'
<1>. USE DarkSide DEF TypeOK, store, matchers, purchaser, updater
<1>1. CASE UNCHANGED vars
  BY <1>1 DEF vars
<1>2. ASSUME NEW m \in Matchers, BeginMatch(m) PROVE TypeOK'
  BY <1>2 DEF BeginMatch, match_on_active_side
<1>3. ASSUME NEW m \in Matchers, MatchEntry(m) \/ EndMatch(m) PROVE TypeOK'
  BY <1>3 DEF MatchEntry, EndMatch
<1>4. CASE ClearCE \/ ClearSE
  BY <1>4 DEF ClearCE, ClearSE
<1>5. CASE Fetch \/ PurchaseFails
  BY <1>5 DEF Fetch, PurchaseFails
<1>6. CASE Populate
  BY <1>6 DEF Populate
<1>7. CASE NextSchema
  BY <1>7, ISMAssumption DEF NextSchema
<1>8. CASE Switch
  <2>1. s_active_side' = dark_side
    BY <1>8 DEF Switch, switch_active_side, dark_side
  <2>. QED BY <1>8, <2>1 DEF Switch
<1>9. CASE Sleep
  <2>1. started' \in BOOLEAN
    BY <1>9, Zenon DEF Sleep
  <2>2. UNCHANGED <<s_active_side, s_matching_threads, ism, void, side, slice,
                    seen, schema, todo, bought, snapshot, upd, uslice, ubegin,
                    uend, useen>>
    BY <1>9 DEF Sleep
  <2>. QED BY <1>9, <2>1, <2>2 DEF Sleep
<1>10. CASE UpdateEnd \/ UpdateBegin
  BY <1>10 DEF UpdateEnd, UpdateBegin
<1>11. CASE UpdateEntry
  BY <1>11 DEF UpdateEntry
<1>12. CASE UpdateDone \/ UpdateLost
  BY <1>12 DEF UpdateDone, UpdateLost, Sides
<1>. QED BY <1>1, <1>2, <1>3, <1>4, <1>5, <1>6, <1>7, <1>8, <1>9, <1>10, <1>11,
            <1>12 DEF Next, Purchase, Update

\* The contents of the dark side, and of the active one.
LEMMA ContentsStep ==
  ASSUME IInv, [Next]_vars PROVE DarkContents' /\ ActiveSideComplete'
<1>. USE DarkSide DEF IInv, TypeOK, DarkContents, ActiveSideComplete, Writing,
                      store, matchers, purchaser, updater, NoSide
<1>1. CASE UNCHANGED <<s_active_side, ism, pc, todo, bought, snapshot>>
  BY <1>1 DEF dark_side
<1>2. ASSUME NEW m \in Matchers, BeginMatch(m) \/ MatchEntry(m) \/ EndMatch(m)
      PROVE  DarkContents' /\ ActiveSideComplete'
  BY <1>1, <1>2 DEF BeginMatch, MatchEntry, EndMatch
<1>3. CASE Update
  BY <1>1, <1>3 DEF Update, UpdateEnd, UpdateBegin, UpdateEntry, UpdateDone,
                    UpdateLost
<1>4. CASE s_active_side' = s_active_side
  <2>1. dark_side' = dark_side
    BY <1>4 DEF dark_side
  <2>2. CASE ClearCE
    BY <2>1, <2>2 DEF ClearCE
  <2>3. CASE ClearSE
    BY <2>1, <2>3 DEF ClearSE, Entries
  <2>4. CASE Fetch \/ PurchaseFails
    BY <2>1, <2>4 DEF Fetch, PurchaseFails
  <2>5. CASE Populate
    BY <2>1, <2>5 DEF Populate
  <2>6. CASE NextSchema \/ Sleep
    BY <2>1, <2>6 DEF NextSchema, Sleep
  <2>7. CASE Switch
    BY <1>4, <2>7 DEF Switch, switch_active_side, dark_side
  <2>. QED BY <1>1, <1>2, <1>3, <2>2, <2>3, <2>4, <2>5, <2>6, <2>7
           DEF Next, Purchase, vars
<1>5. CASE Switch
  <2>1. s_active_side' = dark_side
    BY <1>5 DEF Switch, switch_active_side, dark_side
  <2>. QED BY <1>5, <2>1 DEF Switch
<1>6. CASE ClearCE \/ ClearSE \/ Fetch \/ PurchaseFails \/ Populate \/ NextSchema
           \/ Sleep \/ UNCHANGED vars
  BY <1>4, <1>6 DEF ClearCE, ClearSE, Fetch, PurchaseFails, Populate, NextSchema,
                    Sleep, vars
<1>. QED BY <1>2, <1>3, <1>5, <1>6 DEF Next, Purchase

\* The matchers the counts cover.
LEMMA MatcherStep ==
  ASSUME IInv, [Next]_vars PROVE LastMatcherProtected'
<1>. USE DarkSide DEF IInv, TypeOK, LastMatcherProtected, Writing, store,
                      matchers, purchaser, updater
<1>1. CASE UNCHANGED <<s_active_side, s_matching_threads, ism, side, seen, pc>>
  BY <1>1 DEF dark_side
<1>2. ASSUME NEW m \in Matchers, BeginMatch(m) PROVE LastMatcherProtected'
  <2>1. dark_side' = dark_side /\ UNCHANGED <<ism, pc, s_active_side>>
    BY <1>2 DEF BeginMatch, dark_side
  <2>2. \A s \in Sides : m \notin s_matching_threads[s]
    BY <1>2 DEF BeginMatch, Sides, Idle
  <2>3. CASE s_active_side = NoSide
    BY <1>2, <2>1, <2>2, <2>3 DEF BeginMatch, match_on_active_side
  <2>4. CASE s_active_side # NoSide
    <3>1. active_side = s_active_side /\ s_active_side \in Sides
      BY <2>4 DEF active_side
    <3>2. ~Writing(s_active_side)
      BY <2>4 DEF ActiveSideComplete
    <3>. QED BY <1>2, <2>1, <2>2, <2>4, <3>1, <3>2
             DEF BeginMatch, match_on_active_side
  <2>. QED BY <2>3, <2>4
<1>3. ASSUME NEW m \in Matchers, MatchEntry(m) PROVE LastMatcherProtected'
  BY <1>3 DEF MatchEntry, dark_side
<1>4. ASSUME NEW m \in Matchers, EndMatch(m) PROVE LastMatcherProtected'
  BY <1>4 DEF EndMatch, dark_side
<1>5. CASE ClearCE
  <2>1. s_matching_threads[dark_side] = {}
    BY <1>5, NobodyCounted DEF ClearCE
  <2>2. dark_side' = dark_side
    BY <1>5 DEF ClearCE, dark_side
  <2>. QED BY <1>5, <2>1, <2>2 DEF ClearCE
<1>6. CASE ClearSE \/ Populate
  <2>1. s_matching_threads[dark_side] = {} /\ dark_side' = dark_side
    BY <1>6 DEF ClearSE, Populate, dark_side
  <2>. QED BY <1>6, <2>1 DEF ClearSE, Populate
<1>7. CASE Fetch \/ PurchaseFails \/ NextSchema \/ Sleep
  BY <1>7 DEF Fetch, PurchaseFails, NextSchema, Sleep, dark_side
<1>8. CASE Switch
  BY <1>8 DEF Switch
<1>9. CASE Update
  BY <1>1, <1>9 DEF Update, UpdateEnd, UpdateBegin, UpdateEntry, UpdateDone,
                    UpdateLost
<1>10. CASE UNCHANGED vars
  BY <1>1, <1>10 DEF vars
<1>. QED BY <1>2, <1>3, <1>4, <1>5, <1>6, <1>7, <1>8, <1>9, <1>10
         DEF Next, Purchase

-----------------------------------------------------------------------------
\* IInv holds in every reachable state.
THEOREM Invariance == Spec => []IInv
<1>1. Init => IInv
  <2>1. SUFFICES ASSUME Init PROVE IInv
    OBVIOUS
  <2>2. started \in BOOLEAN
    BY <2>1, Zenon DEF Init
  <2>3. TypeOK
    BY <2>1, <2>2 DEF Init, TypeOK, Sides
  <2>4. DarkContents /\ ActiveSideComplete /\ LastMatcherProtected
    BY <2>1 DEF Init, DarkContents, ActiveSideComplete, LastMatcherProtected
  <2>. QED BY <2>3, <2>4 DEF IInv
<1>2. IInv /\ [Next]_vars => IInv'
  BY TypeStep, ContentsStep, MatcherStep DEF IInv
<1>. QED BY <1>1, <1>2, PTL DEF Spec

\* The active side always holds one complete purchase, whatever fails.
THEOREM ActiveIsComplete == Spec => []ActiveSideComplete
BY Invariance, PTL DEF IInv

\* The matcher counted on a side keeps it unchanged until it has finished, for
\* any number of concurrent matchers.
THEOREM CountedMatcherIsSafe == Spec => []LastMatcherProtected
BY Invariance, PTL DEF IInv
=============================================================================
