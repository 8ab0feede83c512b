--------------------------- MODULE PlanningProofs ---------------------------
(***************************************************************************)
(* Proofs about the suggestions (Replenishment), for any number of         *)
(* suggestions, engine runs and requests, and about the mapping rules and  *)
(* groups of shared stock they are computed from (StockSharing), for any   *)
(* number of rules, groups and requests.                                   *)
(***************************************************************************)
EXTENDS Replenishment, StockSharing, TLAPS

\* Most steps are first-order reasoning; those that need arithmetic or
\* updates of functions and records cite SMT.
USE Zenon

InLock(e) == epc[e] \in {"computing", "archiving"}

\* What the advisory lock gives: one run is inside, and the drafts its UPDATE
\* has found are all there are.
OneInside == \A e, f \in Engines : InLock(e) /\ InLock(f) => e = f
SeesAll == \A e \in Engines : epc[e] = "archiving" => Drafts \subseteq eseen[e]

\* Ids from nextSug on are unused, a run inside has room for one more, and a
\* delete request in flight names a suggestion that exists.
Fresh ==
    /\ \A s \in Sugs : s >= nextSug => sug[s] = "none"
    /\ \A e \in Engines : InLock(e) => nextSug <= MaxSugs
    /\ \A d \in Deleters : dpc[d] = "counted" => dsug[d] \in Sugs /\ dsug[d] < nextSug

RInv == TypeOK /\ OneInside /\ SeesAll /\ Fresh /\ AtMostOneDraft

\* Nothing is generated, nothing runs.
LEMMA InitRInv == Init => RInv
  BY SMT, CycleAssumption DEF Init, RInv, TypeOK, OneInside, SeesAll, Fresh, InLock, AtMostOneDraft,
     Drafts, Sugs, Kinds

\* No step but the commit of a run makes a suggestion a draft: when the drafts
\* do not grow and nobody enters the lock or renews its view, what the lock
\* gives is kept.
LEMMA NoNewDraft ==
    ASSUME RInv, TypeOK', Drafts' \subseteq Drafts, nextSug' = nextSug,
           \A e \in Engines : epc'[e] = epc[e] /\ eseen'[e] = eseen[e],
           \A s \in Sugs : s >= nextSug => sug'[s] = "none",
           \A d \in Deleters : dpc'[d] = "counted" => dsug'[d] \in Sugs /\ dsug'[d] < nextSug
    PROVE  RInv'
<1>1. OneInside' /\ SeesAll'
  BY DEF RInv, OneInside, SeesAll, InLock
<1>2. Fresh'
  BY DEF RInv, Fresh, InLock
<1>3. AtMostOneDraft'
  BY DEF RInv, AtMostOneDraft
<1> QED
  BY <1>1, <1>2, <1>3 DEF RInv

\* The engine's steps.
LEMMA EngineKeepsRInv ==
    ASSUME RInv, NEW e \in Engines, EngineStep(e)
    PROVE  RInv'
<1> USE CycleAssumption DEF RInv
<1>1. CASE EngineBegin(e)
  <2>1. TypeOK'
    BY <1>1 DEF EngineBegin, TypeOK
  <2>2. OneInside'
    BY <1>1, Zenon DEF EngineBegin, TypeOK, OneInside, InLock
  <2>3. SeesAll'
    BY <1>1 DEF EngineBegin, TypeOK, SeesAll, Drafts
  <2>4. Fresh'
    BY <1>1 DEF EngineBegin, TypeOK, Fresh, InLock
  <2>5. AtMostOneDraft'
    BY <1>1 DEF EngineBegin, AtMostOneDraft, Drafts
  <2> QED
    BY <2>1, <2>2, <2>3, <2>4, <2>5
<1>2. CASE EngineAborts(e)
  <2>1. TypeOK'
    BY <1>2 DEF EngineAborts, TypeOK
  <2>2. OneInside'
    BY <1>2 DEF EngineAborts, TypeOK, OneInside, InLock
  <2>3. SeesAll'
    BY <1>2 DEF EngineAborts, TypeOK, SeesAll, Drafts
  <2>4. Fresh'
    BY <1>2 DEF EngineAborts, TypeOK, Fresh, InLock
  <2>5. AtMostOneDraft'
    BY <1>2 DEF EngineAborts, AtMostOneDraft, Drafts
  <2> QED
    BY <2>1, <2>2, <2>3, <2>4, <2>5
<1>3. CASE EngineArchive(e)
  <2>1. TypeOK'
    BY <1>3 DEF EngineArchive, TypeOK, Drafts
  <2>2. OneInside'
    BY <1>3 DEF EngineArchive, TypeOK, OneInside, InLock
  <2>3. SeesAll'
    BY <1>3 DEF EngineArchive, TypeOK, SeesAll, Drafts
  <2>4. Fresh'
    BY <1>3 DEF EngineArchive, TypeOK, Fresh, InLock
  <2>5. AtMostOneDraft'
    BY <1>3 DEF EngineArchive, AtMostOneDraft, Drafts
  <2> QED
    BY <2>1, <2>2, <2>3, <2>4, <2>5
<1>4. CASE EnginePersist(e)
  <2>0. nextSug \in 1..(MaxSugs + 1)
    BY DEF TypeOK
  <2>1. nextSug \in Nat /\ nextSug >= 1
    BY SMT, <2>0
  <2>2. nextSug <= MaxSugs
    BY <1>4 DEF EnginePersist, Fresh, InLock
  <2>3. nextSug \in Sugs /\ nextSug' = nextSug + 1
    <3>1. nextSug \in Sugs
      BY SMT, <2>1, <2>2 DEF Sugs
    <3>2. nextSug' = nextSug + 1
      BY <1>4 DEF EnginePersist
    <3> QED
      BY <3>1, <3>2
  <2>4. TypeOK'
    <3>1. nextSug' \in 1..(MaxSugs + 1)
      BY SMT, <2>1, <2>2, <2>3
    <3>2. sug' \in [Sugs -> {"none", "draft", "archived", "deleted"}]
      BY <1>4 DEF EnginePersist, TypeOK
    <3>3. need' \in [Sugs -> SUBSET Kinds]
      BY <1>4 DEF EnginePersist, TypeOK
    <3>4. lost' \subseteq Sugs
      BY <1>4 DEF EnginePersist, TypeOK, Unexported, Drafts
    <3> QED
      BY <1>4, <3>1, <3>2, <3>3, <3>4 DEF EnginePersist, TypeOK
  <2>5. Drafts' \subseteq {nextSug}
    BY <1>4 DEF EnginePersist, SeesAll, Drafts
  <2>6. \A f \in Engines : ~InLock(f)'
    BY <1>4 DEF EnginePersist, OneInside, InLock, TypeOK
  <2>7. \A s \in Sugs : s >= nextSug' => sug'[s] = "none"
    <3> SUFFICES ASSUME NEW s \in Sugs, s >= nextSug' PROVE sug'[s] = "none"
      OBVIOUS
    <3>1. s # nextSug /\ s >= nextSug
      BY SMT, <2>1, <2>3 DEF Sugs
    <3> QED
      BY <1>4, <3>1 DEF EnginePersist, Fresh
  <2>8. \A d \in Deleters : dpc'[d] = "counted" => dsug'[d] \in Sugs /\ dsug'[d] < nextSug'
    <3> SUFFICES ASSUME NEW d \in Deleters, dpc'[d] = "counted"
                 PROVE  dsug'[d] \in Sugs /\ dsug'[d] < nextSug'
      OBVIOUS
    <3>1. dsug'[d] \in Sugs /\ dsug'[d] < nextSug
      BY <1>4 DEF EnginePersist, Fresh
    <3> QED
      BY SMT, <2>1, <2>3, <3>1 DEF Sugs
  <2>9. OneInside' /\ SeesAll' /\ Fresh'
    BY <2>6, <2>7, <2>8 DEF OneInside, SeesAll, Fresh, InLock
  <2> QED
    BY <2>4, <2>5, <2>9 DEF AtMostOneDraft
<1>5. CASE EngineToggleOff(e)
  <2>1. TypeOK'
    BY <1>5 DEF EngineToggleOff, TypeOK
  <2>2. OneInside'
    BY <1>5, ZenonT(30) DEF EngineToggleOff, TypeOK, OneInside, InLock
  <2>3. SeesAll'
    BY <1>5 DEF EngineToggleOff, TypeOK, SeesAll, Drafts
  <2>4. Fresh'
    BY <1>5 DEF EngineToggleOff, TypeOK, Fresh, InLock
  <2>5. AtMostOneDraft'
    BY <1>5 DEF EngineToggleOff, AtMostOneDraft, Drafts
  <2> QED
    BY <2>1, <2>2, <2>3, <2>4, <2>5
<1>6. CASE EngineDies(e)
  <2>1. TypeOK'
    BY <1>6 DEF EngineDies, TypeOK
  <2>2. OneInside'
    BY <1>6 DEF EngineDies, TypeOK, OneInside, InLock
  <2>3. SeesAll'
    BY <1>6 DEF EngineDies, TypeOK, SeesAll, Drafts
  <2>4. Fresh'
    BY <1>6 DEF EngineDies, TypeOK, Fresh, InLock
  <2>5. AtMostOneDraft'
    BY <1>6 DEF EngineDies, AtMostOneDraft, Drafts
  <2> QED
    BY <2>1, <2>2, <2>3, <2>4, <2>5
<1> QED
  BY <1>1, <1>2, <1>3, <1>4, <1>5, <1>6 DEF EngineStep

\* The toggle requests: they change no suggestion until they archive.
LEMMA TogglerKeepsRInv ==
    ASSUME RInv, NEW a \in Togglers,
           ToggleOff(a) \/ ToggleApprove(a) \/ ToggleScan(a) \/ ToggleOn(a)
    PROVE  RInv'
<1>0. \A s \in Sugs : s >= nextSug => sug[s] = "none"
  BY DEF RInv, Fresh
<1>1. \A d \in Deleters : dpc[d] = "counted" => dsug[d] \in Sugs /\ dsug[d] < nextSug
  BY DEF RInv, Fresh
<1>2. TypeOK
  BY DEF RInv
<1>3. CASE ToggleOff(a)
  <2>1. TypeOK'
    BY <1>2, <1>3 DEF ToggleOff, procs, TypeOK
  <2> QED
    BY <1>0, <1>1, <1>3, <2>1, NoNewDraft DEF ToggleOff, procs, Drafts
<1>4. CASE ToggleApprove(a)
  <2>1. TypeOK'
    BY <1>2, <1>4 DEF ToggleApprove, TypeOK
  <2> QED
    BY <1>0, <1>1, <1>4, <2>1, NoNewDraft DEF ToggleApprove, Drafts
<1>5. CASE ToggleScan(a)
  <2>1. TypeOK'
    BY <1>2, <1>5 DEF ToggleScan, TypeOK, Drafts
  <2> QED
    BY <1>0, <1>1, <1>5, <2>1, NoNewDraft DEF ToggleScan, Drafts
<1>6. CASE ToggleOn(a)
  <2>1. TypeOK'
    BY <1>2, <1>6 DEF ToggleOn, TypeOK, Unexported, Drafts
  <2>2. Drafts' \subseteq Drafts
    BY <1>6 DEF ToggleOn, Drafts
  <2>3. \A s \in Sugs : s >= nextSug => sug'[s] = "none"
    BY <1>0, <1>6 DEF ToggleOn
  <2> QED
    BY <1>1, <1>6, <2>1, <2>2, <2>3, NoNewDraft DEF ToggleOn
<1> QED
  BY <1>3, <1>4, <1>5, <1>6

\* Exports, archiving and deletion.
LEMMA UserKeepsRInv ==
    ASSUME RInv,
           \/ \E s \in Sugs, k \in Kinds : Export(s, k)
           \/ \E s \in Sugs : Archive(s)
           \/ \E d \in Deleters : DeleteCount(d) \/ DeleteRow(d)
    PROVE  RInv'
<1>0. \A s \in Sugs : s >= nextSug => sug[s] = "none"
  BY DEF RInv, Fresh
<1>1. \A d \in Deleters : dpc[d] = "counted" => dsug[d] \in Sugs /\ dsug[d] < nextSug
  BY DEF RInv, Fresh
<1>2. TypeOK
  BY DEF RInv
<1>3. ASSUME NEW s \in Sugs, NEW k \in Kinds, Export(s, k) PROVE RInv'
  <2>1. TypeOK'
    BY <1>2, <1>3 DEF Export, procs, TypeOK
  <2> QED
    BY <1>0, <1>1, <1>3, <2>1, NoNewDraft DEF Export, procs, Drafts
<1>4. ASSUME NEW s \in Sugs, Archive(s) PROVE RInv'
  <2>1. TypeOK'
    BY <1>2, <1>4 DEF Archive, procs, TypeOK
  <2>2. Drafts' \subseteq Drafts
    BY <1>2, <1>4 DEF Archive, Drafts, TypeOK
  <2>3. \A r \in Sugs : r >= nextSug => sug'[r] = "none"
    BY <1>0, <1>2, <1>4 DEF Archive, TypeOK
  <2> QED
    BY <1>1, <1>4, <2>1, <2>2, <2>3, NoNewDraft DEF Archive, procs
<1>5. ASSUME NEW d \in Deleters, DeleteCount(d) PROVE RInv'
  <2>1. PICK s \in Sugs : sug[s] \in {"draft", "archived"} /\ dsug' = [dsug EXCEPT ![d] = s]
    BY <1>5, Zenon DEF DeleteCount
  <2>2. dsug' \in [Deleters -> Sugs \cup {0}] /\ dpc' \in [Deleters -> {"idle", "counted"}]
    BY <1>2, <1>5, <2>1 DEF DeleteCount, TypeOK
  <2>3. TypeOK'
    BY <1>2, <1>5, <2>2 DEF DeleteCount, TypeOK
  <2>4. nextSug \in 1..(MaxSugs + 1)
    BY <1>2 DEF TypeOK
  <2>5. s < nextSug
    BY SMT, <1>0, <2>1, <2>4, CycleAssumption DEF Sugs
  <2>6. \A c \in Deleters : dpc'[c] = "counted" => dsug'[c] \in Sugs /\ dsug'[c] < nextSug
    BY <1>1, <1>2, <1>5, <2>1, <2>5 DEF DeleteCount, TypeOK
  <2> QED
    BY <1>0, <1>5, <2>3, <2>6, NoNewDraft DEF DeleteCount, Drafts
<1>6. ASSUME NEW d \in Deleters, DeleteRow(d) PROVE RInv'
  <2>0. dsug[d] \in Sugs /\ dsug[d] < nextSug
    BY <1>1, <1>6 DEF DeleteRow
  <2>1. TypeOK'
    BY <1>2, <1>6 DEF DeleteRow, TypeOK
  <2>2. /\ sug \in [Sugs -> {"none", "draft", "archived", "deleted"}]
        /\ sug' = [sug EXCEPT ![dsug[d]] = "deleted"]
    BY <1>2, <1>6 DEF DeleteRow, TypeOK
  <2>3. /\ dpc \in [Deleters -> {"idle", "counted"}] /\ dpc' = [dpc EXCEPT ![d] = "idle"]
        /\ dsug \in [Deleters -> Sugs \cup {0}] /\ dsug' = [dsug EXCEPT ![d] = 0]
    BY <1>2, <1>6 DEF DeleteRow, TypeOK
  <2>4. Drafts' \subseteq Drafts
    BY <2>0, <2>2 DEF Drafts
  <2>5. nextSug \in 1..(MaxSugs + 1)
    BY <1>2 DEF TypeOK
  <2>6. \A r \in Sugs : r >= nextSug => r # dsug[d]
    BY SMT, <2>0, <2>5, CycleAssumption DEF Sugs
  <2>7. \A r \in Sugs : r >= nextSug => sug'[r] = "none"
    BY <1>0, <2>2, <2>6
  <2>8. \A c \in Deleters : dpc'[c] = "counted" => dsug'[c] \in Sugs /\ dsug'[c] < nextSug
    <3> SUFFICES ASSUME NEW c \in Deleters, dpc'[c] = "counted"
                 PROVE  dsug'[c] \in Sugs /\ dsug'[c] < nextSug
      OBVIOUS
    <3>1. c # d /\ dpc[c] = "counted" /\ dsug'[c] = dsug[c]
      BY <2>3
    <3> QED
      BY <1>1, <3>1
  <2> QED
    BY <1>6, <2>1, <2>4, <2>7, <2>8, NoNewDraft DEF DeleteRow
<1> QED
  BY <1>3, <1>4, <1>5, <1>6

\* Every step keeps it.
LEMMA NextKeepsRInv == RInv /\ [Next]_vars => RInv'
<1> SUFFICES ASSUME RInv, [Next]_vars PROVE RInv'
  OBVIOUS
<1>1. CASE UNCHANGED vars
  BY <1>1 DEF vars, procs, RInv, TypeOK, OneInside, SeesAll, Fresh, InLock, AtMostOneDraft, Drafts
<1>2. CASE Next
  BY <1>2, EngineKeepsRInv, TogglerKeepsRInv, UserKeepsRInv DEF Next
<1> QED
  BY <1>1, <1>2

\* For any number of runs and requests, the types and what the lock gives hold.
THEOREM CycleInvariant == Spec => []RInv
  BY InitRInv, NextKeepsRInv, PTL DEF Spec

\* For any number of runs and requests at most one suggestion is a draft.
THEOREM AtMostOneDraftTheorem == Spec => []AtMostOneDraft
<1>1. RInv => AtMostOneDraft
  BY DEF RInv
<1> QED
  BY <1>1, CycleInvariant, PTL

-----------------------------------------------------------------------------
\* What holds as long as none of the three excuses has happened.  A run is in
\* the lock only while there is no draft, and never together with a run that
\* waits for its second transaction; while a toggle request is under way,
\* every draft is exported, and what it has found are all the drafts.
Undisturbed ==
    /\ lost = {}
    /\ \A e, f \in Engines : InLock(e) => Drafts = {} /\ epc[f] # "persisted"
    /\ \A a \in Togglers : apc[a] # "idle" => Unexported = {}
    /\ \A a \in Togglers : apc[a] = "scanned" => Drafts \subseteq aseen[a]
    /\ Drafts # {} /\ toggle = "on" => \E e \in Engines : epc[e] = "persisted"

Clean == excuse = {} => Undisturbed

\* No suggestion, no run, no request.
LEMMA InitClean == Init => Clean
  BY DEF Init, Clean, Undisturbed, Drafts, Unexported, InLock

\* A step of users that makes no draft and leaves no draft less exported.
LEMMA UserKeepsClean ==
    ASSUME Clean, Drafts' \subseteq Drafts, Unexported' \subseteq Unexported,
           UNCHANGED <<epc, apc, aseen, lost, excuse>>, toggle' = "on" => toggle = "on"
    PROVE  Clean'
<1> SUFFICES ASSUME excuse = {} PROVE Undisturbed'
  BY DEF Clean
<1>1. Undisturbed
  BY DEF Clean
<1> QED
  BY <1>1 DEF Undisturbed, InLock

\* The engine's steps.
LEMMA EngineKeepsClean ==
    ASSUME RInv, Clean, NEW e \in Engines, EngineStep(e)
    PROVE  Clean'
<1> SUFFICES ASSUME excuse' = {} PROVE Undisturbed'
  BY DEF Clean
<1>0. epc \in [Engines -> {"idle", "computing", "archiving", "persisted"}]
  BY DEF RInv, TypeOK
<1>1. CASE EngineBegin(e)
  <2>1. excuse = {} /\ \A f \in Engines : epc[f] # "persisted"
    BY <1>1 DEF EngineBegin
  <2>2. Undisturbed
    BY <2>1 DEF Clean
  <2>3. Drafts = {} /\ Drafts' = {} /\ Unexported' = Unexported
    BY <1>1, <2>1, <2>2 DEF Undisturbed, EngineBegin, Drafts, Unexported
  <2>4. \A f \in Engines : epc'[f] # "persisted"
    BY <1>0, <1>1, <2>1 DEF EngineBegin
  <2> QED
    BY <1>1, <2>2, <2>3, <2>4 DEF Undisturbed, EngineBegin
<1>2. CASE EngineAborts(e)
  <2>1. Undisturbed
    BY <1>2 DEF Clean, EngineAborts
  <2>2. Drafts' = Drafts /\ Unexported' = Unexported
    BY <1>2 DEF EngineAborts, Drafts, Unexported
  <2>3. \A f \in Engines : /\ InLock(f)' => InLock(f)
                           /\ epc'[f] = "persisted" <=> epc[f] = "persisted"
    BY <1>0, <1>2 DEF EngineAborts, InLock
  <2> QED
    BY <1>2, <2>1, <2>2, <2>3 DEF Undisturbed, EngineAborts
<1>3. CASE EngineArchive(e)
  <2>1. Undisturbed
    BY <1>3 DEF Clean, EngineArchive
  <2>2. Drafts' = Drafts /\ Unexported' = Unexported
    BY <1>3 DEF EngineArchive, Drafts, Unexported
  <2>3. \A f \in Engines : /\ InLock(f)' => InLock(f)
                           /\ epc'[f] = "persisted" <=> epc[f] = "persisted"
    BY <1>0, <1>3 DEF EngineArchive, InLock
  <2> QED
    BY <1>3, <2>1, <2>2, <2>3 DEF Undisturbed, EngineArchive
<1>4. CASE EnginePersist(e)
  <2>1. excuse = {} /\ \A a \in Togglers : apc[a] = "idle" /\ apc'[a] = "idle"
    BY <1>4 DEF EnginePersist
  <2>2. Undisturbed
    BY <2>1 DEF Clean
  <2>3. Drafts = {}
    BY <1>4, <2>2 DEF Undisturbed, EnginePersist, InLock
  <2>4. lost' = {}
    BY <1>4, <2>2, <2>3 DEF Undisturbed, EnginePersist, Unexported
  <2>5. epc'[e] = "persisted" /\ \A f \in Engines : ~InLock(f)'
    BY <1>0, <1>4 DEF RInv, OneInside, EnginePersist, InLock
  <2> QED
    BY <2>1, <2>4, <2>5 DEF Undisturbed
<1>5. CASE EngineToggleOff(e)
  <2>1. Undisturbed
    BY <1>5 DEF Clean, EngineToggleOff
  <2>2. Drafts' = Drafts /\ Unexported' = Unexported
    BY <1>5 DEF EngineToggleOff, Drafts, Unexported
  <2>3. toggle' = "off" /\ \A f \in Engines : /\ InLock(f)' => InLock(f)
                                              /\ epc'[f] = "persisted" => epc[f] = "persisted"
    BY <1>0, <1>5 DEF EngineToggleOff, InLock
  <2> QED
    BY <1>5, <2>1, <2>2, <2>3 DEF Undisturbed, EngineToggleOff
<1>6. CASE EngineDies(e)
  BY <1>6 DEF EngineDies
<1> QED
  BY <1>1, <1>2, <1>3, <1>4, <1>5, <1>6 DEF EngineStep

\* The toggle requests.
LEMMA TogglerKeepsClean ==
    ASSUME RInv, Clean, NEW a \in Togglers,
           ToggleOff(a) \/ ToggleApprove(a) \/ ToggleScan(a) \/ ToggleOn(a)
    PROVE  Clean'
<1>0. apc \in [Togglers -> {"idle", "approved", "scanned"}] /\ aseen \in [Togglers -> SUBSET Sugs]
  BY DEF RInv, TypeOK
<1>1. CASE ToggleOff(a)
  BY <1>1, UserKeepsClean DEF ToggleOff, procs, Drafts, Unexported
<1> SUFFICES ASSUME excuse' = {}, ~ToggleOff(a) PROVE Undisturbed'
  BY <1>1 DEF Clean
<1>2. excuse = {} /\ epc' = epc
  BY DEF ToggleApprove, ToggleScan, ToggleOn
<1>3. Undisturbed
  BY <1>2 DEF Clean
<1>4. CASE ToggleApprove(a)
  <2>1. Drafts' = Drafts /\ Unexported' = Unexported
    BY <1>4 DEF ToggleApprove, Drafts, Unexported
  <2>2. Unexported = {}
    BY <1>4 DEF ToggleApprove, CanEnable, Unexported
  <2>3. \A b \in Togglers : apc'[b] # "scanned"
    BY <1>0, <1>4 DEF ToggleApprove
  <2> QED
    BY <1>3, <1>4, <2>1, <2>2, <2>3 DEF Undisturbed, ToggleApprove, InLock
<1>5. CASE ToggleScan(a)
  <2>1. Drafts' = Drafts /\ Unexported' = Unexported
    BY <1>5 DEF ToggleScan, Drafts, Unexported
  <2>2. Unexported = {}
    BY <1>3, <1>5 DEF ToggleScan, Undisturbed
  <2>3. \A b \in Togglers : apc'[b] = "scanned" => Drafts \subseteq aseen'[b]
    BY <1>0, <1>3, <1>5 DEF ToggleScan, Undisturbed
  <2> QED
    BY <1>3, <1>5, <2>1, <2>2, <2>3 DEF Undisturbed, ToggleScan, InLock
<1>6. CASE ToggleOn(a)
  <2>1. Unexported = {} /\ Drafts \subseteq aseen[a]
    BY <1>3, <1>6 DEF ToggleOn, Undisturbed
  <2>2. Drafts' = {}
    BY <1>6, <2>1 DEF ToggleOn, Drafts
  <2>3. Unexported' = {}
    BY <2>2 DEF Unexported
  <2>4. lost' = {}
    BY <1>3, <1>6, <2>1 DEF ToggleOn, Undisturbed
  <2> QED
    BY <1>2, <1>3, <2>2, <2>3, <2>4 DEF Undisturbed, InLock
<1> QED
  BY <1>4, <1>5, <1>6

\* Every step keeps it.
LEMMA NextKeepsClean == RInv /\ Clean /\ [Next]_vars => Clean'
<1> SUFFICES ASSUME RInv, Clean, [Next]_vars PROVE Clean'
  OBVIOUS
<1>0. /\ sug \in [Sugs -> {"none", "draft", "archived", "deleted"}]
      /\ need \in [Sugs -> SUBSET Kinds] /\ snapped \in [Sugs -> SUBSET Kinds]
  BY DEF RInv, TypeOK
<1>1. CASE UNCHANGED vars
  BY <1>1, UserKeepsClean DEF vars, procs, Drafts, Unexported
<1>2. ASSUME NEW s \in Sugs, NEW k \in Kinds, Export(s, k) PROVE Clean'
  <2>1. Drafts' = Drafts /\ Unexported' \subseteq Unexported
    BY <1>0, <1>2 DEF Export, Drafts, Unexported
  <2> QED
    BY <1>2, <2>1, UserKeepsClean DEF Export, procs
<1>3. ASSUME NEW s \in Sugs, Archive(s) PROVE Clean'
  <2>1. Drafts' \subseteq Drafts /\ Unexported' \subseteq Unexported
    BY <1>0, <1>3 DEF Archive, Drafts, Unexported
  <2> QED
    BY <1>3, <2>1, UserKeepsClean DEF Archive, procs
<1>4. ASSUME NEW d \in Deleters, DeleteCount(d) PROVE Clean'
  BY <1>4, UserKeepsClean DEF DeleteCount, Drafts, Unexported
<1>5. ASSUME NEW d \in Deleters, DeleteRow(d) PROVE Clean'
  <2>1. dsug[d] \in Sugs
    BY <1>5 DEF RInv, Fresh, DeleteRow
  <2>2. /\ sug' = [sug EXCEPT ![dsug[d]] = "deleted"]
        /\ need' = [need EXCEPT ![dsug[d]] = {}] /\ snapped' = [snapped EXCEPT ![dsug[d]] = {}]
    BY <1>5 DEF DeleteRow
  <2>3. Drafts' \subseteq Drafts /\ Unexported' \subseteq Unexported
    BY <1>0, <2>1, <2>2 DEF Drafts, Unexported
  <2> QED
    BY <1>5, <2>3, UserKeepsClean DEF DeleteRow
<1>6. CASE Next
  BY <1>2, <1>3, <1>4, <1>5, <1>6, EngineKeepsClean, TogglerKeepsClean DEF Next
<1> QED
  BY <1>1, <1>6

\* The three excuses are the only ways in which the system archives a draft
\* that was not exported.
THEOREM NoSilentLossTheorem == Spec => []NoSilentLoss
<1>1. Clean => NoSilentLoss
  BY DEF Clean, Undisturbed, NoSilentLoss
<1> QED
  BY <1>1, InitClean, NextKeepsClean, CycleInvariant, PTL DEF Spec

\* And the only ways in which a draft meets an open toggle with no run between
\* its two commits.
THEOREM CycleClosedTheorem == Spec => []CycleClosed
<1>1. Clean => CycleClosed
  BY DEF Clean, Undisturbed, CycleClosed
<1> QED
  BY <1>1, InitClean, NextKeepsClean, CycleInvariant, PTL DEF Spec

-----------------------------------------------------------------------------
(***************************************************************************)
(* ComponentsDistinct.  The inductive invariant adds what the requests     *)
(* under way have checked, that checks are never ahead of the groupings,   *)
(* and that a SKU is a member of one group at most, so that setting        *)
(* members apart makes no two SKUs the same stock.                         *)
(***************************************************************************)

\* The enabled groups a SKU belongs to.
GroupsOf(s) == {g \in Groups : s \in SkusIn(Members(g)) /\ group[g].enabled}

\* No two rows of a combination are the same stock.
RowsDistinct(rows) ==
    \A q, r \in rows :
        (q # r /\ q.at = r.at) => resolve_inventory_sku(q.sku) # resolve_inventory_sku(r.sku)

GroupsFit ==
    /\ group = [g \in Groups |-> group[g]]
    /\ \A g \in Groups : group[g] # NoGroup =>
          group[g] = [enabled |-> group[g].enabled, rows |-> group[g].rows] /\ group[g].enabled \in BOOLEAN
    /\ \A g, h \in Groups : g # h => SkusIn(Members(g)) \cap SkusIn(Members(h)) = {}

RuleFits(c) ==
    rule[c] # NoRule =>
        /\ SkusIn(rule[c].rows) \cap Groups = {}
        /\ rule[c].checked \in Nat /\ rule[c].checked <= grouping
        /\ ~rule[c].mixed /\ rule[c].checked = grouping => RowsDistinct(rule[c].rows)

EditorFits(e) ==
    /\ editor[e].pc \in {"rule", "deleted"} => editor[e].on \in Commodities /\ editor[e].at \in Formulas
    /\ editor[e].pc = "deleted" =>
          /\ editor[e].checked \in Nat /\ editor[e].checked <= grouping
          /\ editor[e].checked = grouping => Distinct(editor[e].at)
    /\ editor[e].pc = "group" => editor[e].on \in Groups /\ editor[e].enabled \in BOOLEAN

\* The inductive invariant.
SharingInv ==
    /\ grouping \in Nat
    /\ rule = [c \in Commodities |-> rule[c]]
    /\ editor = [e \in Editors |-> editor[e]]
    /\ GroupsFit
    /\ \A c \in Commodities : RuleFits(c)
    /\ \A e \in Editors : EditorFits(e)

-----------------------------------------------------------------------------

\* A SKU resolves to the only enabled group it belongs to, or to itself.
LEMMA ResolveOne ==
    ASSUME GroupsFit, NEW s
    PROVE  /\ \A g \in GroupsOf(s) : resolve_inventory_sku(s) = g
           /\ GroupsOf(s) = {} => resolve_inventory_sku(s) = s
  <1>1. \A g, h \in GroupsOf(s) : g = h
    BY DEF GroupsFit, GroupsOf
  <1>2. resolve_inventory_sku(s) = IF GroupsOf(s) = {} THEN s ELSE CHOOSE g \in GroupsOf(s) : TRUE
    BY DEF resolve_inventory_sku, GroupsOf
  <1> QED
    BY <1>1, <1>2

\* Setting members apart, by disabling or deleting a group, merges no stock.
LEMMA ApartStays ==
    ASSUME GroupsFit, GroupsFit',
           \A x : GroupsOf(x)' \subseteq GroupsOf(x),
           NEW s, NEW t, s \notin Groups, t \notin Groups,
           resolve_inventory_sku(s) # resolve_inventory_sku(t)
    PROVE  resolve_inventory_sku(s)' # resolve_inventory_sku(t)'
  <1>1. ASSUME NEW x
        PROVE  \/ GroupsOf(x)' = {} /\ resolve_inventory_sku(x)' = x
               \/ /\ resolve_inventory_sku(x)' \in GroupsOf(x)
                  /\ resolve_inventory_sku(x) = resolve_inventory_sku(x)'
    <2>1. resolve_inventory_sku(x)' =
              IF GroupsOf(x)' = {} THEN x ELSE CHOOSE g \in GroupsOf(x)' : TRUE
      BY DEF resolve_inventory_sku, GroupsOf
    <2>2. GroupsOf(x)' # {} => (CHOOSE g \in GroupsOf(x)' : TRUE) \in GroupsOf(x)'
      OBVIOUS
    <2> HIDE DEF GroupsFit, GroupsOf, resolve_inventory_sku
    <2> QED
      BY <2>1, <2>2, ResolveOne
  <1>2. \A x : GroupsOf(x) \subseteq Groups
    BY DEF GroupsOf
  <1> QED
    BY <1>1, <1>2

-----------------------------------------------------------------------------
(* Rules *)

\* While the groups stand still, a SKU resolves to the same stock.
LEMMA ResolveStays ==
    ASSUME group' = group
    PROVE  /\ \A s : resolve_inventory_sku(s)' = resolve_inventory_sku(s)
           /\ GroupsFit' <=> GroupsFit
  <1>1. \A g : Members(g)' = Members(g)
    BY DEF Members
  <1>2. ASSUME NEW s
        PROVE  resolve_inventory_sku(s)' = resolve_inventory_sku(s)
    <2>1. GroupsOf(s)' = GroupsOf(s)
      BY <1>1 DEF GroupsOf
    <2>2. /\ resolve_inventory_sku(s) = IF GroupsOf(s) = {} THEN s ELSE CHOOSE g \in GroupsOf(s) : TRUE
          /\ resolve_inventory_sku(s)' = IF GroupsOf(s)' = {} THEN s ELSE CHOOSE g \in GroupsOf(s)' : TRUE
      BY DEF resolve_inventory_sku, GroupsOf
    <2> QED
      BY SMT, <2>1, <2>2
  <1> QED
    BY <1>1, <1>2 DEF GroupsFit

\* While the groups stand still, rules and requests that do not change still fit.
LEMMA GroupsStand ==
    ASSUME SharingInv, group' = group, grouping' = grouping
    PROVE  /\ GroupsFit'
           /\ \A c \in Commodities : rule'[c] = rule[c] => RuleFits(c)'
           /\ \A e \in Editors : editor'[e] = editor[e] => EditorFits(e)'
  <1>1. /\ GroupsFit' /\ \A s : resolve_inventory_sku(s)' = resolve_inventory_sku(s)
    BY ResolveStays DEF SharingInv
  <1>2. ASSUME NEW c \in Commodities, rule'[c] = rule[c]
        PROVE  RuleFits(c)'
    BY <1>1, <1>2 DEF SharingInv, RuleFits, RowsDistinct
  <1>3. ASSUME NEW e \in Editors, editor'[e] = editor[e]
        PROVE  EditorFits(e)'
    BY <1>1, <1>3 DEF SharingInv, EditorFits, Distinct
  <1> QED
    BY <1>1, <1>2, <1>3

\* A request takes a rule and a formula.
LEMMA RuleReadKeeps ==
    ASSUME SharingInv, NEW e \in Editors, NEW c \in Commodities, RuleRead(e, c)
    PROVE  SharingInv'
  <1>1. PICK f \in Formulas : editor' = [editor EXCEPT ![e] =
              [pc |-> "rule", on |-> c, at |-> f, gone |-> {},
               serial |-> IF rule[c] = NoRule THEN 0 ELSE rule[c].serial]]
    BY DEF RuleRead
  <1>2. UNCHANGED <<rule, group, grouping>>
    BY DEF RuleRead
  <1>3. editor' = [d \in Editors |-> editor'[d]] /\ \A d \in Editors : d # e => editor'[d] = editor[d]
    BY <1>1 DEF SharingInv
  <1>4. EditorFits(e)'
    BY <1>1 DEF EditorFits, SharingInv
  <1> QED
    BY <1>2, <1>3, <1>4, GroupsStand DEF SharingInv

\* The check holds of the groups as they are.
LEMMA CheckKeeps ==
    ASSUME SharingInv, NEW e \in Editors, replace_mapping_components(e)
    PROVE  SharingInv'
  <1>1. UNCHANGED <<rule, group, grouping>>
    BY DEF replace_mapping_components
  <1>2. editor' = [d \in Editors |-> editor'[d]] /\ \A d \in Editors : d # e => editor'[d] = editor[d]
    BY DEF SharingInv, replace_mapping_components
  <1>3. PICK f : f = editor[e].at
    OBVIOUS
  <1>4. Distinct(f)' <=> Distinct(f)
    BY <1>1, ResolveStays DEF Distinct
  <1>5. editor[e].on \in Commodities /\ f \in Formulas /\ grouping \in Nat
    BY <1>3 DEF SharingInv, EditorFits, replace_mapping_components
  <1>7. editor'[e] = IF Distinct(editor[e].at)
                     THEN [pc |-> "deleted", on |-> editor[e].on, at |-> editor[e].at,
                           serial |-> editor[e].serial, gone |-> Components(editor[e].on),
                           checked |-> grouping]
                     ELSE AtRest
    <2>1. e \in DOMAIN editor
      BY DEF SharingInv
    <2> QED
      BY <2>1 DEF replace_mapping_components
  <1>6. EditorFits(e)'
    <2>1. CASE Distinct(f)
      <3>1. editor'[e] = [pc |-> "deleted", on |-> editor[e].on, at |-> f, serial |-> editor[e].serial,
                          gone |-> Components(editor[e].on), checked |-> grouping]
        BY <1>3, <1>7, <2>1
      <3> QED
        BY SMT, <1>1, <1>4, <1>5, <2>1, <3>1 DEF EditorFits
    <2>2. CASE ~Distinct(f)
      <3>1. editor'[e] = AtRest
        BY <1>3, <1>7, <2>2
      <3> QED
        BY SMT, <3>1 DEF EditorFits, AtRest
    <2> QED
      BY <2>1, <2>2
  <1> QED
    BY <1>1, <1>2, <1>6, GroupsStand DEF SharingInv

\* The rows of a formula are as distinct as the formula.
LEMMA StampedDistinct ==
    ASSUME NEW f \in Formulas, NEW n, Distinct(f)
    PROVE  RowsDistinct(Stamped(f, n)) 
  <1> SUFFICES ASSUME NEW q \in Stamped(f, n), NEW r \in Stamped(f, n), q # r, q.at = r.at
               PROVE  resolve_inventory_sku(q.sku) # resolve_inventory_sku(r.sku)
    BY DEF RowsDistinct
  <1>1. PICK s \in DOMAIN f : q = [sku |-> s, at |-> f[s], by |-> n]
    BY DEF Stamped
  <1>2. PICK t \in DOMAIN f : r = [sku |-> t, at |-> f[t], by |-> n]
    BY DEF Stamped
  <1>3. q.sku = s /\ r.sku = t /\ s # t /\ f[s] = f[t]
    BY <1>1, <1>2
  <1> QED
    BY <1>3 DEF Distinct

\* The rows of a formula have no group among their SKUs.
LEMMA StampedSkus ==
    ASSUME NEW f \in Formulas, NEW n
    PROVE  SkusIn(Stamped(f, n)) \cap Groups = {}
  BY SMT, SharingAssumption DEF SkusIn, Stamped

\* A save inserts what it checked, next to what another save left.
LEMMA RuleCommitKeeps ==
    ASSUME SharingInv, NEW e \in Editors, RuleCommit(e)
    PROVE  SharingInv'
  <1>1. UNCHANGED <<group, grouping>> /\ editor[e].pc = "deleted"
    BY DEF RuleCommit
  <1>2. PICK c \in Commodities, f \in Formulas : c = editor[e].on /\ f = editor[e].at
    BY <1>1 DEF SharingInv, EditorFits
  <1>3. PICK older, n : older = Components(c) \ editor[e].gone /\ n = saves + 1
    OBVIOUS
  <1>4. /\ editor' = [d \in Editors |-> editor'[d]]
        /\ \A d \in Editors : d # e => editor'[d] = editor[d]
        /\ editor'[e] = AtRest
    BY DEF SharingInv, RuleCommit
  <1>5. \A d \in Editors : EditorFits(d)'
    BY SMT, <1>1, <1>4, GroupsStand DEF EditorFits, AtRest
  <1>6. /\ rule' = [d \in Commodities |-> rule'[d]]
        /\ \A d \in Commodities : d # c => rule'[d] = rule[d]
        /\ \/ rule'[c] = rule[c]
           \/ /\ rule'[c].rows = older \cup Stamped(f, n)
              /\ rule'[c].checked = editor[e].checked
              /\ rule'[c].mixed = (older # {})
    BY <1>2, <1>3 DEF SharingInv, RuleCommit
  <1>7. ASSUME rule'[c].rows = older \cup Stamped(f, n),
               rule'[c].checked = editor[e].checked,
               rule'[c].mixed = (older # {})
        PROVE  RuleFits(c)'
    <2>1. SkusIn(older \cup Stamped(f, n)) \cap Groups = {}
      <3>1. SkusIn(Components(c)) \cap Groups = {}
        BY DEF SharingInv, RuleFits, Components, SkusIn
      <3>2. SkusIn(Stamped(f, n)) \cap Groups = {}
        BY StampedSkus
      <3> QED
        BY <1>3, <3>1, <3>2 DEF SkusIn
    <2>2. /\ editor[e].checked \in Nat /\ editor[e].checked <= grouping
          /\ editor[e].checked = grouping => Distinct(f)
      BY <1>1, <1>2 DEF SharingInv, EditorFits
    <2>3. ASSUME older = {}, editor[e].checked = grouping
          PROVE  RowsDistinct(older \cup Stamped(f, n))'
      <3>1. RowsDistinct(Stamped(f, n))
        BY <2>2, <2>3, StampedDistinct
      <3> QED
        BY SMT, <1>1, <3>1, <2>3, ResolveStays DEF RowsDistinct
    <2>4. SkusIn(rule[c].rows)' = SkusIn(older \cup Stamped(f, n))
      BY <1>7 DEF SkusIn
    <2>5. RowsDistinct(rule[c].rows)' <=> RowsDistinct(older \cup Stamped(f, n))'
      BY <1>7 DEF RowsDistinct
    <2> QED
      BY <1>1, <1>7, <2>1, <2>2, <2>3, <2>4, <2>5 DEF RuleFits
  <1>8. \A d \in Commodities : RuleFits(d)'
    BY <1>1, <1>6, <1>7, GroupsStand
  <1> QED
    BY <1>1, <1>4, <1>5, <1>6, <1>8, GroupsStand DEF SharingInv

\* A rule that is deleted fits.
LEMMA RuleDeleteKeeps ==
    ASSUME SharingInv, NEW c \in Commodities, delete_sku_mapping_rule(c)
    PROVE  SharingInv'
  <1>1. /\ UNCHANGED <<group, grouping, editor>>
        /\ rule' = [rule EXCEPT ![c] = NoRule]
    BY DEF delete_sku_mapping_rule
  <1>2. /\ rule' = [d \in Commodities |-> rule'[d]]
        /\ \A d \in Commodities : d # c => rule'[d] = rule[d]
        /\ rule'[c] = NoRule
    BY <1>1 DEF SharingInv
  <1>3. RuleFits(c)'
    BY <1>2 DEF RuleFits
  <1> QED
    BY <1>1, <1>2, <1>3, GroupsStand DEF SharingInv

-----------------------------------------------------------------------------
(* Groups *)

\* A request takes a group and its members.
LEMMA GroupReadKeeps ==
    ASSUME SharingInv, NEW e \in Editors, NEW g \in Groups, GroupRead(e, g)
    PROVE  SharingInv'
  <1>1. UNCHANGED <<rule, group, grouping>>
    BY DEF GroupRead
  <1>2. /\ editor' = [d \in Editors |-> editor'[d]]
        /\ \A d \in Editors : d # e => editor'[d] = editor[d]
        /\ editor'[e].pc = "group" /\ editor'[e].on = g /\ editor'[e].enabled \in BOOLEAN
    BY SMT DEF GroupRead, SharingInv
  <1>3. EditorFits(e)'
    BY <1>2 DEF EditorFits
  <1> QED
    BY <1>1, <1>2, <1>3, GroupsStand DEF SharingInv

\* Once SKUs are put together, every check is of an earlier grouping.
LEMMA Regrouped ==
    ASSUME SharingInv, rule' = rule, grouping' = grouping + 1
    PROVE  /\ \A c \in Commodities : RuleFits(c)'
           /\ \A e \in Editors : editor'[e] = editor[e] => EditorFits(e)'
  <1>1. ASSUME NEW c \in Commodities
        PROVE  RuleFits(c)'
    BY SMT DEF SharingInv, RuleFits, SkusIn
  <1>2. ASSUME NEW e \in Editors, editor'[e] = editor[e]
        PROVE  EditorFits(e)'
    BY SMT, <1>2 DEF SharingInv, EditorFits
  <1> QED
    BY <1>1, <1>2

\* Once members are set apart, what was distinct still is.
LEMMA SetApart ==
    ASSUME SharingInv, GroupsFit', \A x : GroupsOf(x)' \subseteq GroupsOf(x),
           UNCHANGED <<rule, editor, grouping>>
    PROVE  SharingInv'
  <1>1. ASSUME NEW s, NEW t, s \notin Groups, t \notin Groups,
               resolve_inventory_sku(s) # resolve_inventory_sku(t)
        PROVE  resolve_inventory_sku(s)' # resolve_inventory_sku(t)'
    BY <1>1, ApartStays DEF SharingInv
  <1>2. ASSUME NEW c \in Commodities
        PROVE  RuleFits(c)'
    <2> SUFFICES ASSUME rule[c] # NoRule, SkusIn(rule[c].rows) \cap Groups = {},
                        RowsDistinct(rule[c].rows)
                 PROVE  RowsDistinct(rule[c].rows)'
      BY DEF SharingInv, RuleFits, SkusIn
    <2>1. \A q \in rule[c].rows : q.sku \notin Groups
      BY DEF SkusIn
    <2> QED
      BY <1>1, <2>1 DEF RowsDistinct
  <1>3. ASSUME NEW e \in Editors
        PROVE  EditorFits(e)'
    <2> SUFFICES ASSUME editor[e].at \in Formulas, Distinct(editor[e].at)
                 PROVE  Distinct(editor[e].at)'
      BY DEF SharingInv, EditorFits
    <2>1. \A s \in DOMAIN editor[e].at : s \notin Groups
      BY SharingAssumption
    <2> QED
      BY <1>1, <2>1 DEF Distinct
  <1> QED
    BY <1>2, <1>3 DEF SharingInv

\* The unique key keeps the members of the groups disjoint.
LEMMA GroupCommitKeeps ==
    ASSUME SharingInv, NEW e \in Editors, GroupCommit(e)
    PROVE  SharingInv'
  <1>0. PICK g \in Groups : g = editor[e].on
    BY DEF GroupCommit, SharingInv, EditorFits
  <1>1. PICK m : g = editor[e].on /\ m = editor[e].members
    BY <1>0
  <1>2. /\ editor' = [d \in Editors |-> editor'[d]]
        /\ \A d \in Editors : d # e => editor'[d] = editor[d]
        /\ editor'[e] = AtRest /\ rule' = rule
    BY DEF GroupCommit, SharingInv
  <1>3. EditorFits(e)'
    BY SMT, <1>2 DEF EditorFits, AtRest
  <1>4. CASE group' = group /\ grouping' = grouping
    BY <1>2, <1>3, <1>4, GroupsStand DEF SharingInv
  <1>5. CASE ~(group' = group /\ grouping' = grouping)
    <2>0. PICK on \in BOOLEAN : on = editor[e].enabled
      BY DEF GroupCommit, SharingInv, EditorFits
    <2>1. PICK rows : on = editor[e].enabled /\ rows = replace_physical_members(e)
      BY <2>0
    <2>2. /\ group' = [group EXCEPT ![g] = [enabled |-> on, rows |-> rows]]
          /\ grouping' = grouping + 1
          /\ SkusIn(UNION {Members(h) : h \in Groups \ {g}}) \cap m = {}
      BY <1>1, <1>5, <2>1 DEF GroupCommit, SkusIn
    <2>3. SkusIn(rows) \subseteq SkusIn(Members(g)) \cup m
      BY SMT, <1>1, <2>1 DEF replace_physical_members, Stamped, SkusIn
    <2>4. \A h \in Groups \ {g} : SkusIn(Members(h)) \cap m = {}
      BY <2>2 DEF SkusIn
    <2>5. /\ group' = [h \in Groups |-> group'[h]]
          /\ group'[g] = [enabled |-> on, rows |-> rows]
          /\ \A h \in Groups \ {g} : group'[h] = group[h]
      BY <2>2 DEF SharingInv, GroupsFit
    <2>6. /\ \A h \in Groups \ {g} : Members(h)' = Members(h)
          /\ Members(g)' = {} \/ Members(g)' = rows
      BY SMT, <2>5 DEF Members
    <2>7. ASSUME NEW h \in Groups \ {g}
          PROVE  SkusIn(Members(g))' \cap SkusIn(Members(h))' = {}
      <3>1. SkusIn(Members(h))' = SkusIn(Members(h))
        BY <2>6 DEF SkusIn
      <3>2. SkusIn(Members(g))' \subseteq SkusIn(rows)
        BY <2>6 DEF SkusIn
      <3>3. SkusIn(Members(g)) \cap SkusIn(Members(h)) = {}
        BY DEF SharingInv, GroupsFit
      <3> QED
        BY <2>3, <2>4, <3>1, <3>2, <3>3
    <2>8. ASSUME NEW h \in Groups \ {g}, NEW k \in Groups \ {g}, h # k
          PROVE  SkusIn(Members(h))' \cap SkusIn(Members(k))' = {}
      BY <2>6, <2>8 DEF SkusIn, SharingInv, GroupsFit
    <2>9. ASSUME NEW h \in Groups, group'[h] # NoGroup
          PROVE  /\ group'[h] = [enabled |-> group'[h].enabled, rows |-> group'[h].rows]
                 /\ group'[h].enabled \in BOOLEAN
      BY SMT, <2>5, <2>9 DEF SharingInv, GroupsFit
    <2>10. GroupsFit'
      BY <2>5, <2>7, <2>8, <2>9 DEF GroupsFit
    <2> QED
      BY SMT, <1>2, <1>3, <2>2, <2>10, Regrouped DEF SharingInv
  <1> QED
    BY <1>4, <1>5

\* What becomes of one group while the others stand still and its members are no more
\* than they were.
LEMMA OneGroupFits ==
    ASSUME GroupsFit, NEW g \in Groups, NEW new,
           group' = [group EXCEPT ![g] = new],
           \/ new = NoGroup
           \/ new = [enabled |-> new.enabled, rows |-> Members(g)] /\ new.enabled \in BOOLEAN
    PROVE  /\ GroupsFit'
           /\ (new = NoGroup \/ ~new.enabled) => \A x : GroupsOf(x)' \subseteq GroupsOf(x)
  <1>1. /\ group' = [h \in Groups |-> group'[h]]
        /\ group'[g] = new
        /\ \A h \in Groups \ {g} : group'[h] = group[h]
    BY DEF GroupsFit
  <1>2. /\ \A h \in Groups \ {g} : Members(h)' = Members(h)
        /\ Members(g)' = {} \/ Members(g)' = Members(g)
        /\ new = NoGroup => Members(g)' = {}
    BY SMT, <1>1 DEF Members
  <1>3. \A h \in Groups : SkusIn(Members(h))' \subseteq SkusIn(Members(h))
    BY <1>2 DEF SkusIn
  <1>4. GroupsFit'
    BY <1>1, <1>3 DEF GroupsFit
  <1>5. ASSUME new = NoGroup \/ ~new.enabled, NEW x, NEW h \in GroupsOf(x)'
        PROVE  h \in GroupsOf(x)
    <2>1. h \in Groups /\ x \in SkusIn(Members(h))' /\ group'[h].enabled
      BY DEF GroupsOf
    <2>2. h # g
      BY <1>1, <1>2, <1>5, <2>1 DEF SkusIn
    <2> QED
      BY <1>1, <1>3, <2>1, <2>2 DEF GroupsOf
  <1> QED
    BY <1>4, <1>5

\* A group that is enabled puts its members together; one that is disabled does not.
LEMMA GroupPatchKeeps ==
    ASSUME SharingInv, NEW g \in Groups, patch_physical_item_group(g)
    PROVE  SharingInv'
  <1>1. PICK new : new = [enabled |-> ~group[g].enabled, rows |-> group[g].rows]
    OBVIOUS
  <1>2. /\ group' = [group EXCEPT ![g] = new]
        /\ new.rows = Members(g) /\ new.enabled = ~group[g].enabled /\ new.enabled \in BOOLEAN
        /\ new = [enabled |-> new.enabled, rows |-> Members(g)]
    <2>1. /\ group[g] # NoGroup /\ group[g].enabled \in BOOLEAN
          /\ group[g] = [enabled |-> group[g].enabled, rows |-> group[g].rows]
      BY DEF patch_physical_item_group, SharingInv, GroupsFit
    <2>2. [group[g] EXCEPT !.enabled = ~@] = new
      <3>1. PICK on, rows : group[g] = [enabled |-> on, rows |-> rows]
        BY <2>1
      <3> QED
        BY SMT, <1>1, <3>1
    <2>3. group' = [group EXCEPT ![g] = [group[g] EXCEPT !.enabled = ~@]]
      BY DEF patch_physical_item_group
    <2>4. new.rows = Members(g) /\ new.enabled = ~group[g].enabled
      BY <1>1, <2>1 DEF Members
    <2>5. new = [enabled |-> new.enabled, rows |-> Members(g)]
      BY <1>1, <2>4
    <2> QED
      BY <2>1, <2>2, <2>3, <2>4, <2>5
  <1>3. UNCHANGED <<rule, editor>>
    BY DEF patch_physical_item_group
  <1>4. GroupsFit'
    BY <1>2, OneGroupFits DEF SharingInv
  <1>5. CASE group[g].enabled
    <2>1. grouping' = grouping
      BY <1>5 DEF patch_physical_item_group
    <2>2. \A x : GroupsOf(x)' \subseteq GroupsOf(x)
      BY <1>2, <1>5, OneGroupFits DEF SharingInv
    <2> QED
      BY <1>3, <1>4, <2>1, <2>2, SetApart
  <1>6. CASE ~group[g].enabled
    <2>1. grouping' = grouping + 1
      BY <1>6 DEF patch_physical_item_group
    <2> QED
      BY SMT, <1>3, <1>4, <2>1, Regrouped DEF SharingInv
  <1> QED
    BY <1>5, <1>6

\* A group that is deleted sets its members apart.
LEMMA GroupDeleteKeeps ==
    ASSUME SharingInv, NEW g \in Groups, delete_physical_item_group(g)
    PROVE  SharingInv'
  <1>1. group' = [group EXCEPT ![g] = NoGroup] /\ UNCHANGED <<rule, editor, grouping>>
    BY DEF delete_physical_item_group
  <1>2. GroupsFit' /\ \A x : GroupsOf(x)' \subseteq GroupsOf(x)
    BY <1>1, OneGroupFits DEF SharingInv
  <1> QED
    BY <1>1, <1>2, SetApart

-----------------------------------------------------------------------------

\* The invariant holds in every state.
THEOREM SharingInvariant == SharingSpec => []SharingInv
  <1>1. SharingInit => SharingInv
    <2> SUFFICES ASSUME SharingInit
                 PROVE  SharingInv
      OBVIOUS
    <2>1. \A g \in Groups : Members(g) = {}
      BY DEF SharingInit, Members
    <2>2. GroupsFit
      BY <2>1 DEF SharingInit, GroupsFit, SkusIn
    <2> QED
      BY <2>2 DEF SharingInit, SharingInv, RuleFits, EditorFits, AtRest
  <1>2. SharingInv /\ [SharingNext]_sharingVars => SharingInv'
    <2> SUFFICES ASSUME SharingInv, [SharingNext]_sharingVars
                 PROVE  SharingInv'
      OBVIOUS
    <2>1. CASE UNCHANGED sharingVars
      BY <2>1, GroupsStand DEF SharingInv, sharingVars
    <2>2. CASE SharingNext
      BY <2>2, RuleReadKeeps, CheckKeeps, RuleCommitKeeps, RuleDeleteKeeps, GroupReadKeeps,
         GroupCommitKeeps, GroupPatchKeeps, GroupDeleteKeeps DEF SharingNext
    <2> QED
      BY <2>1, <2>2
  <1> QED
    BY <1>1, <1>2, PTL DEF SharingSpec

\* No combination of a rule counts one stock twice, but for the two overlaps the check does
\* not see: for any number of rules, groups and requests.
THEOREM ComponentsDistinctHolds == SharingSpec => []ComponentsDistinct
  <1>1. SharingInv => ComponentsDistinct
    BY DEF SharingInv, RuleFits, RowsDistinct, ComponentsDistinct
  <1> QED
    BY <1>1, SharingInvariant, PTL

=============================================================================
