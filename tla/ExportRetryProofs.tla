------------------------- MODULE ExportRetryProofs --------------------------
(***************************************************************************)
(* Snapshots and exports, for any number of snapshots, edits and requests: *)
(* the inductive invariant, and that every step keeps it.  Snapshots are   *)
(* sound, files match, versions have no gap, exports are backed.           *)
(*                                                                         *)
(* The client of Saihu and the replay of failed calls, for any number of   *)
(* calls, refreshes, requests and workers: one refresh is in flight, and   *)
(* the queue of calls to replay stays alive.                               *)
(***************************************************************************)
EXTENDS SnapshotExport, ApiCallRetry, FiniteSetTheorems, TLAPS

\* Most steps are first-order reasoning; those that need arithmetic or
\* updates of functions and records cite SMT.
USE Zenon

-----------------------------------------------------------------------------
(* Snapshots and exports *)

\* A request under way has a snapshot of its own, not published yet, and its
\* context is what that snapshot has frozen (unless it was deleted).
Hold ==
    \A x \in Exporters : epc[x] # "idle" =>
        /\ esnap[x] \in Snaps
        /\ esnap[x] <= last
        /\ exportLog[esnap[x]] = "none"
        /\ gen[esnap[x]] # "none" => ectx[x] = frozen[esnap[x]]
Apart ==
    \A x, y \in Exporters :
        epc[x] # "idle" /\ epc[y] # "idle" /\ esnap[x] = esnap[y] => x = y

\* Ids after the last one are unused; a row has a type.
Unused == \A n \in Snaps : n > last => gen[n] = "none" /\ exportLog[n] = "none" /\ file[n] = NoItem
Kinded == \A n \in Rows : kind[n] \in Kinds

\* Versions do not run ahead of ids.
Behind == \A n \in Rows : version[n] <= last

XInv == TypeOK /\ Hold /\ Apart /\ Unused /\ Kinded /\ Behind
        /\ SnapshotSound /\ FileIsSnapshot /\ VersionsContiguous /\ ExportedIsBacked

\* The type invariant in three parts: edits, snapshots, requests.
EditsOK ==
    /\ status \in {"draft", "archived", "deleted"}
    /\ item \in Item
    /\ ppc \in [Patchers -> {"idle", "checked"}]
    /\ patch \in [Patchers -> Patch]
RowsOK ==
    /\ last \in 0..MaxSnaps
    /\ kind \in [Snaps -> Kinds \cup {"none"}]
    /\ version \in [Snaps -> 0..MaxSnaps]
    /\ frozen \in [Snaps -> Item]
    /\ gen \in [Snaps -> {"none", "generating", "ready", "failed"}]
    /\ exportLog \in [Snaps -> {"none", "logged", "purged"}]
    /\ file \in [Snaps -> Item]
    /\ exported \in [Kinds -> 0..MaxSnaps]
RequestsOK ==
    /\ epc \in [Exporters -> {"idle", "building", "written"}]
    /\ esnap \in [Exporters -> 0..MaxSnaps]
    /\ ectx \in [Exporters -> Item]
    /\ dpc \in {"idle", "counted"}
    /\ rpc \in {"idle", "exports", "stuck"}
    /\ due \subseteq Snaps
    /\ done \subseteq Snaps
    /\ kills \in 0..MaxKills

\* The parts make the whole, before and after a step.
LEMMA TypeParts == /\ TypeOK <=> EditsOK /\ RowsOK /\ RequestsOK
                   /\ TypeOK' <=> EditsOK' /\ RowsOK' /\ RequestsOK'
  BY DEF TypeOK, EditsOK, RowsOK, RequestsOK

\* No item is an item, and neither is anything else.
LEMMA Blanks == NoItem \in Item /\ NoPatch \in Patch
<1>1. 0 \in Qty
  BY SMT, ExportAssumption DEF Qty
<1>2. NoItem \in Item
  BY <1>1 DEF NoItem, Item
<1> QED
  BY <1>2 DEF NoPatch, Patch

\* An edited item is an item.
LEMMA MergeType == ASSUME NEW i \in Item, NEW p \in Patch PROVE Merge(i, p) \in Item
  BY DEF Merge, Item, Patch

\* A fresh draft.
LEMMA InitXInv == ExportInit => XInv
<1> SUFFICES ASSUME ExportInit PROVE XInv
  OBVIOUS
<1>1. EditsOK
  BY Blanks, ExportAssumption DEF ExportInit, EditsOK
<1>2. RowsOK
  BY SMT, Blanks, ExportAssumption DEF ExportInit, RowsOK
<1>3. RequestsOK
  BY SMT, Blanks, ExportAssumption DEF ExportInit, RequestsOK
<1>4. Hold /\ Apart /\ Unused
  BY DEF ExportInit, Hold, Apart, Unused
<1>5. Rows = {}
  BY DEF ExportInit, Rows
<1>6. Kinded /\ Behind /\ SnapshotSound /\ FileIsSnapshot
  BY <1>5 DEF Kinded, Behind, SnapshotSound, FileIsSnapshot
<1>7. VersionsContiguous
  <2>1. 0 \in 0..MaxSnaps /\ 1..0 = {}
    BY SMT, ExportAssumption
  <2> QED
    BY <1>5, <2>1 DEF VersionsContiguous
<1>8. ExportedIsBacked
  BY DEF ExportInit, ExportedIsBacked
<1> QED
  BY <1>1, <1>2, <1>3, <1>4, <1>6, <1>7, <1>8, TypeParts DEF XInv

\* A step that leaves the snapshots and the export requests alone.
LEMMA SnapshotsAlone ==
    ASSUME XInv, TypeOK', UNCHANGED <<rows, gen, exportLog, file, exported, exports>>
    PROVE  XInv'
<1> USE DEF rows, exports
<1>1. Rows' = Rows
  BY DEF Rows
<1>2. Hold' /\ Apart' /\ Unused'
  BY DEF XInv, Hold, Apart, Unused
<1>3. Kinded' /\ Behind' /\ SnapshotSound' /\ FileIsSnapshot'
  BY <1>1 DEF XInv, Kinded, Behind, SnapshotSound, FileIsSnapshot
<1>4. VersionsContiguous'
  BY SMT, <1>1 DEF XInv, VersionsContiguous
<1>5. ExportedIsBacked'
  BY DEF XInv, ExportedIsBacked
<1> QED
  BY <1>2, <1>3, <1>4, <1>5 DEF XInv

\* A step that leaves the set of rows and their content alone.
LEMMA RowsAlone ==
    ASSUME XInv, UNCHANGED rows, Rows' = Rows
    PROVE  Kinded' /\ Behind' /\ SnapshotSound' /\ VersionsContiguous'
<1> USE DEF rows
<1>1. Kinded' /\ Behind' /\ SnapshotSound'
  BY DEF XInv, Kinded, Behind, SnapshotSound
<1>2. VersionsContiguous'
  BY SMT DEF XInv, VersionsContiguous
<1> QED
  BY <1>1, <1>2

\* Edits, archiving and the count before a deletion.
LEMMA EditKeepsXInv ==
    ASSUME XInv,
           (\E q \in Patchers : PatchCheck(q) \/ PatchWrite(q)) \/ Archive \/ DeleteCount
    PROVE  XInv'
<1>0. EditsOK /\ RowsOK /\ RequestsOK
  BY TypeParts DEF XInv
<1>1. ASSUME NEW q \in Patchers, PatchCheck(q) PROVE XInv'
  <2>1. EditsOK'
    BY <1>0, <1>1, ExportAssumption DEF PatchCheck, EditsOK
  <2>2. RowsOK' /\ RequestsOK'
    BY <1>0, <1>1 DEF PatchCheck, RowsOK, RequestsOK, rows, exports, sweep
  <2> QED
    BY <1>1, <2>1, <2>2, SnapshotsAlone, TypeParts DEF PatchCheck
<1>2. ASSUME NEW q \in Patchers, PatchWrite(q) PROVE XInv'
  <2>1. Merge(item, patch[q]) \in Item
    BY <1>0, MergeType DEF EditsOK
  <2>2. EditsOK'
    BY <1>0, <1>2, <2>1, Blanks DEF PatchWrite, EditsOK
  <2>3. RowsOK' /\ RequestsOK'
    BY <1>0, <1>2 DEF PatchWrite, RowsOK, RequestsOK, rows, exports, sweep
  <2> QED
    BY <1>2, <2>2, <2>3, SnapshotsAlone, TypeParts DEF PatchWrite
<1>3. CASE Archive
  <2>1. EditsOK' /\ RowsOK' /\ RequestsOK'
    BY <1>0, <1>3 DEF Archive, EditsOK, RowsOK, RequestsOK, edits, rows, exports, sweep
  <2> QED
    BY <1>3, <2>1, SnapshotsAlone, TypeParts DEF Archive
<1>4. CASE DeleteCount
  <2>1. EditsOK' /\ RowsOK' /\ RequestsOK'
    BY <1>0, <1>4 DEF DeleteCount, EditsOK, RowsOK, RequestsOK, edits, rows, exports, sweep
  <2> QED
    BY <1>4, <2>1, SnapshotsAlone, TypeParts DEF DeleteCount
<1> QED
  BY <1>1, <1>2, <1>3, <1>4

\* The deletion: no rows, no marks; requests under way keep their ids.
LEMMA DeleteKeepsXInv ==
    ASSUME XInv, DeleteRow
    PROVE  XInv'
<1>0. EditsOK /\ RowsOK /\ RequestsOK
  BY TypeParts DEF XInv
<1>1. EditsOK'
  BY <1>0, Blanks DEF DeleteRow, EditsOK
<1>2. RowsOK'
  BY SMT, <1>0, Blanks, ExportAssumption DEF DeleteRow, RowsOK
<1>3. RequestsOK'
  BY <1>0 DEF DeleteRow, RequestsOK, exports, sweep
<1>4. Hold' /\ Apart' /\ Unused'
  BY DEF XInv, DeleteRow, exports, Hold, Apart, Unused
<1>5. Rows' = {}
  BY DEF DeleteRow, Rows
<1>6. Kinded' /\ Behind' /\ SnapshotSound' /\ FileIsSnapshot'
  BY <1>5 DEF Kinded, Behind, SnapshotSound, FileIsSnapshot
<1>7. VersionsContiguous'
  <2>1. 0 \in 0..MaxSnaps /\ 1..0 = {}
    BY SMT, ExportAssumption
  <2> QED
    BY <1>5, <2>1 DEF VersionsContiguous
<1>8. ExportedIsBacked'
  BY DEF DeleteRow, ExportedIsBacked
<1> QED
  BY <1>1, <1>2, <1>3, <1>4, <1>6, <1>7, <1>8, TypeParts DEF XInv

\* Retention.
LEMMA RetentionKeepsXInv ==
    ASSUME XInv, Retention
    PROVE  XInv'
<1>0. EditsOK /\ RowsOK /\ RequestsOK
  BY TypeParts DEF XInv
<1>1. ASSUME NEW N \in SUBSET Logged, PurgeBegin(N) PROVE XInv'
  <2>1. EditsOK' /\ RowsOK'
    BY <1>0, <1>1 DEF PurgeBegin, EditsOK, RowsOK, edits, rows
  <2>2. RequestsOK'
    BY <1>0, <1>1 DEF PurgeBegin, RequestsOK, exports, Logged
  <2> QED
    BY <1>1, <2>1, <2>2, SnapshotsAlone, TypeParts DEF PurgeBegin
<1>2. ASSUME NEW n \in Snaps, PurgeUnlink(n) PROVE XInv'
  <2>1. EditsOK' /\ RequestsOK'
    BY <1>0, <1>2 DEF PurgeUnlink, EditsOK, RequestsOK, edits, exports
  <2>2. RowsOK'
    BY <1>0, <1>2, Blanks DEF PurgeUnlink, RowsOK, rows
  <2>3. Rows' = Rows
    BY <1>2 DEF PurgeUnlink, Rows
  <2>4. Hold' /\ Apart'
    BY <1>2 DEF XInv, PurgeUnlink, rows, exports, Hold, Apart
  <2>5. \A m \in Snaps : file'[m] \in {file[m], NoItem}
    BY <1>0, <1>2 DEF PurgeUnlink, RowsOK
  <2>6. Unused' /\ FileIsSnapshot'
    BY <1>2, <2>3, <2>5 DEF XInv, PurgeUnlink, rows, Unused, FileIsSnapshot, Rows
  <2>7. ExportedIsBacked'
    BY <1>2 DEF XInv, PurgeUnlink, rows, ExportedIsBacked
  <2> QED
    BY <1>2, <2>1, <2>2, <2>3, <2>4, <2>6, <2>7, RowsAlone, TypeParts DEF XInv, PurgeUnlink
<1>3. ASSUME NEW n \in Snaps, PurgeSkip(n) PROVE XInv'
  <2>1. EditsOK' /\ RowsOK' /\ RequestsOK'
    BY <1>0, <1>3 DEF PurgeSkip, EditsOK, RowsOK, RequestsOK, edits, rows, exports
  <2> QED
    BY <1>3, <2>1, SnapshotsAlone, TypeParts DEF PurgeSkip
<1>4. CASE PurgeCommit
  <2>1. EditsOK' /\ RequestsOK'
    BY <1>0, <1>4 DEF PurgeCommit, EditsOK, RequestsOK, edits, exports
  <2>2. RowsOK'
    BY <1>0, <1>4 DEF PurgeCommit, RowsOK, rows
  <2>3. Rows' = Rows
    BY <1>4 DEF PurgeCommit, Rows
  <2>4. \A m \in Snaps : exportLog'[m] = "none" <=> exportLog[m] = "none"
    BY <1>0, <1>4 DEF PurgeCommit, RowsOK
  <2>5. Hold' /\ Apart' /\ Unused'
    BY <1>4, <2>4 DEF XInv, PurgeCommit, rows, exports, Hold, Apart, Unused
  <2>6. FileIsSnapshot'
    BY <1>4, <2>3 DEF XInv, PurgeCommit, rows, FileIsSnapshot
  <2>7. \A k \in Kinds : exported[k] # 0 => exported[k] \in Snaps
    BY SMT, <1>0, ExportAssumption DEF RowsOK, Snaps
  <2>8. ExportedIsBacked'
    BY <1>4, <2>4, <2>7 DEF XInv, PurgeCommit, rows, ExportedIsBacked
  <2> QED
    BY <1>4, <2>1, <2>2, <2>3, <2>5, <2>6, <2>8, RowsAlone, TypeParts DEF XInv, PurgeCommit
<1>5. ASSUME NEW N \in SUBSET Generating, PurgeStuck(N) PROVE XInv'
  <2>1. EditsOK' /\ RequestsOK'
    BY <1>0, <1>5 DEF PurgeStuck, EditsOK, RequestsOK, edits, exports
  <2>2. RowsOK'
    BY <1>0, <1>5 DEF PurgeStuck, RowsOK, rows
  <2>3. \A m \in Snaps : /\ gen'[m] = "none" <=> gen[m] = "none"
                         /\ gen[m] = "ready" => gen'[m] = "ready"
    BY <1>0, <1>5 DEF PurgeStuck, RowsOK, Generating
  <2>4. Rows' = Rows
    BY <2>3 DEF Rows
  <2>5. Hold' /\ Apart' /\ Unused'
    BY <1>5, <2>3 DEF XInv, PurgeStuck, rows, exports, Hold, Apart, Unused
  <2>6. FileIsSnapshot'
    BY <1>5, <2>4 DEF XInv, PurgeStuck, rows, FileIsSnapshot
  <2>7. \A k \in Kinds : exported[k] # 0 => exported[k] \in Snaps
    BY SMT, <1>0, ExportAssumption DEF RowsOK, Snaps
  <2>8. ExportedIsBacked'
    BY <1>5, <2>3, <2>7 DEF XInv, PurgeStuck, rows, ExportedIsBacked
  <2> QED
    BY <1>5, <2>1, <2>2, <2>4, <2>5, <2>6, <2>8, RowsAlone, TypeParts DEF XInv, PurgeStuck
<1>6. CASE PurgeDies
  <2>1. EditsOK' /\ RowsOK'
    BY <1>0, <1>6 DEF PurgeDies, EditsOK, RowsOK, edits, rows
  <2>2. kills' \in 0..MaxKills
    <3>1. kills \in 0..MaxKills /\ kills < MaxKills /\ kills' = kills + 1
      BY <1>0, <1>6 DEF PurgeDies, RequestsOK
    <3> QED
      BY SMT, <3>1, ExportAssumption
  <2>3. RequestsOK'
    BY <1>0, <1>6, <2>2 DEF PurgeDies, RequestsOK, exports
  <2> QED
    BY <1>6, <2>1, <2>3, SnapshotsAlone, TypeParts DEF PurgeDies
<1> QED
  BY <1>1, <1>2, <1>3, <1>4, <1>5, <1>6 DEF Retention

\* A request that ends leaves the requests of others as they are.
LEMMA DoneLeaves ==
    ASSUME RequestsOK, NEW x \in Exporters, Done(x)
    PROVE  \A y \in Exporters :
              /\ y = x => epc'[y] = "idle"
              /\ y # x => epc'[y] = epc[y] /\ esnap'[y] = esnap[y] /\ ectx'[y] = ectx[y]
  BY DEF RequestsOK, Done

\* And it stays well typed.
LEMMA DoneType ==
    ASSUME RequestsOK, NEW x \in Exporters, Done(x), UNCHANGED <<dpc, sweep>>
    PROVE  RequestsOK'
<1>1. epc' \in [Exporters -> {"idle", "building", "written"}]
  BY DEF RequestsOK, Done
<1>2. esnap' \in [Exporters -> 0..MaxSnaps]
  <2>1. 0 \in 0..MaxSnaps
    BY SMT, ExportAssumption
  <2> QED
    BY <2>1 DEF RequestsOK, Done
<1>3. ectx' \in [Exporters -> Item]
  BY Blanks DEF RequestsOK, Done
<1> QED
  BY <1>1, <1>2, <1>3 DEF RequestsOK, sweep

\* What the other requests hold is theirs, so that the end of one takes nothing
\* from them.
LEMMA DoneKeepsHold ==
    ASSUME XInv, RequestsOK, NEW x \in Exporters, Done(x), epc[x] # "idle",
           last' = last, frozen' = frozen,
           \A n \in Snaps : /\ gen'[n] = "none" <=> gen[n] = "none"
                            /\ n # esnap[x] => exportLog'[n] = exportLog[n]
    PROVE  Hold' /\ Apart'
<1>1. ASSUME NEW y \in Exporters, epc'[y] # "idle"
      PROVE  epc[y] # "idle" /\ y # x /\ esnap'[y] = esnap[y] /\ ectx'[y] = ectx[y]
  BY <1>1, DoneLeaves
<1>2. Apart'
  BY <1>1 DEF XInv, Apart
<1>3. ASSUME NEW y \in Exporters, epc'[y] # "idle"
      PROVE  /\ esnap'[y] \in Snaps
             /\ esnap'[y] <= last'
             /\ exportLog'[esnap'[y]] = "none"
             /\ gen'[esnap'[y]] # "none" => ectx'[y] = frozen'[esnap'[y]]
  <2>1. epc[y] # "idle" /\ y # x /\ esnap'[y] = esnap[y] /\ ectx'[y] = ectx[y]
    BY <1>1, <1>3
  <2>2. esnap[y] # esnap[x]
    BY <2>1 DEF XInv, Apart
  <2>3. /\ esnap[y] \in Snaps /\ esnap[y] <= last /\ exportLog[esnap[y]] = "none"
        /\ gen[esnap[y]] # "none" => ectx[y] = frozen[esnap[y]]
    BY <2>1 DEF XInv, Hold
  <2> QED
    BY <2>1, <2>2, <2>3
<1>4. Hold'
  BY <1>3 DEF Hold
<1> QED
  BY <1>2, <1>4

-----------------------------------------------------------------------------
(* The steps of an export, and the theorems. *)

\* The steps of an export after the first one.
LEMMA ExportStepKeepsXInv ==
    ASSUME XInv, NEW x \in Exporters, ExportStep(x)
    PROVE  XInv'
<1>0. EditsOK /\ RowsOK /\ RequestsOK
  BY TypeParts DEF XInv
<1>1. epc[x] # "idle" /\ esnap[x] \in Snaps /\ exportLog[esnap[x]] = "none"
  BY DEF XInv, Hold, ExportStep, ExportWrite, ExportFails, ExportFinish, ExportDies
<1>2. \A k \in Kinds : exported[k] # 0 => exported[k] \in Snaps /\ exported[k] # esnap[x]
  BY SMT, <1>0, <1>1, ExportAssumption DEF XInv, RowsOK, Snaps, ExportedIsBacked
<1>4. CASE ExportWrite(x)
  <2>1. EditsOK' /\ RequestsOK'
    <3>1. EditsOK'
      BY <1>0, <1>4 DEF ExportWrite, EditsOK, edits
    <3>2. epc' \in [Exporters -> {"idle", "building", "written"}]
      BY <1>0, <1>4 DEF ExportWrite, RequestsOK
    <3> QED
      BY <1>0, <1>4, <3>1, <3>2 DEF ExportWrite, RequestsOK, sweep
  <2>2. RowsOK'
    BY <1>0, <1>4, Zenon DEF ExportWrite, RowsOK, RequestsOK, rows
  <2>3. Rows' = Rows
    BY <1>4 DEF ExportWrite, Rows
  <2>4. \A y \in Exporters : epc'[y] # "idle" => epc[y] # "idle"
    BY <1>0, <1>1, <1>4 DEF ExportWrite, RequestsOK
  <2>5. Hold' /\ Apart'
    BY <1>4, <2>4 DEF XInv, ExportWrite, rows, Hold, Apart
  <2>6. \A n \in Snaps : n # esnap[x] => file'[n] = file[n]
    BY <1>0, <1>4 DEF ExportWrite, RowsOK
  <2>7. file'[esnap[x]] = ectx[x]
    BY <1>0, <1>1, <1>4 DEF ExportWrite, RowsOK
  <2>8. last \in Nat /\ esnap[x] \in Nat /\ esnap[x] <= last
    BY SMT, <1>0, <1>1, ExportAssumption DEF XInv, Hold, RowsOK, Snaps
  <2>9. \A n \in Snaps : n > last => n # esnap[x]
    BY SMT, <2>8 DEF Snaps
  <2>10. Unused'
    BY <1>4, <2>6, <2>9 DEF XInv, ExportWrite, rows, Unused
  <2>11. FileIsSnapshot'
    BY <1>1, <1>4, <2>3, <2>6, <2>7 DEF XInv, ExportWrite, rows, Hold, Rows, FileIsSnapshot
  <2>12. ExportedIsBacked'
    BY <1>4 DEF XInv, ExportWrite, rows, ExportedIsBacked
  <2> QED
    BY <1>4, <2>1, <2>2, <2>3, <2>5, <2>10, <2>11, <2>12, RowsAlone, TypeParts DEF XInv, ExportWrite
<1>5. CASE ExportFails(x)
  <2>1. EditsOK' /\ RequestsOK'
    <3>1. EditsOK'
      BY <1>0, <1>5 DEF ExportFails, EditsOK, edits
    <3> QED
      BY <1>0, <1>5, <3>1, DoneType DEF ExportFails
  <2>2. RowsOK'
    BY <1>0, <1>5, Zenon DEF ExportFails, RowsOK, rows
  <2>3. \A n \in Snaps : /\ gen'[n] = "none" <=> gen[n] = "none"
                         /\ n # esnap[x] => gen'[n] = gen[n]
    BY <1>0, <1>1, <1>5 DEF ExportFails, RowsOK
  <2>4. Rows' = Rows
    BY <2>3 DEF Rows
  <2>5. Hold' /\ Apart' /\ Unused'
    <3>1. Hold' /\ Apart'
      BY <1>0, <1>1, <1>5, <2>3, DoneKeepsHold DEF ExportFails, rows
    <3>2. Unused'
      BY <1>5, <2>3 DEF XInv, ExportFails, rows, Unused
    <3> QED
      BY <3>1, <3>2
  <2>6. FileIsSnapshot'
    BY <1>5, <2>4 DEF XInv, ExportFails, rows, FileIsSnapshot
  <2>7. ExportedIsBacked'
    <3>1. exported' = exported /\ kind' = kind /\ exportLog' = exportLog
      BY <1>5 DEF ExportFails, rows
    <3>2. ASSUME NEW k \in Kinds, exported[k] # 0
          PROVE  gen'[exported[k]] = gen[exported[k]]
      BY <1>2, <1>5, <2>3, <3>2
    <3> QED
      BY <3>1, <3>2 DEF XInv, ExportedIsBacked
  <2> QED
    BY <1>5, <2>1, <2>2, <2>4, <2>5, <2>6, <2>7, RowsAlone, TypeParts, Zenon DEF XInv, ExportFails
<1>6. CASE ExportFinish(x)
  <2>0. esnap[x] \in Rows /\ kind[esnap[x]] \in Kinds
    BY <1>1, <1>6 DEF XInv, ExportFinish, Kinded, Rows
  <2>1. EditsOK' /\ RequestsOK'
    <3>1. EditsOK'
      BY <1>0, <1>6 DEF ExportFinish, EditsOK, edits
    <3> QED
      BY <1>0, <1>6, <3>1, DoneType DEF ExportFinish
  <2>2. RowsOK'
    BY <1>0, <1>6, <2>0, Zenon DEF ExportFinish, RowsOK, RequestsOK, rows
  <2>3. \A n \in Snaps : /\ gen'[n] = "none" <=> gen[n] = "none"
                         /\ n # esnap[x] => gen'[n] = gen[n] /\ exportLog'[n] = exportLog[n]
    BY <1>0, <1>1, <1>6 DEF ExportFinish, RowsOK
  <2>4. Rows' = Rows
    BY <2>3 DEF Rows
  <2>5. gen'[esnap[x]] = "ready" /\ exportLog'[esnap[x]] = "logged"
    BY <1>0, <1>1, <1>6 DEF ExportFinish, RowsOK
  <2>7. Hold' /\ Apart'
    BY <1>0, <1>1, <1>6, <2>3, DoneKeepsHold DEF ExportFinish, rows
  <2>8. \A n \in Snaps : n > last => n # esnap[x]
    BY <2>0 DEF XInv, Unused, Rows
  <2>9. Unused'
    BY <1>6, <2>3, <2>8 DEF XInv, ExportFinish, rows, Unused
  <2>10. FileIsSnapshot'
    BY <1>6, <2>4 DEF XInv, ExportFinish, rows, FileIsSnapshot
  <2>11. \A k \in Kinds : exported'[k] = IF k = kind[esnap[x]] THEN esnap[x] ELSE exported[k]
    BY <1>0, <1>6 DEF ExportFinish, RowsOK
  <2>12. ExportedIsBacked'
    BY SMT, <1>2, <1>6, <2>3, <2>5, <2>11 DEF XInv, ExportFinish, rows, ExportedIsBacked
  <2> QED
    BY <1>6, <2>1, <2>2, <2>4, <2>7, <2>9, <2>10, <2>12, RowsAlone, TypeParts DEF XInv, ExportFinish
<1>7. CASE ExportDies(x)
  <2>1. EditsOK' /\ RequestsOK'
    <3>1. EditsOK'
      BY <1>0, <1>7 DEF ExportDies, EditsOK, edits
    <3> QED
      BY <1>0, <1>7, <3>1, DoneType DEF ExportDies
  <2>2. RowsOK'
    BY <1>0, <1>7 DEF ExportDies, RowsOK, rows
  <2>3. Rows' = Rows
    BY <1>7 DEF ExportDies, Rows
  <2>4. Hold' /\ Apart' /\ Unused'
    <3>1. Hold' /\ Apart'
      BY <1>0, <1>1, <1>7, DoneKeepsHold DEF ExportDies, rows
    <3>2. Unused'
      BY <1>7 DEF XInv, ExportDies, rows, Unused
    <3> QED
      BY <3>1, <3>2
  <2>5. FileIsSnapshot' /\ ExportedIsBacked'
    BY <1>7, <2>3 DEF XInv, ExportDies, rows, FileIsSnapshot, ExportedIsBacked
  <2> QED
    BY <1>7, <2>1, <2>2, <2>3, <2>4, <2>5, RowsAlone, TypeParts DEF XInv, ExportDies
<1> QED
  BY <1>4, <1>5, <1>6, <1>7 DEF ExportStep

\* The version given to the next snapshot is one more than the versions there.
LEMMA NextVersionValue ==
    ASSUME NEW k \in Kinds, NEW m \in Nat,
           {version[n] : n \in {o \in Rows : kind[o] = k}} = 1..m
    PROVE  NextVersion(k) = m + 1
<1> DEFINE taken == {version[n] : n \in {o \in Rows : kind[o] = k}}
           P(v) == \A u \in taken : u <= v
<1>1. m \in taken \cup {0} /\ P(m)
  BY SMT
<1>2. \A v \in taken \cup {0} : P(v) => v = m
  <2> SUFFICES ASSUME NEW v \in (1..m) \cup {0}, \A u \in 1..m : u <= v PROVE v = m
    OBVIOUS
  <2>1. CASE m = 0
    BY SMT, <2>1
  <2>2. CASE m # 0
    <3>1. m \in 1..m
      BY SMT, <2>2
    <3>2. m <= v
      BY <3>1
    <3> QED
      BY SMT, <3>2
  <2> QED
    BY <2>1, <2>2
<1>3. (CHOOSE v \in taken \cup {0} : P(v)) = m
  <2> HIDE DEF taken, P
  <2> QED
    BY <1>1, <1>2
<1>4. NextVersion(k) = 1 + (CHOOSE v \in taken \cup {0} : P(v))
  BY DEF NextVersion
<1>5. NextVersion(k) = 1 + m
  <2> HIDE DEF taken, P
  <2> QED
    BY <1>3, <1>4, Zenon
<1> QED
  BY SMT, <1>5

\* A transaction adds the snapshot n of type k, version v and item i.
Adds(n, k, v, i) ==
    /\ n \in Snaps /\ gen[n] = "none" /\ gen'[n] = "generating"
    /\ kind'[n] = k /\ version'[n] = v /\ frozen'[n] = i
    /\ \A o \in Snaps : o # n => /\ kind'[o] = kind[o] /\ version'[o] = version[o]
                                 /\ frozen'[o] = frozen[o] /\ gen'[o] = gen[o]

\* Then there is one row more, and the others are as they were.
LEMMA AddsRow ==
    ASSUME NEW n, NEW k, NEW v, NEW i, Adds(n, k, v, i)
    PROVE  /\ Rows' = Rows \cup {n} /\ n \notin Rows
           /\ \A o \in Rows : o \in Snaps /\ o # n
  BY DEF Adds, Rows

\* The new row has a type.
LEMMA AddsKinded ==
    ASSUME NEW n, NEW k \in Kinds, NEW v, NEW i, Adds(n, k, v, i), Kinded
    PROVE  Kinded'
  BY AddsRow DEF Adds, Kinded

\* No version runs ahead of the last id when a row is added.
LEMMA AddsBehind ==
    ASSUME NEW n, NEW k, NEW v \in Nat, NEW i, Adds(n, k, v, i), Behind, RowsOK,
           last' = last + 1, v <= last + 1
    PROVE  Behind'
<1>1. ASSUME NEW o \in Rows PROVE version'[o] <= last'
  <2>1. o \in Snaps /\ version'[o] = version[o]
    BY AddsRow DEF Adds
  <2>2. version[o] \in Nat /\ last \in Nat /\ version[o] <= last
    BY SMT, <2>1, ExportAssumption DEF Behind, RowsOK
  <2> QED
    BY SMT, <2>1, <2>2
<1>2. version'[n] <= last'
  BY DEF Adds
<1> QED
  BY SMT, <1>1, <1>2, AddsRow DEF Behind

\* What is exportable is sound when it is frozen.
LEMMA AddsSound ==
    ASSUME NEW n, NEW k \in Kinds, NEW v, NEW i, Adds(n, k, v, i), SnapshotSound, Exportable(k, i)
    PROVE  SnapshotSound'
<1> DEFINE Sound(l, it) == /\ l = "procurement" => it.purchase > 0
                           /\ l = "restock" => it.country > 0 /\ ItemConsistent(it)
<1>1. Sound(k, i)
  BY DEF Exportable, ItemConsistent
<1>2. \A o \in Rows : Sound(kind[o], frozen[o])
  BY DEF SnapshotSound
<1> HIDE DEF Sound
<1>3. \A o \in Rows' : Sound(kind'[o], frozen'[o])
  BY SMT, <1>1, <1>2, AddsRow DEF Adds
<1> QED
  BY <1>3 DEF Sound, SnapshotSound

\* There is no file of the new row yet.
LEMMA AddsFile ==
    ASSUME NEW n, NEW k, NEW v, NEW i, Adds(n, k, v, i), FileIsSnapshot, file' = file,
           file[n] = NoItem
    PROVE  FileIsSnapshot'
<1>1. ASSUME NEW o \in Rows', file'[o] # NoItem PROVE file'[o] = frozen'[o]
  <2>1. o \in Rows /\ o # n /\ o \in Snaps
    BY SMT, <1>1, AddsRow
  <2>2. frozen'[o] = frozen[o]
    BY <2>1 DEF Adds
  <2> QED
    BY <1>1, <2>1, <2>2 DEF FileIsSnapshot
<1> QED
  BY <1>1 DEF FileIsSnapshot

\* What is marked as exported is an older row.
LEMMA AddsBacked ==
    ASSUME NEW n, NEW k, NEW v, NEW i, Adds(n, k, v, i), ExportedIsBacked, RowsOK,
           exported' = exported, exportLog' = exportLog
    PROVE  ExportedIsBacked'
<1>1. ASSUME NEW j \in Kinds, exported[j] # 0 PROVE exported[j] \in Snaps /\ exported[j] # n
  <2>1. exported[j] \in Snaps
    BY SMT, <1>1, ExportAssumption DEF RowsOK, Snaps
  <2>2. gen[exported[j]] = "ready"
    BY <1>1 DEF ExportedIsBacked
  <2> QED
    BY <2>1, <2>2 DEF Adds
<1> QED
  BY <1>1 DEF Adds, ExportedIsBacked

\* Versions 1..m of a type become 1..m+1; those of the other type stay.
LEMMA AddsVersions ==
    ASSUME NEW n, NEW k \in Kinds, NEW m \in Nat, NEW i, Adds(n, k, m + 1, i), VersionsContiguous,
           {version[o] : o \in {q \in Rows : kind[q] = k}} = 1..m, m + 1 \in 0..MaxSnaps
    PROVE  VersionsContiguous'
<1> DEFINE of(j) == {o \in Rows : kind[o] = j}
           ofn(j) == {o \in Rows' : kind'[o] = j}
           Good(S, f) == /\ \E l \in 0..MaxSnaps : {f[o] : o \in S} = 1..l
                         /\ \A o, q \in S : f[o] = f[q] => o = q
<1>1. ofn(k) = of(k) \cup {n} /\ n \notin of(k)
  BY AddsRow DEF Adds
<1>2. \A j \in Kinds : j # k => ofn(j) = of(j)
  BY SMT, AddsRow DEF Adds
<1>3. \A j \in Kinds : \A o \in of(j) : version'[o] = version[o]
  BY AddsRow DEF Adds
<1>4. version'[n] = m + 1
  BY DEF Adds
<1>5. \A j \in Kinds : Good(of(j), version)
  BY DEF VersionsContiguous
<1>6. {version[o] : o \in of(k)} = 1..m
  OBVIOUS
<1> HIDE DEF of, ofn
<1>7. Good(ofn(k), version')
  <2>1. \A o \in of(k) : version'[o] = version[o] /\ version[o] \in 1..m
    BY <1>3, <1>6
  <2>2. {version'[o] : o \in ofn(k)} = {version[o] : o \in of(k)} \cup {m + 1}
    BY SMT, <1>1, <1>4, <2>1
  <2>3. {version'[o] : o \in ofn(k)} = 1..(m + 1)
    BY SMT, <1>6, <2>2
  <2>4. \A o \in of(k) : version'[o] # m + 1
    BY SMT, <2>1
  <2>5. \A o, q \in of(k) : version[o] = version[q] => o = q
    BY <1>5
  <2>6. \A o, q \in ofn(k) : version'[o] = version'[q] => o = q
    BY <1>1, <1>4, <2>1, <2>4, <2>5
  <2> QED
    BY <2>3, <2>6
<1>8. ASSUME NEW j \in Kinds, j # k PROVE Good(ofn(j), version')
  <2>1. \A o \in ofn(j) : version'[o] = version[o]
    BY <1>2, <1>3, <1>8
  <2>2. {version'[o] : o \in ofn(j)} = {version[o] : o \in of(j)}
    BY <1>2, <1>8, <2>1
  <2> QED
    BY SMT, <1>2, <1>5, <1>8, <2>1, <2>2
<1> HIDE DEF Good
<1>9. \A j \in Kinds : Good(ofn(j), version')
  BY <1>7, <1>8
<1> QED
  BY <1>9 DEF VersionsContiguous, Good, ofn

\* The request that has added a row holds it, and nobody else does.
LEMMA AddsHold ==
    ASSUME NEW n, NEW k, NEW v, NEW i, Adds(n, k, v, i), Hold, Apart, RequestsOK, RowsOK,
           NEW x \in Exporters, n = last + 1, last' = n, exportLog' = exportLog, exportLog[n] = "none",
           epc' = [epc EXCEPT ![x] = "building"], esnap' = [esnap EXCEPT ![x] = n],
           ectx' = [ectx EXCEPT ![x] = i]
    PROVE  Hold' /\ Apart'
<1>1. esnap'[x] = n /\ ectx'[x] = i
  BY DEF RequestsOK
<1>2. ASSUME NEW y \in Exporters, y # x, epc'[y] # "idle"
      PROVE  /\ epc[y] # "idle" /\ esnap'[y] = esnap[y] /\ ectx'[y] = ectx[y]
             /\ esnap[y] \in Snaps /\ esnap[y] <= last /\ esnap[y] # n /\ esnap[y] <= last'
  <2>1. epc[y] # "idle" /\ esnap'[y] = esnap[y] /\ ectx'[y] = ectx[y]
    BY <1>2 DEF RequestsOK
  <2>2. esnap[y] \in Snaps /\ esnap[y] <= last
    BY <2>1 DEF Hold
  <2>3. last \in Nat
    BY SMT, ExportAssumption DEF RowsOK
  <2>4. esnap[y] # n /\ esnap[y] <= last'
    BY SMT, <2>2, <2>3 DEF Snaps
  <2> QED
    BY <2>1, <2>2, <2>4
<1>3. Apart'
  BY SMT, <1>1, <1>2 DEF Apart
<1>4. ASSUME NEW y \in Exporters, epc'[y] # "idle"
      PROVE  /\ esnap'[y] \in Snaps
             /\ esnap'[y] <= last'
             /\ exportLog'[esnap'[y]] = "none"
             /\ gen'[esnap'[y]] # "none" => ectx'[y] = frozen'[esnap'[y]]
  <2>1. CASE y = x
    <3>1. n \in Nat
      BY SMT DEF Adds, Snaps
    <3>2. n \in Snaps /\ exportLog'[n] = "none" /\ frozen'[n] = i /\ n <= last'
      BY SMT, <3>1 DEF Adds
    <3>3. esnap'[y] = n /\ ectx'[y] = i
      BY <1>1, <2>1
    <3> QED
      BY <3>2, <3>3
  <2>2. CASE y # x
    <3>1. /\ epc[y] # "idle" /\ esnap'[y] = esnap[y] /\ ectx'[y] = ectx[y]
          /\ esnap[y] \in Snaps /\ esnap[y] # n /\ esnap[y] <= last'
      BY <1>2, <1>4, <2>2
    <3>2. gen'[esnap[y]] = gen[esnap[y]] /\ frozen'[esnap[y]] = frozen[esnap[y]]
      BY <3>1 DEF Adds
    <3> QED
      BY <3>1, <3>2, Zenon DEF Hold
  <2> QED
    BY <2>1, <2>2
<1>5. Hold'
  BY <1>4 DEF Hold
<1> QED
  BY <1>3, <1>5

\* The first transaction of an export.
LEMMA ExportBeginKeepsXInv ==
    ASSUME XInv, NEW x \in Exporters, NEW k \in Kinds, ExportBegin(x, k)
    PROVE  XInv'
<1> DEFINE new == last + 1
<1>0. EditsOK /\ RowsOK /\ RequestsOK
  BY TypeParts DEF XInv
<1>1. last \in Nat /\ new \in Snaps /\ new > last /\ new \in 0..MaxSnaps
  <2>1. last \in 0..MaxSnaps /\ last < MaxSnaps
    BY <1>0 DEF ExportBegin, RowsOK
  <2> QED
    BY SMT, <2>1, ExportAssumption DEF Snaps
<1>2. gen[new] = "none" /\ exportLog[new] = "none" /\ file[new] = NoItem
  BY <1>1 DEF XInv, Unused
<1>3. PICK m \in 0..MaxSnaps : {version[n] : n \in {o \in Rows : kind[o] = k}} = 1..m
  BY DEF XInv, VersionsContiguous
<1>4. m \in Nat /\ m <= last
  <2>1. m \in Nat
    BY SMT, <1>3, ExportAssumption
  <2>2. CASE m = 0
    BY SMT, <1>1, <2>2
  <2>3. CASE m # 0
    <3>1. m \in 1..m
      BY SMT, <2>1, <2>3
    <3>2. PICK n \in Rows : version[n] = m
      BY <1>3, <3>1
    <3> QED
      BY <2>1, <3>2 DEF XInv, Behind
  <2> QED
    BY <2>1, <2>2, <2>3
<1>5. NextVersion(k) = m + 1
  BY <1>3, <1>4, NextVersionValue
<1>6. m + 1 \in 0..MaxSnaps /\ m + 1 \in Nat /\ m + 1 <= new
  BY SMT, <1>1, <1>4, ExportAssumption DEF Snaps
<1>7. /\ last' = new
      /\ kind' = [kind EXCEPT ![new] = k]
      /\ version' = [version EXCEPT ![new] = m + 1]
      /\ frozen' = [frozen EXCEPT ![new] = item]
      /\ gen' = [gen EXCEPT ![new] = "generating"]
      /\ epc' = [epc EXCEPT ![x] = "building"]
      /\ esnap' = [esnap EXCEPT ![x] = new]
      /\ ectx' = [ectx EXCEPT ![x] = item]
      /\ exportLog' = exportLog /\ file' = file /\ exported' = exported
      /\ Exportable(k, item)
  BY <1>5 DEF ExportBegin
<1>8. new = last + 1
  OBVIOUS
<1> HIDE DEF new
<1>9. TypeOK'
  <2>1. EditsOK'
    BY <1>0 DEF ExportBegin, EditsOK, edits
  <2>2. RowsOK'
    BY <1>0, <1>1, <1>6, <1>7 DEF RowsOK, EditsOK
  <2>3. UNCHANGED <<dpc, rpc, due, done, kills>>
    BY DEF ExportBegin, sweep
  <2>4. RequestsOK'
    BY <1>0, <1>1, <1>7, <2>3 DEF RequestsOK, EditsOK
  <2> QED
    BY <2>1, <2>2, <2>4, TypeParts
<1>10. Adds(new, k, m + 1, item)
  BY <1>0, <1>1, <1>2, <1>7 DEF RowsOK, Adds
<1>11. Hold' /\ Apart'
  BY <1>0, <1>2, <1>7, <1>8, <1>10, AddsHold, Zenon DEF XInv
<1>12. Unused'
  <2>1. \A n \in Snaps : n > new => n > last /\ n # new
    BY SMT, <1>1, <1>8 DEF Snaps
  <2> QED
    BY SMT, <1>7, <1>10, <2>1 DEF XInv, Unused, Adds
<1>13. Kinded' /\ SnapshotSound'
  BY <1>7, <1>10, AddsKinded, AddsSound DEF XInv
<1>14. Behind'
  BY <1>0, <1>6, <1>7, <1>8, <1>10, AddsBehind DEF XInv
<1>15. FileIsSnapshot' /\ ExportedIsBacked'
  BY <1>0, <1>2, <1>7, <1>10, AddsFile, AddsBacked DEF XInv
<1>16. VersionsContiguous'
  BY <1>3, <1>4, <1>6, <1>10, AddsVersions, Zenon DEF XInv
<1> QED
  BY <1>9, <1>11, <1>12, <1>13, <1>14, <1>15, <1>16 DEF XInv

\* Every step keeps it.
LEMMA NextKeepsXInv == XInv /\ [ExportNext]_exportVars => XInv'
<1> SUFFICES ASSUME XInv, [ExportNext]_exportVars PROVE XInv'
  OBVIOUS
<1>1. CASE UNCHANGED exportVars
  <2>1. TypeOK'
    BY <1>1 DEF XInv, TypeOK, exportVars, edits, rows, exports, sweep
  <2> QED
    BY <1>1, <2>1, SnapshotsAlone DEF exportVars
<1>2. CASE ExportNext
  BY <1>2, EditKeepsXInv, DeleteKeepsXInv, RetentionKeepsXInv, ExportBeginKeepsXInv,
     ExportStepKeepsXInv DEF ExportNext
<1> QED
  BY <1>1, <1>2

\* For any number of snapshots, edits and requests, the types and what each
\* request under way holds are as described.
THEOREM ExportInvariant == ExportSpec => []XInv
  BY InitXInv, NextKeepsXInv, PTL DEF ExportSpec

\* Every snapshot is exportable, whatever concurrent edits do to the item.
THEOREM SnapshotSoundTheorem == ExportSpec => []SnapshotSound
<1>1. XInv => SnapshotSound
  BY DEF XInv
<1> QED
  BY <1>1, ExportInvariant, PTL

\* A workbook on disk has the content of its snapshot.
THEOREM FileIsSnapshotTheorem == ExportSpec => []FileIsSnapshot
<1>1. XInv => FileIsSnapshot
  BY DEF XInv
<1> QED
  BY <1>1, ExportInvariant, PTL

\* The versions of a type have no gaps and no duplicates.
THEOREM VersionsTheorem == ExportSpec => []VersionsContiguous
<1>1. XInv => VersionsContiguous
  BY DEF XInv
<1> QED
  BY <1>1, ExportInvariant, PTL

\* An exported mark is backed by a ready, logged snapshot of its type.
THEOREM ExportedIsBackedTheorem == ExportSpec => []ExportedIsBacked
<1>1. XInv => ExportedIsBacked
  BY DEF XInv
<1> QED
  BY <1>1, ExportInvariant, PTL

-----------------------------------------------------------------------------
(* The client.  SingleFlight is not inductive: a second refresh is only     *)
(* kept from starting by the future, so the invariant says that a refresh   *)
(* under way is the one the future belongs to.                              *)

\* Between its request and the end of its UPSERT.
InFlight(r) == refresh[r] \in {"http", "upsert"}

\* The inductive invariant: whoever is in flight is what the future waits for.
FutureIsFlight ==
    /\ refresh \in [Tasks -> {"none", "http", "upsert", "clearing"}]
    /\ future \in Tasks \cup {0}
    /\ \A r \in Tasks : InFlight(r) => future = r

\* A caller that needs a refresh joins the one in flight or starts one when there is none
\* (_get_or_start_refresh_locked).
LEMMA JoinKeeps ==
    ASSUME FutureIsFlight, NEW c \in Callers, JoinRefresh(c)
    PROVE  FutureIsFlight'
  <1>1. PICK r \in Tasks :
            IF future # 0 /\ refresh[future] \in {"http", "upsert"}
            THEN r = future /\ UNCHANGED <<refresh, future>>
            ELSE /\ refresh[r] \in {"none", "clearing"}
                 /\ refresh' = [refresh EXCEPT ![r] = "http"]
                 /\ future' = r
    BY DEF JoinRefresh
  <1>2. CASE future # 0 /\ refresh[future] \in {"http", "upsert"}
    BY <1>1, <1>2 DEF FutureIsFlight, InFlight
  <1>3. CASE ~(future # 0 /\ refresh[future] \in {"http", "upsert"})
    <2>1. \A q \in Tasks : ~InFlight(q)
      BY SMT, <1>3 DEF FutureIsFlight, InFlight, Tasks
    <2>2. refresh' = [refresh EXCEPT ![r] = "http"] /\ future' = r
      BY <1>1, <1>3
    <2> QED
      BY <2>1, <2>2 DEF FutureIsFlight, InFlight
  <1> QED
    BY <1>2, <1>3

\* The steps of a caller: only those that need a refresh touch it.
LEMMA ClientKeeps ==
    ASSUME FutureIsFlight, NEW c \in Callers, Client(c)
    PROVE  FutureIsFlight'
  <1>1. CASE GetToken(c)
    <2>1. CASE Usable(mem)
      BY <1>1, <2>1 DEF GetToken, FutureIsFlight, InFlight
    <2>2. CASE ~Usable(mem)
      BY <1>1, <2>2, JoinKeeps DEF GetToken
    <2> QED
      BY <2>1, <2>2
  <1>2. CASE GetTokenLoad(c)
    BY <1>2 DEF GetTokenLoad, FutureIsFlight, InFlight
  <1>3. CASE GetTokenLoaded(c)
    <2>1. CASE Usable(mem)'
      BY <1>3, <2>1 DEF GetTokenLoaded, FutureIsFlight, InFlight, Usable
    <2>2. CASE ~Usable(mem)'
      BY <1>3, <2>2, JoinKeeps DEF GetTokenLoaded, Usable
    <2> QED
      BY <2>1, <2>2
  <1>4. CASE ForceRefresh(c)
    BY <1>4, JoinKeeps DEF ForceRefresh
  <1>5. CASE Send(c)
    BY <1>5 DEF Send, token, FutureIsFlight, InFlight
  <1> QED
    BY <1>1, <1>2, <1>3, <1>4, <1>5 DEF Client

\* The steps of a refresh (_run_refresh): it keeps the future until it has left the
\* flight, and clears no other one.
LEMMA RefreshKeeps ==
    ASSUME FutureIsFlight, NEW r \in Tasks, Refresh(r)
    PROVE  FutureIsFlight'
  <1>1. CASE RefreshIssued(r)
    BY <1>1 DEF RefreshIssued, FutureIsFlight, InFlight
  <1>2. CASE RefreshSaved(r)
    BY <1>2 DEF RefreshSaved, FutureIsFlight, InFlight
  <1>3. CASE RefreshFails(r)
    BY <1>3 DEF RefreshFails, FutureIsFlight, InFlight
  <1>4. CASE RefreshCleared(r)
    BY <1>4 DEF RefreshCleared, FutureIsFlight, InFlight
  <1> QED
    BY <1>1, <1>2, <1>3, <1>4 DEF Refresh

\* The invariant holds of every behaviour.
THEOREM FutureInvariant == RetrySpec => []FutureIsFlight
  <1>1. RetryInit => FutureIsFlight
    BY DEF RetryInit, ClientInit, FutureIsFlight, InFlight
  <1>2. FutureIsFlight /\ [RetryNext]_apiVars => FutureIsFlight'
    <2> SUFFICES ASSUME FutureIsFlight, [RetryNext]_apiVars
                 PROVE  FutureIsFlight'
      OBVIOUS
    <2>1. CASE UNCHANGED <<refresh, future>>
      BY <2>1 DEF FutureIsFlight, InFlight
    <2>2. CASE \E c \in Callers : Client(c)
      BY <2>2, ClientKeeps
    <2>3. CASE \E r \in Tasks : Refresh(r)
      BY <2>3, RefreshKeeps
    <2>4. ASSUME NEW x \in Executions, Crash(x)
          PROVE  FutureIsFlight'
      <3>1. \/ UNCHANGED <<refresh, future>>
            \/ future' = 0 /\ refresh' = [r \in Tasks |-> "none"]
        BY <2>4 DEF Crash
      <3> QED
        BY <2>1, <3>1 DEF FutureIsFlight, InFlight
    <2>5. CASE TokenExpires
      BY <2>5, <2>1 DEF TokenExpires, Expire
    <2>6. CASE \E c \in Callers : JobCall(c) \/ JobReturn(c)
      BY <2>6, <2>1 DEF JobCall, JobReturn, Post, token
    <2>7. CASE Schedule \/ LeaseLost \/ Reap
      BY <2>7, <2>1 DEF Schedule, LeaseLost, Reap, clientVars, token
    <2>8. ASSUME NEW x \in Executions, Execute(x) \/ TaskFails(x)
          PROVE  FutureIsFlight'
      BY <2>8, <2>1 DEF Execute, Load, SkipBusy, Replay, Mark, Finish, TaskFails, Post, clientVars, token
    <2>9. CASE \E m \in Monitors : RetryEnqueue(m) \/ \E i \in Ids : RetryRead(m, i)
      BY <2>9, <2>1 DEF RetryEnqueue, RetryRead, clientVars, token
    <2>10. CASE UNCHANGED apiVars
      BY <2>10, <2>1 DEF apiVars, clientVars, token
    <2> QED
      BY <2>2, <2>3, <2>4, <2>5, <2>6, <2>7, <2>8, <2>9, <2>10 DEF RetryNext
  <1> QED
    BY <1>1, <1>2, PTL DEF RetrySpec

\* At most one refresh is in flight at any time (token.py, _get_or_start_refresh_locked).
THEOREM SingleFlightHolds == RetrySpec => []SingleFlight
  <1>1. FutureIsFlight => SingleFlight
    BY DEF FutureIsFlight, InFlight, SingleFlight
  <1> QED
    BY <1>1, FutureInvariant, PTL

-----------------------------------------------------------------------------
(* The queue of calls to be replayed.  QueueAlive follows from what the     *)
(* executions hold: a row is loaded while it has attempts left, an          *)
(* execution holds it once, and a mark takes it out of hand.  So the        *)
(* attempts of a row and the executions that hold it are together no more   *)
(* than MaxAuto - 1 and all executions.                                     *)

LogRow == [status : {"none", "queued", "resolved", "permanent"}, tries : Nat]

\* The rows of the log; one that nobody has queued has not been tried.
LogOK ==
    /\ log \in Seq(LogRow)
    /\ \A i \in Ids : log[i].status = "none" => log[i].tries = 0

\* The rows an execution has loaded and not marked, each of them once.
InHand(x) == batch[x] \cup (IF cur[x] = <<>> THEN {} ELSE {cur[x][1]})
HandOK(x) ==
    /\ \A row \in InHand(x) : row.id \in Ids /\ row.tries \in Nat /\ row.tries < MaxAuto
    /\ \A row, other \in batch[x] : row.id = other.id => row = other
    /\ cur[x] # <<>> => \A row \in batch[x] : row.id # cur[x][1].id

\* The executions that may still count a row up.
Holders(i) == {x \in Executions : \E row \in InHand(x) : row.id = i}
AttemptsOK == \A i \in Ids : log[i].tries + Cardinality(Holders(i)) <= MaxAuto + Cardinality(Elsewhere)

\* Who waits in the queue has an attempt left, but for the two races.
WaitingOK ==
    \A i \in Ids : log[i].status = "queued" => log[i].tries < MaxAuto \/ i \in reopened \cup outrun

ReadOK(m) == mon[m].pc = "read" => mon[m].id \in Ids /\ mon[m].base \in {"none", "queued"}

RetryInv ==
    /\ LogOK /\ AttemptsOK /\ WaitingOK
    /\ batch = [x \in Executions |-> batch[x]] /\ cur = [x \in Executions |-> cur[x]]
    /\ \A x \in Executions : HandOK(x)
    /\ mon = [m \in Monitors |-> mon[m]] /\ \A m \in Monitors : ReadOK(m)

\* The executions are finitely many, and so are those that hold a row.
LEMMA FewHold ==
    /\ IsFiniteSet(Executions) /\ Cardinality(Elsewhere) \in Nat
    /\ Cardinality(Executions) = Cardinality(Elsewhere) + 1
    /\ \A S \in SUBSET Executions :
          /\ IsFiniteSet(S) /\ Cardinality(S) \in Nat
          /\ Cardinality(S) <= Cardinality(Executions)
          /\ \A T \in SUBSET S :
                /\ Cardinality(T) <= Cardinality(S)
                /\ \A x \in S : x \notin T => Cardinality(T) + 1 <= Cardinality(S)
  <1>1. IsFiniteSet(Elsewhere) /\ Replayer \notin Elsewhere
    BY RetryAssumption
  <1>2. /\ IsFiniteSet(Executions) /\ Cardinality(Elsewhere) \in Nat
        /\ Cardinality(Executions) = Cardinality(Elsewhere) + 1
    BY <1>1, FS_AddElement, FS_CardinalityType DEF Executions
  <1>3. ASSUME NEW S \in SUBSET Executions
        PROVE  /\ IsFiniteSet(S) /\ Cardinality(S) \in Nat
               /\ Cardinality(S) <= Cardinality(Executions)
    BY <1>2, FS_Subset, FS_CardinalityType
  <1>4. ASSUME NEW S \in SUBSET Executions, NEW T \in SUBSET S
        PROVE  Cardinality(T) <= Cardinality(S)
    BY <1>3, FS_Subset
  <1>5. ASSUME NEW S \in SUBSET Executions, NEW T \in SUBSET S, NEW x \in S, x \notin T
        PROVE  Cardinality(T) + 1 <= Cardinality(S)
    <2>1. T \subseteq S \ {x} /\ S \ {x} \in SUBSET Executions
      BY <1>5
    <2>2. Cardinality(T) <= Cardinality(S \ {x}) /\ Cardinality(T) \in Nat
      <3>1. T \in SUBSET Executions
        OBVIOUS
      <3> QED
        BY <1>3, <1>4, <2>1, <3>1
    <2>3. Cardinality(S \ {x}) = Cardinality(S) - 1
      BY <1>3, FS_RemoveElement
    <2>4. Cardinality(S) \in Nat
      BY <1>3
    <2> HIDE DEF Executions
    <2> QED
      BY SMT, <2>2, <2>3, <2>4
  <1> QED
    BY <1>2, <1>3, <1>4, <1>5

\* A row of the log is typed.
LEMMA RowTyped ==
    ASSUME LogOK, NEW i \in Ids
    PROVE  i \in 1..Len(log) /\ log[i] \in LogRow /\ log[i].tries \in Nat
  <1>1. i \in 1..Len(log) /\ log \in Seq(LogRow)
    BY DEF LogOK, Ids
  <1>2. log[i] \in LogRow
    BY SMT, <1>1
  <1> QED
    BY <1>1, <1>2 DEF LogRow

\* The attempts stay bounded where the log stays and fewer executions hold a row.
LEMMA AttemptsStay ==
    ASSUME RetryInv, NEW i \in Ids, log'[i].tries = log[i].tries, Holders(i)' \subseteq Holders(i)
    PROVE  log'[i].tries + Cardinality(Holders(i)') <= MaxAuto + Cardinality(Elsewhere)
  <1>1. log[i].tries + Cardinality(Holders(i)) <= MaxAuto + Cardinality(Elsewhere)
    BY DEF RetryInv, AttemptsOK
  <1>2. Holders(i) \in SUBSET Executions
    BY DEF Holders
  <1>3. /\ Cardinality(Holders(i)') <= Cardinality(Holders(i))
        /\ Cardinality(Holders(i)') \in Nat /\ Cardinality(Holders(i)) \in Nat
        /\ Cardinality(Elsewhere) \in Nat
    BY <1>2, FewHold
  <1>4. log[i].tries \in Nat /\ MaxAuto \in Nat
    BY RetryAssumption, RowTyped DEF RetryInv
  <1> QED
    BY SMT, <1>1, <1>3, <1>4

\* Steps that touch nothing of it.
LEMMA RetryQuiet ==
    ASSUME RetryInv, UNCHANGED <<log, batch, cur, mon, reopened, outrun>>
    PROVE  RetryInv'
  BY DEF RetryInv, LogOK, AttemptsOK, WaitingOK, HandOK, InHand, Holders, ReadOK, Ids

\* An execution goes on with a row, or lets go of some.
LetsGo(x) ==
    /\ batch'[x] \subseteq batch[x]
    /\ \/ cur'[x] = <<>> \/ cur'[x] = cur[x]
       \/ \E row \in batch[x] : cur'[x] = <<row>> /\ row \notin batch'[x]

\* What it has in hand is still in order.
LEMMA LessInHand ==
    ASSUME RetryInv, NEW x \in Executions, LetsGo(x), Ids' = Ids
    PROVE  HandOK(x)' /\ InHand(x)' \subseteq InHand(x)
  <1>1. HandOK(x)
    BY DEF RetryInv
  <1>2. CASE cur'[x] = <<>> \/ cur'[x] = cur[x]
    BY <1>1, <1>2 DEF LetsGo, HandOK, InHand
  <1>3. ASSUME NEW row \in batch[x], cur'[x] = <<row>>, row \notin batch'[x]
        PROVE  HandOK(x)' /\ InHand(x)' \subseteq InHand(x)
    <2>1. cur'[x] # <<>> /\ cur'[x][1] = row
      BY SMT, <1>3
    <2>2. batch'[x] \subseteq batch[x]
      BY DEF LetsGo
    <2>3. InHand(x)' = batch'[x] \cup {row} /\ InHand(x)' \subseteq batch[x] /\ batch[x] \subseteq InHand(x)
      BY <2>1, <2>2 DEF InHand
    <2> QED
      BY <1>1, <1>3, <2>1, <2>2, <2>3 DEF HandOK
  <1> QED
    BY <1>2, <1>3 DEF LetsGo

\* A row is taken in hand or left, an execution ends or dies.
LEMMA RetryLess ==
    ASSUME RetryInv, UNCHANGED <<log, mon, reopened, outrun>>,
           batch' = [x \in Executions |-> batch'[x]], cur' = [x \in Executions |-> cur'[x]],
           \A x \in Executions : LetsGo(x)
    PROVE  RetryInv'
  <1>1. Ids' = Ids
    BY DEF Ids
  <1>2. \A x \in Executions : HandOK(x)' /\ InHand(x)' \subseteq InHand(x)
    BY <1>1, LessInHand
  <1>3. \A i \in Ids : Holders(i)' \subseteq Holders(i)
    BY <1>2 DEF Holders
  <1>4. AttemptsOK'
    BY <1>1, <1>3, AttemptsStay DEF AttemptsOK
  <1> QED
    BY <1>1, <1>2, <1>4 DEF RetryInv, LogOK, WaitingOK, ReadOK

\* A call that is logged comes at the end, with an attempt left.
LEMMA RetryLogged ==
    ASSUME RetryInv, NEW new \in LogRow, new.tries = 0, log' = Append(log, new),
           UNCHANGED <<batch, cur, mon, reopened, outrun>>
    PROVE  RetryInv'
  <1>0. PICK n : n = Len(log) + 1
    OBVIOUS
  <1>1. /\ \A i \in Ids : i \in Ids' /\ log'[i] = log[i]
        /\ log'[n] = new
        /\ Ids' = Ids \cup {n} /\ n \notin Ids
    BY SMT, <1>0 DEF RetryInv, LogOK, Ids
  <1>2. log' \in Seq(LogRow)
    BY SMT DEF RetryInv, LogOK
  <1>3. log'[n].tries = 0
    BY <1>1
  <1>4. LogOK'
    BY <1>1, <1>2, <1>3 DEF RetryInv, LogOK
  <1>5. \A x \in Executions : InHand(x)' = InHand(x)
    BY DEF InHand
  <1>6. \A i : Holders(i)' = Holders(i)
    BY <1>5 DEF Holders
  <1>7. AttemptsOK'
    <2>1. ASSUME NEW i \in Ids
          PROVE  log'[i].tries + Cardinality(Holders(i)') <= MaxAuto + Cardinality(Elsewhere)
      BY <1>1, <1>6, AttemptsStay
    <2>2. log'[n].tries + Cardinality(Holders(n)') <= MaxAuto + Cardinality(Elsewhere)
      <3>1. \A x \in Executions : ~\E row \in InHand(x) : row.id = n
        BY <1>1 DEF RetryInv, HandOK
      <3>2. Holders(n)' = {}
        BY <1>6, <3>1 DEF Holders
      <3>3. Cardinality(Holders(n)') = 0 /\ Cardinality(Elsewhere) \in Nat /\ MaxAuto \in Nat
        BY <3>2, FewHold, FS_EmptySet, RetryAssumption
      <3> QED
        BY SMT, <1>3, <3>3
    <2> QED
      BY <1>1, <2>1, <2>2 DEF AttemptsOK
  <1>8. WaitingOK'
    <2>1. log'[n].tries < MaxAuto
      BY SMT, <1>3, RetryAssumption
    <2> QED
      BY <1>1, <2>1 DEF RetryInv, WaitingOK
  <1>9. \A x \in Executions : HandOK(x)'
    BY <1>1, <1>5 DEF RetryInv, HandOK
  <1>10. \A m \in Monitors : ReadOK(m)'
    BY <1>1 DEF RetryInv, ReadOK
  <1> QED
    BY <1>4, <1>7, <1>8, <1>9, <1>10 DEF RetryInv

\* An execution loads rows of the log that have attempts left.
LEMMA RetryLoad ==
    ASSUME RetryInv, NEW x \in Executions, Load(x)
    PROVE  RetryInv'
  <1>1. /\ cur[x] = <<>> /\ UNCHANGED <<log, cur, mon, reopened, outrun>>
        /\ \E found : /\ batch' = [batch EXCEPT ![x] = found]
                     /\ \A row \in found : \E i \in Ids : row = [id |-> i, tries |-> log[i].tries] /\ log[i].tries < MaxAuto
    BY DEF Load, Candidate, clientVars
  <1>2. PICK found : /\ batch' = [batch EXCEPT ![x] = found]
                    /\ \A row \in found : \E i \in Ids : row = [id |-> i, tries |-> log[i].tries] /\ log[i].tries < MaxAuto
    BY <1>1
  <1>3. /\ batch' = [y \in Executions |-> batch'[y]] /\ batch'[x] = found
        /\ \A y \in Executions \ {x} : batch'[y] = batch[y]
    BY <1>2 DEF RetryInv
  <1>4. Ids' = Ids
    BY <1>1 DEF Ids
  <1>5. \A row \in found : /\ row.id \in Ids /\ row.tries = log[row.id].tries /\ row.tries < MaxAuto
                          /\ row = [id |-> row.id, tries |-> log[row.id].tries]
    BY SMT, <1>2
  <1>6. HandOK(x)' /\ InHand(x)' = found
    <2>1. InHand(x)' = found
      BY <1>1, <1>3 DEF InHand
    <2>2. \A row \in found : row.tries \in Nat
      BY <1>5, RowTyped DEF RetryInv
    <2> QED
      <3>1. \A one, other \in found : one.id = other.id => one = other
        BY <1>5
      <3> QED
        BY <1>1, <1>3, <1>4, <1>5, <2>1, <2>2, <3>1 DEF HandOK
  <1>7. \A y \in Executions \ {x} : HandOK(y)' /\ InHand(y)' = InHand(y)
    BY <1>1, <1>3, <1>4 DEF RetryInv, HandOK, InHand
  <1>8. ASSUME NEW i \in Ids
        PROVE  log'[i].tries + Cardinality(Holders(i)') <= MaxAuto + Cardinality(Elsewhere)
    <2>1. CASE \E row \in found : row.id = i
      <3>1. log'[i].tries < MaxAuto /\ log'[i].tries \in Nat /\ MaxAuto \in Nat
        BY <1>1, <1>5, <2>1, RowTyped, RetryAssumption DEF RetryInv
      <3>2. Holders(i)' \in SUBSET Executions
        BY DEF Holders
      <3>3. /\ Cardinality(Holders(i)') <= Cardinality(Executions)
            /\ Cardinality(Holders(i)') \in Nat /\ Cardinality(Elsewhere) \in Nat
            /\ Cardinality(Executions) = Cardinality(Elsewhere) + 1
        BY <3>2, FewHold
      <3> QED
        BY SMT, <3>1, <3>3
    <2>2. CASE ~\E row \in found : row.id = i
      <3>1. Holders(i)' \subseteq Holders(i)
        BY <1>6, <1>7, <2>2 DEF Holders
      <3> QED
        BY <1>1, <3>1, AttemptsStay
    <2> QED
      BY <2>1, <2>2
  <1>9. LogOK' /\ WaitingOK' /\ \A m \in Monitors : ReadOK(m)'
    BY <1>1, <1>4 DEF RetryInv, LogOK, WaitingOK, ReadOK
  <1>10. AttemptsOK'
    BY <1>4, <1>8 DEF AttemptsOK
  <1>11. \A y \in Executions : HandOK(y)'
    BY <1>6, <1>7
  <1> QED
    BY <1>1, <1>3, <1>9, <1>10, <1>11 DEF RetryInv

\* The verdict on the row in hand: it is counted up, whatever the row has become.
LEMMA RetryMark ==
    ASSUME RetryInv, NEW x \in Executions, Mark(x)
    PROVE  RetryInv'
  <1>0. PICK row : row = cur[x][1]
    OBVIOUS
  <1>k. PICK k : k = row.id
    OBVIOUS
  <1>1. /\ cur[x] # <<>> /\ UNCHANGED <<mon, reopened>>
        /\ cur' = [cur EXCEPT ![x] = <<>>]
        /\ \E res : log' = [log EXCEPT ![k] = Marked(row, res)]
        /\ outrun' = IF log[k].tries = row.tries THEN outrun ELSE outrun \cup {k}
        /\ batch' = [batch EXCEPT ![x] = batch[x]] \/ batch' = [batch EXCEPT ![x] = {}]
    BY <1>0, <1>k DEF Mark, Progress
  <1>2. PICK res : log' = [log EXCEPT ![k] = Marked(row, res)]
    BY <1>1
  <1> DEFINE new == Marked(row, res)
  <1>3. /\ k \in Ids /\ row.tries \in Nat /\ row.tries < MaxAuto /\ row \in InHand(x)
        /\ \A other \in batch[x] : other.id # k
    BY <1>0, <1>k, <1>1 DEF RetryInv, HandOK, InHand
  <1>4. k \in 1..Len(log) /\ log \in Seq(LogRow) /\ log[k].tries \in Nat
    BY <1>3, RowTyped DEF RetryInv, LogOK
  <1>5. /\ new.tries = log[k].tries + 1 /\ new \in LogRow /\ new.status # "none"
        /\ new.status = "queued" => row.tries + 1 < MaxAuto
    <2>1. new = [status |-> new.status, tries |-> log[k].tries + 1]
      BY <1>k DEF Marked
    <2>2. new.status \in {"queued", "resolved", "permanent"}
      BY DEF Marked
    <2>3. new.status = "queued" => row.tries + 1 < MaxAuto
      BY DEF Marked
    <2>4. log[k].tries + 1 \in Nat
      BY SMT, <1>4
    <2> HIDE DEF new
    <2>5. new.tries = log[k].tries + 1
      BY SMT, <2>1
    <2>6. new \in LogRow
      BY SMT, <2>1, <2>2, <2>4 DEF LogRow
    <2> QED
      BY SMT, <2>2, <2>3, <2>5, <2>6
  <1> HIDE DEF new
  <1>6. /\ log' \in Seq(LogRow) /\ Ids' = Ids /\ log'[k] = new
        /\ \A i \in Ids : i # k => log'[i] = log[i]
    <2>1. log' = [log EXCEPT ![k] = new]
      BY <1>2 DEF new
    <2> QED
      BY SMT, <1>4, <1>5, <2>1 DEF Ids
  <1>7. /\ batch' = [y \in Executions |-> batch'[y]] /\ cur' = [y \in Executions |-> cur'[y]]
        /\ cur'[x] = <<>> /\ batch'[x] \subseteq batch[x]
        /\ \A y \in Executions \ {x} : batch'[y] = batch[y] /\ cur'[y] = cur[y]
    BY <1>1 DEF RetryInv
  <1>8. \A y \in Executions : HandOK(y)' /\ InHand(y)' \subseteq InHand(y)
    BY <1>6, <1>7, LessInHand DEF LetsGo
  <1>9. x \notin Holders(k)'
    BY <1>3, <1>7 DEF Holders, InHand
  <1>10. \A i : Holders(i)' \subseteq Holders(i)
    BY <1>8 DEF Holders
  <1>11. log'[k].tries + Cardinality(Holders(k)') <= MaxAuto + Cardinality(Elsewhere)
    <2>1. Holders(k) \in SUBSET Executions /\ x \in Holders(k)
      BY <1>3, <1>k DEF Holders
    <2>2. /\ Cardinality(Holders(k)') + 1 <= Cardinality(Holders(k))
          /\ Cardinality(Holders(k)') \in Nat /\ Cardinality(Holders(k)) \in Nat
          /\ Cardinality(Elsewhere) \in Nat
      BY <1>9, <1>10, <2>1, FewHold
    <2>3. log[k].tries + Cardinality(Holders(k)) <= MaxAuto + Cardinality(Elsewhere) /\ MaxAuto \in Nat
      BY <1>3, RetryAssumption DEF RetryInv, AttemptsOK
    <2>4. log'[k].tries = log[k].tries + 1
      BY <1>5, <1>6
    <2> QED
      BY SMT, <1>4, <2>2, <2>3, <2>4
  <1>12. AttemptsOK'
    <2>1. ASSUME NEW i \in Ids, i # k
          PROVE  log'[i].tries + Cardinality(Holders(i)') <= MaxAuto + Cardinality(Elsewhere)
      BY <1>6, <1>10, <2>1, AttemptsStay
    <2> QED
      BY <1>6, <1>11, <2>1 DEF AttemptsOK
  <1>13. WaitingOK'
    <2>1. log'[k].status = "queued" => log'[k].tries < MaxAuto \/ k \in outrun'
      BY <1>1, <1>5, <1>6
    <2>2. outrun \subseteq outrun'
      BY <1>1
    <2> QED
      BY <1>1, <1>6, <2>1, <2>2 DEF RetryInv, WaitingOK
  <1>14. LogOK'
    BY <1>5, <1>6 DEF RetryInv, LogOK
  <1>15. \A m \in Monitors : ReadOK(m)'
    BY <1>1, <1>6 DEF RetryInv, ReadOK
  <1> QED
    BY <1>1, <1>7, <1>8, <1>12, <1>13, <1>14, <1>15 DEF RetryInv

\* A user's request reads a row, and queues it later on.
LEMMA RetryRequest ==
    ASSUME RetryInv, NEW m \in Monitors, RetryEnqueue(m) \/ \E i \in Ids : RetryRead(m, i)
    PROVE  RetryInv'
  <1>1. CASE \E i \in Ids : RetryRead(m, i)
    <2>1. PICK i \in Ids : RetryRead(m, i)
      BY <1>1
    <2>2. /\ UNCHANGED <<log, batch, cur, reopened, outrun>>
          /\ mon' = [mon EXCEPT ![m] = [pc |-> "read", id |-> i, base |-> log[i].status]]
          /\ log[i].status \in {"none", "queued"}
      BY <2>1 DEF RetryRead, clientVars
    <2>3. mon' = [d \in Monitors |-> mon'[d]] /\ \A d \in Monitors : ReadOK(d)'
      BY SMT, <2>2 DEF RetryInv, ReadOK, Ids
    <2>4. Ids' = Ids
      BY <2>2 DEF Ids
    <2>5. LogOK' /\ AttemptsOK' /\ WaitingOK' /\ \A x \in Executions : HandOK(x)'
      BY <2>2, <2>4 DEF RetryInv, LogOK, AttemptsOK, WaitingOK, HandOK, InHand, Holders
    <2> QED
      BY <2>2, <2>3, <2>5 DEF RetryInv
  <1>2. CASE RetryEnqueue(m)
    <2>0. PICK i : i = mon[m].id
      OBVIOUS
    <2>1. /\ i \in Ids /\ mon[m].base \in {"none", "queued"} /\ UNCHANGED <<batch, cur, outrun>>
          /\ mon' = [mon EXCEPT ![m] = [pc |-> "idle"]]
      BY <1>2, <2>0 DEF RetryEnqueue, RetryInv, ReadOK
    <2>2. ASSUME Ids' = Ids
          PROVE  mon' = [d \in Monitors |-> mon'[d]] /\ \A d \in Monitors : ReadOK(d)'
      BY SMT, <2>1, <2>2 DEF RetryInv, ReadOK
    <2>3. CASE UNCHANGED <<log, reopened>>
      <3>1. Ids' = Ids
        BY <2>3 DEF Ids
      <3> QED
        BY <2>1, <2>2, <2>3, <3>1 DEF RetryInv, LogOK, AttemptsOK, WaitingOK, HandOK, InHand, Holders
    <2>4. CASE /\ mon[m].base = "none" /\ log' = [log EXCEPT ![i].status = "queued"]
               /\ reopened' = IF log'[i].status = log[i].status \/ log[i].status = mon[m].base
                              THEN reopened ELSE reopened \cup {i}
      <3>1. /\ log' \in Seq(LogRow)
            /\ Ids' = Ids /\ log'[i].status = "queued" /\ log'[i].tries = log[i].tries
            /\ \A j \in Ids : j # i => log'[j] = log[j]
        <4>1. PICK row : row = [log[i] EXCEPT !.status = "queued"]
          OBVIOUS
        <4>2. i \in 1..Len(log) /\ log \in Seq(LogRow) /\ log[i] \in LogRow
          BY <2>1, RowTyped DEF RetryInv, LogOK
        <4>3. row \in LogRow /\ row.status = "queued" /\ row.tries = log[i].tries
          BY <4>1, <4>2 DEF LogRow
        <4>4. log' = [log EXCEPT ![i] = row]
          BY <2>4, <4>1
        <4>5. log' \in Seq(LogRow) /\ Len(log') = Len(log)
          BY SMT, <4>2, <4>3, <4>4
        <4>6. log'[i] = row /\ \A j \in 1..Len(log) : j # i => log'[j] = log[j]
          BY SMT, <4>2, <4>4
        <4> QED
          BY <4>3, <4>5, <4>6 DEF Ids
      <3>2. LogOK'
        BY <3>1 DEF RetryInv, LogOK
      <3>3. /\ \A x \in Executions : InHand(x)' = InHand(x) /\ HandOK(x)'
            /\ \A j : Holders(j)' = Holders(j)
        BY <2>1, <3>1 DEF RetryInv, HandOK, InHand, Holders
      <3>4. AttemptsOK'
        <4>1. \A j \in Ids : log'[j].tries = log[j].tries
          BY <3>1
        <4> QED
          BY <3>1, <3>3, <4>1, AttemptsStay DEF AttemptsOK
      <3>5. WaitingOK'
        <4>1. log'[i].tries < MaxAuto \/ i \in reopened' \cup outrun'
          <5>1. CASE log[i].status = "none"
            BY SMT, <2>1, <3>1, <5>1, RetryAssumption DEF RetryInv, LogOK
          <5>2. CASE log[i].status = "queued"
            BY <2>1, <2>4, <3>1, <5>2 DEF RetryInv, WaitingOK
          <5>3. CASE log[i].status \notin {"none", "queued"}
            BY <2>4, <3>1, <5>3
          <5> QED
            BY <5>1, <5>2, <5>3
        <4>2. reopened \subseteq reopened'
          BY <2>4
        <4> QED
          BY <2>1, <3>1, <4>1, <4>2 DEF RetryInv, WaitingOK
      <3> QED
        BY <2>1, <2>2, <3>1, <3>2, <3>3, <3>4, <3>5 DEF RetryInv
    <2> QED
      BY <1>2, <2>0, <2>1, <2>3, <2>4 DEF RetryEnqueue
  <1> QED
    BY <1>1, <1>2

\* The steps of an execution.
LEMMA RetryExecute ==
    ASSUME RetryInv, NEW x \in Executions, Execute(x) \/ TaskFails(x) \/ Crash(x)
    PROVE  RetryInv'
  <1>1. CASE Finish(x)
    BY <1>1, RetryQuiet DEF Finish, clientVars
  <1>2. CASE SkipBusy(x)
    <2>1. PICK row \in batch[x] : Progress(x, batch[x] \ {row})
      BY <1>2 DEF SkipBusy
    <2>2. batch' = [batch EXCEPT ![x] = batch[x] \ {row}] \/ batch' = [batch EXCEPT ![x] = {}]
      BY <2>1 DEF Progress
    <2>3. UNCHANGED <<log, cur, mon, reopened, outrun>>
      BY <1>2 DEF SkipBusy, clientVars
    <2> QED
      BY <2>2, <2>3, RetryLess DEF RetryInv, LetsGo
  <1>3. CASE Replay(x)
    <2>1. PICK row \in batch[x] : /\ cur' = [cur EXCEPT ![x] = <<row>>]
                                  /\ batch' = [batch EXCEPT ![x] = @ \ {row}]
      BY <1>3 DEF Replay
    <2>2. UNCHANGED <<log, mon, reopened, outrun>>
      BY <1>3 DEF Replay, Post, clientVars
    <2> QED
      BY <2>1, <2>2, RetryLess DEF RetryInv, LetsGo
  <1>4. CASE TaskFails(x) \/ Crash(x)
    <2>1. /\ batch' = [batch EXCEPT ![x] = {}] /\ cur' = [cur EXCEPT ![x] = <<>>]
          /\ UNCHANGED <<log, mon, reopened, outrun>>
      BY <1>4 DEF TaskFails, Crash
    <2> QED
      BY <2>1, RetryLess DEF RetryInv, LetsGo
  <1> QED
    BY <1>1, <1>2, <1>3, <1>4, RetryLoad, RetryMark DEF Execute

\* Every step keeps the invariant of the queue.
LEMMA RetryStep == RetryInv /\ [RetryNext]_apiVars => RetryInv'
  <1> SUFFICES ASSUME RetryInv, [RetryNext]_apiVars
               PROVE  RetryInv'
    OBVIOUS
  <1>1. ASSUME NEW c \in Callers, Send(c), UNCHANGED <<batch, cur, mon, reopened, outrun>>
        PROVE  RetryInv'
    <2>1. log' = log \/ \E st \in {"none", "queued"} : log' = Append(log, [status |-> st, tries |-> 0])
      BY <1>1 DEF Send, LogRateLimit
    <2>2. ASSUME NEW st \in {"none", "queued"}
          PROVE  [status |-> st, tries |-> 0] \in LogRow /\ [status |-> st, tries |-> 0].tries = 0
      BY SMT DEF LogRow
    <2> QED
      BY <1>1, <2>1, <2>2, RetryQuiet, RetryLogged
  <1>2. ASSUME NEW c \in Callers, Client(c) \/ JobCall(c) \/ JobReturn(c)
        PROVE  RetryInv'
    <2>1. UNCHANGED <<batch, cur, mon, reopened, outrun>> /\ (Send(c) \/ log' = log)
      BY <1>2 DEF Client, JobCall, JobReturn, retryVars, GetToken, GetTokenLoad, GetTokenLoaded,
                  ForceRefresh, Post
    <2> QED
      BY <1>1, <2>1, RetryQuiet
  <1>3. ASSUME NEW q \in Tasks, Refresh(q)
        PROVE  RetryInv'
    BY <1>3, RetryQuiet DEF Refresh, retryVars, RefreshIssued, RefreshSaved, RefreshFails, RefreshCleared
  <1>4. CASE TokenExpires
    BY <1>4, RetryQuiet DEF TokenExpires, Expire
  <1>5. CASE Schedule \/ LeaseLost \/ Reap
    BY <1>5, RetryQuiet DEF Schedule, LeaseLost, Reap, clientVars
  <1>6. CASE UNCHANGED apiVars
    BY <1>6, RetryQuiet DEF apiVars, clientVars, retryVars
  <1> QED
    BY <1>2, <1>3, <1>4, <1>5, <1>6, RetryExecute, RetryRequest DEF RetryNext

(* However many calls are logged, requested and replayed, in however many   *)
(* workers, and whenever these die, fail or lose their task: a call is      *)
(* replayed at most MAX_AUTO_RETRY_ATTEMPTS times, and once more for every  *)
(* further worker; and one that is queued has an attempt left, but for the  *)
(* races of two requests and of two executions (api_call_retry.py, the      *)
(* marks; monitor.py, retry_call).                                          *)
THEOREM QueueStaysAlive == RetrySpec => []QueueAlive
  <1>1. ASSUME RetryInit
        PROVE  RetryInv
    <2>1. log = <<>>
      BY <1>1 DEF RetryInit, ClientInit
    <2>2. log \in Seq(LogRow) /\ Ids = {}
      BY SMT, <2>1 DEF Ids
    <2>3. \A x \in Executions : HandOK(x)
      BY <1>1 DEF RetryInit, HandOK, InHand
    <2>4. mon = [m \in Monitors |-> mon[m]] /\ \A m \in Monitors : ReadOK(m)
      BY <1>1 DEF RetryInit, ReadOK
    <2>5. batch = [x \in Executions |-> batch[x]] /\ cur = [x \in Executions |-> cur[x]]
      BY <1>1 DEF RetryInit
    <2> QED
      BY <2>2, <2>3, <2>4, <2>5 DEF RetryInv, LogOK, AttemptsOK, WaitingOK
  <1>2. ASSUME RetryInv
        PROVE  QueueAlive
    <2>1. ASSUME NEW i \in Ids
          PROVE  log[i].tries <= MaxAuto + Cardinality(Elsewhere)
      <3>1. log[i].tries + Cardinality(Holders(i)) <= MaxAuto + Cardinality(Elsewhere)
        BY <1>2 DEF RetryInv, AttemptsOK
      <3>2. log[i].tries \in Nat /\ MaxAuto \in Nat
        BY <1>2, RowTyped, RetryAssumption DEF RetryInv
      <3>3. Cardinality(Holders(i)) \in Nat /\ Cardinality(Elsewhere) \in Nat
        BY FewHold DEF Holders
      <3> QED
        BY SMT, <3>1, <3>2, <3>3
    <2> QED
      BY <1>2, <2>1 DEF RetryInv, WaitingOK, QueueAlive
  <1> QED
    BY <1>1, <1>2, RetryStep, PTL DEF RetrySpec

=============================================================================
