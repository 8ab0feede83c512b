-------------------------- MODULE ThirdPartyProofs --------------------------
(***************************************************************************)
(* Proofs about ThirdPartyStock for any number of requests, workbooks,     *)
(* warehouses and SKUs.  The inductive invariant says, of every request    *)
(* under way, what has become of the rows it has read: the items a         *)
(* confirmation has read are still those of the batch, but for links that  *)
(* were missing; rows that came after its DELETE were entered by hand; a   *)
(* row that was entered by hand when an edit read it never becomes an      *)
(* imported one; and stock of a batch that is being cancelled came in      *)
(* after the cancellation had read it.                                     *)
(***************************************************************************)
EXTENDS ThirdPartyStock, FiniteSetTheorems, FunctionTheorems, SequenceTheorems, TLAPS

\* Most steps are first-order reasoning; those that need arithmetic or
\* updates of functions and records cite SMT.
USE Zenon

\* A finite workbook whose rows have been linked.
ItemsOK(items) ==
    /\ IsFiniteSet(DOMAIN items)
    /\ \A i \in DOMAIN items :
          /\ DOMAIN items[i] = {"name", "sku", "qty", "ok", "wh"}
          /\ items[i].ok \in BOOLEAN

\* Items as they may have become without a confirmation: those that had no
\* warehouse may have one.
Later(old, now) ==
    /\ DOMAIN now = DOMAIN old
    /\ \A i \in DOMAIN old :
          /\ now[i].name = old[i].name /\ now[i].sku = old[i].sku
          /\ now[i].qty = old[i].qty /\ now[i].ok = old[i].ok
          /\ old[i].wh # 0 => now[i].wh = old[i].wh

\* Every item that counts has a warehouse.
Placed(items) == \A i \in Valid(items) : items[i].wh # 0

\* A sequence, as a function.
IsRow(s) == Len(s) \in Nat /\ s = [i \in 1..Len(s) |-> s[i]]

\* The tables.
TablesOK ==
    /\ IsRow(batch) /\ IsRow(warehouse)
    /\ \A b \in DOMAIN batch : DOMAIN batch[b] = {"status", "items"} /\ ItemsOK(batch[b].items)
    /\ serial \in Nat
    /\ \A r \in stock :
          /\ DOMAIN r = {"id", "wh", "sku", "qty", "src"}
          /\ r.id \in Nat /\ r.id <= serial
          /\ r.src = 0 \/ r.src \in DOMAIN batch
    /\ \A q, r \in stock : q.id = r.id => q = r

\* A confirmation under way: unless another one has come between, the items are
\* those it has read and rows that came after its DELETE were entered by hand.
ConfirmOK(c) ==
    client[c].pc \in {"confirm", "deleted"} =>
        /\ DOMAIN client[c] = {"pc", "batch", "items", "gone", "late", "found"}
        /\ client[c].batch \in DOMAIN batch
        /\ client[c].late \in BOOLEAN
        /\ DOMAIN client[c].found = NamesOf(batch[client[c].batch].items)
        /\ client[c].late = FALSE => Later(client[c].items, batch[client[c].batch].items)
        /\ client[c].late = FALSE /\ client[c].pc = "deleted" =>
              \A r \in stock : r.id \notin client[c].gone => r.src = 0

\* A cancellation under way: stock of its batch came in while it was waiting.
CancelOK(c) ==
    client[c].pc = "cancel" =>
        /\ client[c].batch \in DOMAIN batch
        /\ \A r \in stock : r.src = client[c].batch => client[c].batch \in overtaken

\* An edit under way: a row entered by hand never becomes an imported one.
PatchOK(c) ==
    client[c].pc = "patch" =>
        /\ client[c].base.id \in Nat /\ client[c].base.id <= serial
        /\ client[c].new.id = client[c].base.id /\ client[c].new.src = 0
        /\ client[c].base.src = 0 => \A r \in stock : r.id = client[c].base.id => r.src = 0

ClientOK(c) ==
    /\ client[c].pc = "preview" => ItemsOK(client[c].items)
    /\ ConfirmOK(c) /\ CancelOK(c) /\ PatchOK(c)

\* The inductive invariant.
ThirdPartyInv ==
    /\ TablesOK
    /\ client = [c \in Clients |-> client[c]]
    /\ \A c \in Clients : ClientOK(c)
    /\ crossed \in BOOLEAN
    /\ crossed = FALSE => \A r \in Imported : Placed(batch[r.src].items)
    /\ StockIsOneImport
    /\ CancelledIsNotStock

-----------------------------------------------------------------------------

\* Appending to a sequence.
LEMMA AppendRow ==
    ASSUME NEW s, IsRow(s), NEW e
    PROVE  /\ IsRow(Append(s, e))
           /\ DOMAIN Append(s, e) = DOMAIN s \cup {Len(s) + 1}
           /\ \A i \in DOMAIN s : Append(s, e)[i] = s[i]
           /\ Append(s, e)[Len(s) + 1] = e
<1> DEFINE n == Len(s)
           T == {s[i] : i \in 1..n} \cup {e}
<1>1. s \in Seq(T)
  BY SMT DEF IsRow
<1>2. e \in T
  OBVIOUS
<1> HIDE DEF T
<1>3. /\ Append(s, e) \in Seq(T) /\ Len(Append(s, e)) = n + 1
      /\ \A i \in 1..n : Append(s, e)[i] = s[i]
      /\ Append(s, e)[n + 1] = e
  BY SMT, <1>1, <1>2, AppendProperties
<1>4. IsRow(Append(s, e)) /\ DOMAIN Append(s, e) = 1..(n + 1)
  BY <1>3, LenProperties DEF IsRow
<1>5. DOMAIN s = 1..n /\ n \in Nat
  BY DEF IsRow
<1> QED
  BY SMT, <1>3, <1>4, <1>5

\* Concatenation of sequences.
LEMMA ConcatRow ==
    ASSUME NEW s, NEW t, IsRow(s), IsRow(t)
    PROVE  IsRow(s \o t)
<1> DEFINE T == {s[i] : i \in 1..Len(s)} \cup {t[i] : i \in 1..Len(t)}
<1>1. s \in Seq(T) /\ t \in Seq(T)
  BY SMT DEF IsRow
<1> HIDE DEF T
<1>2. s \o t \in Seq(T)
  BY <1>1, ConcatProperties
<1> QED
  BY <1>2, LenProperties DEF IsRow

\* A finite set can be numbered.
LEMMA Numbering ==
    ASSUME NEW S, IsFiniteSet(S)
    PROVE  /\ Cardinality(S) \in Nat
           /\ \E f \in [S -> 1..Cardinality(S)] : \A x, y \in S : f[x] = f[y] => x = y
<1>1. Cardinality(S) \in Nat /\ ExistsBijection(1..Cardinality(S), S)
  BY FS_CardinalityType
<1>2. ExistsBijection(S, 1..Cardinality(S))
  BY <1>1, Fun_ExistsBijSymmetric
<1>3. PICK f \in [S -> 1..Cardinality(S)] : IsInjective(f)
  BY <1>2 DEF ExistsBijection, Bijection, Injection, Surjection
<1> QED
  BY <1>1, <1>3 DEF IsInjective

\* What is added up for a row stays, once the items have their warehouses.
LEMMA LaterSums ==
    ASSUME NEW old, NEW now, ItemsOK(old), Later(old, now), Placed(old), NEW w, NEW sku
    PROVE  /\ Placed(now)
           /\ SumOf(now, w, sku) = SumOf(old, w, sku)
<1>1. Quantity(now) = Quantity(old)
  BY DEF Quantity, Later
<1>2. Valid(now) = Valid(old)
  BY DEF Valid, Later
<1>3. \A i \in Valid(old) : now[i].wh = old[i].wh /\ now[i].sku = old[i].sku
  BY DEF Valid, Later, Placed
<1> QED
  BY <1>1, <1>2, <1>3 DEF Placed, SumOf

\* Rows that count keep their names, and two changes are one.
LEMMA LaterNames ==
    ASSUME NEW old, NEW now, Later(old, now)
    PROVE  NamesOf(now) = NamesOf(old) /\ Valid(now) = Valid(old)
<1>1. Valid(now) = Valid(old)
  BY DEF Valid, Later
<1>2. \A i \in Valid(old) : now[i].name = old[i].name
  BY DEF Valid, Later
<1> QED
  BY <1>1, <1>2 DEF NamesOf

\* A step after a step.
LEMMA LaterTwice ==
    ASSUME NEW a, NEW b, NEW c, Later(a, b), Later(b, c)
    PROVE  Later(a, c)
  BY DEF Later

\* What every step but the end of an import does.
Steady ==
    /\ serial <= serial' /\ overtaken' = overtaken /\ crossed' = crossed
    /\ \A b \in DOMAIN batch : b \in DOMAIN batch' /\ Later(batch[b].items, batch'[b].items)
    /\ \A r \in stock' : r.src # 0 => r \in stock

\* Such a step leaves what is true of the requests it does not serve.
LEMMA SteadyClient ==
    ASSUME ThirdPartyInv, TablesOK', Steady, NEW d \in Clients, client'[d] = client[d]
    PROVE  ClientOK(d)'
<1>0. ClientOK(d) /\ serial \in Nat /\ serial' \in Nat
  BY DEF ThirdPartyInv, TablesOK
<1>1. ConfirmOK(d)'
  <2> SUFFICES ASSUME client[d].pc \in {"confirm", "deleted"} PROVE ConfirmOK(d)'
    BY DEF ConfirmOK
  <2> DEFINE b == client[d].batch
  <2>1. b \in DOMAIN batch /\ b \in DOMAIN batch' /\ Later(batch[b].items, batch'[b].items)
    BY <1>0 DEF ClientOK, ConfirmOK, Steady
  <2>2. NamesOf(batch'[b].items) = NamesOf(batch[b].items)
    BY <2>1, LaterNames
  <2>3. client[d].late = FALSE => Later(client[d].items, batch'[b].items)
    BY <1>0, <2>1, LaterTwice DEF ClientOK, ConfirmOK
  <2>4. client[d].late = FALSE /\ client[d].pc = "deleted" =>
            \A r \in stock' : r.id \notin client[d].gone => r.src = 0
    BY <1>0 DEF ClientOK, ConfirmOK, Steady
  <2> QED
    BY <1>0, <2>1, <2>2, <2>3, <2>4 DEF ClientOK, ConfirmOK
<1>2. CancelOK(d)'
  <2>1. 0 \notin DOMAIN batch
    BY SMT DEF ThirdPartyInv, TablesOK, IsRow
  <2> QED
    BY <1>0, <2>1 DEF ClientOK, CancelOK, Steady
<1>3. PatchOK(d)'
  <2>1. client[d].pc = "patch" /\ client[d].base.src = 0 =>
            \A r \in stock' : r.id = client[d].base.id => r.src = 0
    BY <1>0 DEF ClientOK, PatchOK, Steady
  <2>2. client[d].pc = "patch" => client[d].base.id \in Nat /\ client[d].base.id <= serial'
    BY SMT, <1>0 DEF ClientOK, PatchOK, Steady
  <2> QED
    BY <1>0, <2>1, <2>2 DEF ClientOK, PatchOK
<1> QED
  BY <1>0, <1>1, <1>2, <1>3 DEF ClientOK

\* A request that is free has nothing to keep.
LEMMA FreeClient ==
    ASSUME NEW d \in Clients, client'[d] = Idle
    PROVE  ClientOK(d)'
  BY SMT DEF Idle, ClientOK, ConfirmOK, CancelOK, PatchOK

\* A batch whose status changes has no stock, but for one that was overtaken.
StatusKept ==
    \A b \in DOMAIN batch :
        \/ batch'[b].status = batch[b].status
        \/ \A r \in stock' : r.src = b => b \in overtaken

\* Such a step keeps the invariant if it does for the request it serves.
LEMMA SteadyStep ==
    ASSUME ThirdPartyInv, TablesOK', Steady, StatusKept,
           client' = [d \in Clients |-> client'[d]],
           \A d \in Clients : client'[d] = client[d] \/ ClientOK(d)'
    PROVE  ThirdPartyInv'
<1>1. \A d \in Clients : ClientOK(d)'
  BY SteadyClient
<1>2. \A r \in Imported' : /\ r \in Imported /\ r.src \in DOMAIN batch
                           /\ ItemsOK(batch[r.src].items)
                           /\ Later(batch[r.src].items, batch'[r.src].items)
  BY DEF Imported, Steady, ThirdPartyInv, TablesOK
<1>3. ASSUME crossed' = FALSE, NEW r \in Imported'
      PROVE  /\ Placed(batch'[r.src].items)
             /\ r.qty = SumOf(batch'[r.src].items, r.wh, r.sku)
  <2>1. ItemsOK(batch[r.src].items) /\ Placed(batch[r.src].items)
    BY <1>2, <1>3 DEF ThirdPartyInv, Steady
  <2>2. r.qty = SumOf(batch[r.src].items, r.wh, r.sku)
    BY SMT, <1>2, <1>3 DEF ThirdPartyInv, Steady, StockIsOneImport
  <2> QED
    BY SMT, <1>2, <2>1, <2>2, LaterSums
<1>4. crossed' = FALSE => \A q, r \in Imported' : q.src = r.src
  BY <1>2 DEF ThirdPartyInv, Steady, StockIsOneImport
<1>5. crossed' \in BOOLEAN
  BY DEF ThirdPartyInv, Steady
<1>6. StockIsOneImport'
  BY <1>3, <1>4, <1>5 DEF StockIsOneImport
<1>7. CancelledIsNotStock'
  BY <1>2 DEF ThirdPartyInv, CancelledIsNotStock, StatusKept, Steady, Imported
<1> QED
  BY <1>1, <1>3, <1>5, <1>6, <1>7 DEF ThirdPartyInv

\* A step that only moves requests.
LEMMA QuietStep ==
    ASSUME ThirdPartyInv, UNCHANGED <<warehouse, batch, stock, serial, crossed, overtaken>>,
           client' = [d \in Clients |-> client'[d]],
           \A d \in Clients : client'[d] = client[d] \/ ClientOK(d)'
    PROVE  ThirdPartyInv'
<1>1. TablesOK'
  BY SMT DEF ThirdPartyInv, TablesOK, ItemsOK, IsRow
<1>2. Steady /\ StatusKept
  BY SMT DEF Steady, StatusKept, Later, ThirdPartyInv, TablesOK
<1> QED
  BY <1>1, <1>2, SteadyStep

\* A workbook with its warehouses.
LEMMA LinkedOK ==
    ASSUME NEW sheet \in Sheets \cup Range(FirstSheets)
    PROVE  ItemsOK(Linked(sheet))
  BY ThirdPartyAssumption DEF Linked, ItemsOK

\* Requests that read, and the DELETE of an import.
LEMMA ReadStep ==
    ASSUME ThirdPartyInv, NEW c \in Clients,
           \/ PreviewRead(c) \/ ConfirmDelete(c) \/ ConfirmFails(c)
           \/ \E b \in DOMAIN batch : ConfirmRead(c, b) \/ CancelRead(c, b)
           \/ \E r \in stock : PatchRead(c, r)
    PROVE  ThirdPartyInv'
<1> USE DEF ThirdPartyInv
<1>0. /\ UNCHANGED <<warehouse, batch, stock, serial, crossed, overtaken>>
      /\ client' = [client EXCEPT ![c] = client'[c]]
  BY DEF PreviewRead, ConfirmDelete, ConfirmFails, ConfirmRead, CancelRead, PatchRead, Ends
<1>1. /\ client' = [d \in Clients |-> client'[d]]
      /\ \A d \in Clients : d # c => client'[d] = client[d]
  BY <1>0
<1>2. ClientOK(c)'
  <2>1. CASE PreviewRead(c)
    <3>1. PICK sheet \in Sheets : client'[c] = [pc |-> "preview", items |-> Linked(sheet)]
      BY <2>1 DEF PreviewRead
    <3> QED
      BY SMT, <3>1, LinkedOK DEF ClientOK, ConfirmOK, CancelOK, PatchOK
  <2>2. CASE ConfirmDelete(c)
    <3>1. client'[c] = [client[c] EXCEPT !.pc = "deleted", !.gone = {r.id : r \in stock}]
      BY <2>2 DEF ConfirmDelete
    <3>2. ClientOK(c) /\ client[c].pc = "confirm"
      BY <2>2 DEF ConfirmDelete
    <3>3. /\ DOMAIN client'[c] = {"pc", "batch", "items", "gone", "late", "found"}
          /\ client'[c].pc = "deleted" /\ client'[c].gone = {r.id : r \in stock}
          /\ client'[c].batch = client[c].batch /\ client'[c].items = client[c].items
          /\ client'[c].late = client[c].late /\ client'[c].found = client[c].found
      BY <3>1, <3>2 DEF ClientOK, ConfirmOK
    <3>4. ConfirmOK(c)'
      BY <1>0, <3>2, <3>3 DEF ClientOK, ConfirmOK
    <3> QED
      BY <3>3, <3>4 DEF ClientOK, CancelOK, PatchOK
  <2>3. CASE ConfirmFails(c)
    BY <2>3, FreeClient DEF ConfirmFails, Ends
  <2>4. CASE \E b \in DOMAIN batch : ConfirmRead(c, b)
    <3>1. PICK b \in DOMAIN batch : ConfirmRead(c, b)
      BY <2>4
    <3>2. client'[c] = [pc |-> "confirm", batch |-> b, items |-> batch[b].items, gone |-> {}, late |-> FALSE,
                        found |-> [n \in NamesOf(batch[b].items) |-> IdOf(n)]]
      BY <3>1 DEF ConfirmRead
    <3>3. Later(batch[b].items, batch[b].items)
      BY DEF Later
    <3>4. ConfirmOK(c)'
      BY SMT, <1>0, <3>2, <3>3 DEF ConfirmOK
    <3> QED
      BY SMT, <3>2, <3>4 DEF ClientOK, CancelOK, PatchOK
  <2>5. CASE \E b \in DOMAIN batch : CancelRead(c, b)
    <3>1. PICK b \in DOMAIN batch : CancelRead(c, b)
      BY <2>5
    <3>2. client'[c] = [pc |-> "cancel", batch |-> b] /\ batch[b].status = "pending"
      BY <3>1 DEF CancelRead, Cancellable
    <3>3. \A r \in stock : r.src = b => b \in overtaken
      BY SMT, <3>2 DEF TablesOK, IsRow, CancelledIsNotStock, Imported
    <3>4. CancelOK(c)'
      BY SMT, <1>0, <3>2, <3>3 DEF CancelOK
    <3> QED
      BY SMT, <3>2, <3>4 DEF ClientOK, ConfirmOK, PatchOK
  <2>6. CASE \E r \in stock : PatchRead(c, r)
    <3>1. PICK r \in stock : PatchRead(c, r)
      BY <2>6
    <3>2. /\ client'[c].pc = "patch" /\ client'[c].base = r
          /\ client'[c].new.id = r.id /\ client'[c].new.src = 0
      BY SMT, <3>1 DEF PatchRead
    <3>3. PatchOK(c)'
      BY <1>0, <3>2 DEF PatchOK, TablesOK
    <3> QED
      BY <3>2, <3>3 DEF ClientOK, ConfirmOK, CancelOK
  <2> QED
    BY <2>1, <2>2, <2>3, <2>4, <2>5, <2>6
<1> QED
  BY <1>0, <1>1, <1>2, QuietStep

\* Edits of single rows.
LEMMA EditStep ==
    ASSUME ThirdPartyInv,
           \/ \E w \in Ids, sku \in Articles, qty \in Quantities : upsert_current_item(w, sku, qty)
           \/ \E r \in stock : delete_current_item(r)
           \/ \E c \in Clients : patch_current_item(c)
    PROVE  ThirdPartyInv'
<1> USE DEF ThirdPartyInv
<1>1. CASE \E w \in Ids, sku \in Articles, qty \in Quantities : upsert_current_item(w, sku, qty)
  <2>1. PICK w \in Ids, sku \in Articles, qty \in Quantities : upsert_current_item(w, sku, qty)
    BY <1>1
  <2> DEFINE old == {r \in stock : KeyOf(r) = <<w, sku>>}
             id == IF old = {} THEN serial + 1 ELSE (CHOOSE r \in old : TRUE).id
             row == [id |-> id, wh |-> w, sku |-> sku, qty |-> qty, src |-> 0]
  <2>2. /\ stock' = (stock \ old) \cup {row}
        /\ serial' = IF old = {} THEN serial + 1 ELSE serial
        /\ UNCHANGED <<warehouse, batch, client, crossed, overtaken>>
    BY <2>1 DEF upsert_current_item
  <2>3. serial \in Nat /\ serial' \in Nat /\ serial <= serial'
    BY SMT, <2>2 DEF TablesOK
  <2>4. id \in Nat /\ id <= serial' /\ \A r \in stock \ old : r.id # id
    <3>1. CASE old = {}
      BY SMT, <2>2, <2>3, <3>1 DEF TablesOK
    <3>2. CASE old # {}
      <4>1. PICK r \in old : id = r.id
        BY <3>2
      <4> QED
        BY <2>2, <2>3, <4>1 DEF TablesOK
    <3> QED
      BY <3>1, <3>2
  <2>5. row.id = id /\ row.src = 0 /\ DOMAIN row = {"id", "wh", "sku", "qty", "src"}
    OBVIOUS
  <2> HIDE DEF row, old, id
  <2>6. TablesOK'
    <3>1. \A r \in stock \ old : r.id \in Nat /\ r.id <= serial'
      BY SMT, <2>3 DEF TablesOK
    <3>2. \A q, r \in stock' : q.id = r.id => q = r
      BY <2>2, <2>4, <2>5 DEF TablesOK
    <3>3. \A r \in stock' :
          /\ DOMAIN r = {"id", "wh", "sku", "qty", "src"}
          /\ r.id \in Nat /\ r.id <= serial'
          /\ r.src = 0 \/ r.src \in DOMAIN batch
      BY <2>2, <2>4, <2>5, <3>1 DEF TablesOK
    <3> QED
      BY <2>2, <2>3, <3>2, <3>3 DEF TablesOK, IsRow
  <2>7. Steady /\ StatusKept
    BY <2>2, <2>3, <2>5 DEF Steady, StatusKept, Later
  <2> QED
    BY <2>2, <2>6, <2>7, SteadyStep
<1>2. CASE \E r \in stock : delete_current_item(r)
  <2>1. PICK r \in stock : delete_current_item(r)
    BY <1>2
  <2>2. stock' \subseteq stock /\ UNCHANGED <<warehouse, batch, serial, client, crossed, overtaken>>
    BY <2>1 DEF delete_current_item
  <2>3. TablesOK'
    BY <2>2 DEF TablesOK, IsRow
  <2>4. Steady /\ StatusKept
    BY SMT, <2>2 DEF Steady, StatusKept, Later, TablesOK
  <2> QED
    BY <2>2, <2>3, <2>4, SteadyStep
<1>3. CASE \E c \in Clients : patch_current_item(c)
  <2>1. PICK c \in Clients : patch_current_item(c)
    BY <1>3
  <2> DEFINE base == client[c].base
             new == client[c].new
             now == {r \in stock : r.id = base.id}
             Flushed(r) == [f \in DOMAIN r |-> IF new[f] # base[f] THEN new[f] ELSE r[f]]
             row == Flushed(CHOOSE r \in now : TRUE)
  <2>2. /\ \/ stock' = stock
           \/ now # {} /\ stock' = (stock \ now) \cup {row}
        /\ client' = [client EXCEPT ![c] = Idle]
        /\ UNCHANGED <<warehouse, batch, serial, crossed, overtaken>>
    BY <2>1 DEF patch_current_item, Ends
  <2>3. PatchOK(c) /\ client[c].pc = "patch"
    BY <2>1 DEF patch_current_item, ClientOK
  <2>4. now # {} => /\ DOMAIN row = {"id", "wh", "sku", "qty", "src"}
                    /\ row.id = base.id /\ row.src = 0
                    /\ row.id \in Nat /\ row.id <= serial
    <3> SUFFICES ASSUME now # {} PROVE /\ DOMAIN row = {"id", "wh", "sku", "qty", "src"}
                    /\ row.id = base.id /\ row.src = 0
                    /\ row.id \in Nat /\ row.id <= serial
      OBVIOUS
    <3>1. PICK r \in now : row = Flushed(r)
      OBVIOUS
    <3>2. DOMAIN r = {"id", "wh", "sku", "qty", "src"} /\ r.id = base.id /\ r \in stock
      BY DEF TablesOK
    <3>3. DOMAIN row = {"id", "wh", "sku", "qty", "src"} /\ row.id = base.id
      BY <2>3, <3>1, <3>2 DEF PatchOK
    <3>4. row.src = 0
      BY <2>3, <3>1, <3>2 DEF PatchOK
    <3> QED
      BY <3>2, <3>3, <3>4 DEF TablesOK
  <2> HIDE DEF row
  <2>5. TablesOK'
    BY <2>2, <2>4 DEF TablesOK, IsRow
  <2>6. Steady /\ StatusKept
    BY SMT, <2>2, <2>4 DEF Steady, StatusKept, Later, TablesOK
  <2>7. \A d \in Clients : client'[d] = client[d] \/ ClientOK(d)'
    BY <2>2, FreeClient
  <2> QED
    BY <2>2, <2>5, <2>6, <2>7, SteadyStep
<1> QED
  BY <1>1, <1>2, <1>3

\* A function on an interval from 1 is a sequence.
LEMMA FunctionRow ==
    ASSUME NEW s, NEW n \in Nat, s = [i \in 1..n |-> s[i]]
    PROVE  IsRow(s)
<1> DEFINE T == {s[i] : i \in 1..n}
<1>1. s \in [1..n -> T]
  OBVIOUS
<1> HIDE DEF T
<1>2. s \in Seq(T)
  BY <1>1, SeqDef
<1> QED
  BY <1>2, LenProperties DEF IsRow

\* Another value at a place of a sequence.
LEMMA ExceptRow ==
    ASSUME NEW s, IsRow(s), NEW t, DOMAIN t = DOMAIN s, t = [i \in DOMAIN t |-> t[i]]
    PROVE  IsRow(t)
<1>1. DOMAIN t = 1..Len(s) /\ Len(s) \in Nat
  BY DEF IsRow
<1> QED
  BY <1>1, FunctionRow

\* Items get the warehouse that has their name now.
LEMMA LinkedToLater ==
    ASSUME ThirdPartyInv, NEW w, NEW name, batch' = LinkedTo(w, name)
    PROVE  /\ IsRow(batch') /\ DOMAIN batch' = DOMAIN batch
           /\ \A b \in DOMAIN batch :
                 /\ DOMAIN batch'[b] = {"status", "items"} /\ ItemsOK(batch'[b].items)
                 /\ batch'[b].status = batch[b].status
                 /\ Later(batch[b].items, batch'[b].items)
<1>1. DOMAIN batch' = DOMAIN batch /\ batch' = [b \in DOMAIN batch |-> batch'[b]]
  BY DEF LinkedTo
<1>2. IsRow(batch')
  BY <1>1, ExceptRow DEF ThirdPartyInv, TablesOK
<1>3. ASSUME NEW b \in DOMAIN batch
      PROVE  /\ DOMAIN batch'[b] = {"status", "items"} /\ ItemsOK(batch'[b].items)
             /\ batch'[b].status = batch[b].status
             /\ Later(batch[b].items, batch'[b].items)
  <2> DEFINE old == batch[b].items
             now == batch'[b].items
  <2>1. DOMAIN batch[b] = {"status", "items"} /\ ItemsOK(old)
    BY DEF ThirdPartyInv, TablesOK
  <2>2. /\ DOMAIN batch'[b] = {"status", "items"} /\ batch'[b].status = batch[b].status
        /\ now = [i \in DOMAIN old |-> IF old[i].ok /\ old[i].name = name /\ old[i].wh = 0
                                       THEN [old[i] EXCEPT !.wh = w] ELSE old[i]]
    BY <2>1 DEF LinkedTo
  <2> HIDE DEF old, now
  <2>3. DOMAIN now = DOMAIN old
    BY <2>2
  <2>4. ASSUME NEW i \in DOMAIN old
        PROVE  /\ DOMAIN now[i] = {"name", "sku", "qty", "ok", "wh"}
               /\ now[i].name = old[i].name /\ now[i].sku = old[i].sku
               /\ now[i].qty = old[i].qty /\ now[i].ok = old[i].ok
               /\ old[i].wh # 0 => now[i].wh = old[i].wh
    <3>1. CASE now[i] = old[i]
      BY <2>1, <3>1 DEF ItemsOK
    <3>2. CASE now[i] = [old[i] EXCEPT !.wh = w] /\ old[i].wh = 0
      BY <2>1, <3>2 DEF ItemsOK
    <3> QED
      BY <2>2, <3>1, <3>2
  <2>5. Later(old, now)
    BY <2>3, <2>4 DEF Later
  <2>6. ItemsOK(now)
    BY <2>1, <2>3, <2>4 DEF ItemsOK
  <2> QED
    BY <2>2, <2>5, <2>6 DEF old, now
<1> QED
  BY <1>1, <1>2, <1>3

\* Warehouses.
LEMMA WarehouseStep ==
    ASSUME ThirdPartyInv,
           \/ \E name \in Names : create_third_party_warehouse(name)
           \/ \E w \in Ids, name \in Names : patch_third_party_warehouse(w, name)
           \/ \E w \in Ids : delete_third_party_warehouse(w)
    PROVE  ThirdPartyInv'
<1>0. IsRow(warehouse)
  BY DEF ThirdPartyInv, TablesOK
<1>1. /\ UNCHANGED <<stock, serial, client, crossed, overtaken>>
      /\ batch' = batch \/ \E w, name : batch' = LinkedTo(w, name)
  BY DEF create_third_party_warehouse, patch_third_party_warehouse, delete_third_party_warehouse
<1>2. IsRow(warehouse')
  <2>1. CASE \E name \in Names : create_third_party_warehouse(name)
    BY SMT, <1>0, <2>1, AppendRow DEF create_third_party_warehouse
  <2>2. CASE \E w \in Ids, name \in Names : warehouse' = [warehouse EXCEPT ![w] = name]
    <3>1. PICK w \in Ids, name \in Names : warehouse' = [warehouse EXCEPT ![w] = name]
      BY <2>2
    <3>2. warehouse = [i \in DOMAIN warehouse |-> warehouse[i]]
      BY <1>0 DEF IsRow
    <3> QED
      BY <1>0, <3>1, <3>2, ExceptRow
  <2>3. CASE \E w \in Ids : delete_third_party_warehouse(w)
    <3>1. PICK w \in Ids : warehouse' = [warehouse EXCEPT ![w] = NoName]
      BY <2>3 DEF delete_third_party_warehouse
    <3>2. warehouse = [i \in DOMAIN warehouse |-> warehouse[i]]
      BY <1>0 DEF IsRow
    <3> QED
      BY <1>0, <3>1, <3>2, ExceptRow
  <2> QED
    BY <2>1, <2>2, <2>3 DEF patch_third_party_warehouse
<1>3. /\ IsRow(batch') /\ DOMAIN batch' = DOMAIN batch
      /\ \A b \in DOMAIN batch :
            /\ DOMAIN batch'[b] = {"status", "items"} /\ ItemsOK(batch'[b].items)
            /\ batch'[b].status = batch[b].status
            /\ Later(batch[b].items, batch'[b].items)
  <2>1. CASE batch' = batch
    BY <2>1 DEF ThirdPartyInv, TablesOK, Later
  <2> QED
    BY <1>1, <2>1, LinkedToLater
<1>4. TablesOK'
  BY <1>1, <1>2, <1>3 DEF ThirdPartyInv, TablesOK
<1>5. Steady /\ StatusKept
  BY SMT, <1>1, <1>3 DEF ThirdPartyInv, TablesOK, Steady, StatusKept
<1> QED
  BY <1>1, <1>4, <1>5, SteadyStep DEF ThirdPartyInv

\* Previews and cancellations.
LEMMA BatchStep ==
    ASSUME ThirdPartyInv, NEW c \in Clients, create_import_preview(c) \/ expire_pending_batch(c)
    PROVE  ThirdPartyInv'
<1> USE DEF ThirdPartyInv
<1>0. /\ UNCHANGED <<warehouse, stock, serial, crossed, overtaken>>
      /\ client' = [client EXCEPT ![c] = Idle]
  BY DEF create_import_preview, expire_pending_batch, Ends
<1>1. \A d \in Clients : client'[d] = client[d] \/ ClientOK(d)'
  BY <1>0, FreeClient
<1>2. CASE batch' = batch
  BY <1>0, <1>1, <1>2, QuietStep
<1>3. CASE create_import_preview(c) /\ batch' # batch
  <2> DEFINE row == [status |-> "pending", items |-> client[c].items]
  <2>1. batch' = Append(batch, row) /\ ItemsOK(client[c].items)
    BY <1>3 DEF create_import_preview, ClientOK
  <2>2. DOMAIN row = {"status", "items"} /\ row.items = client[c].items
    OBVIOUS
  <2> HIDE DEF row
  <2>3. /\ IsRow(batch') /\ DOMAIN batch' = DOMAIN batch \cup {Len(batch) + 1}
        /\ \A b \in DOMAIN batch : batch'[b] = batch[b]
        /\ batch'[Len(batch) + 1] = row
    BY SMT, <2>1, AppendRow DEF TablesOK
  <2>4. \A b \in DOMAIN batch' : DOMAIN batch'[b] = {"status", "items"} /\ ItemsOK(batch'[b].items)
    BY <2>1, <2>2, <2>3 DEF TablesOK
  <2>5. TablesOK'
    BY <1>0, <2>3, <2>4 DEF TablesOK, IsRow
  <2>6. Steady /\ StatusKept
    BY SMT, <1>0, <2>3 DEF Steady, StatusKept, Later, TablesOK
  <2> QED
    BY <1>0, <1>1, <2>5, <2>6, SteadyStep
<1>4. CASE expire_pending_batch(c)
  <2> DEFINE b == client[c].batch
  <2>1. /\ batch' = [batch EXCEPT ![b].status = "expired"]
        /\ b \in DOMAIN batch
        /\ \A r \in stock : r.src = b => b \in overtaken
    BY <1>4 DEF expire_pending_batch, ClientOK, CancelOK
  <2>2. /\ DOMAIN batch' = DOMAIN batch /\ batch' = [d \in DOMAIN batch |-> batch'[d]]
        /\ \A d \in DOMAIN batch : /\ DOMAIN batch'[d] = {"status", "items"}
                                   /\ batch'[d].items = batch[d].items
                                   /\ d # b => batch'[d].status = batch[d].status
    BY <2>1 DEF TablesOK, IsRow
  <2>3. IsRow(batch')
    BY <2>2, ExceptRow DEF TablesOK
  <2>4. TablesOK'
    BY <1>0, <2>2, <2>3 DEF TablesOK, IsRow
  <2>5. Steady
    BY SMT, <1>0, <2>2 DEF Steady, Later, TablesOK
  <2>6. StatusKept
    BY <1>0, <2>1, <2>2 DEF StatusKept
  <2> QED
    BY <1>0, <1>1, <2>4, <2>5, <2>6, SteadyStep
<1> QED
  BY <1>2, <1>3, <1>4

-----------------------------------------------------------------------------
(* The end of an import *)

\* The names to import are finitely many.
LEMMA FiniteNames ==
    ASSUME NEW items, ItemsOK(items)
    PROVE  IsFiniteSet(NamesOf(items)) /\ IsFiniteSet(Valid(items))
<1>1. IsFiniteSet(Valid(items))
  BY FS_Subset DEF ItemsOK, Valid
<1>2. [i \in Valid(items) |-> items[i].name] \in Surjection(Valid(items), NamesOf(items))
  BY DEF Surjection, NamesOf
<1> QED
  BY <1>1, <1>2, FS_Surjection

\* Every name has a warehouse in the end.
LEMMA TargetExists ==
    ASSUME ThirdPartyInv, NEW c \in Clients, client[c].pc = "deleted",
           NEW n \in NamesOf(batch[client[c].batch].items)
    PROVE  TargetOf(c, n) # 0
<1> DEFINE found == client[c].found
           new == {m \in DOMAIN found : found[m] = 0}
           f == CHOOSE g \in [new -> 1..Cardinality(new)] : \A x, y \in new : g[x] = g[y] => x = y
<1>1. /\ client[c].batch \in DOMAIN batch /\ DOMAIN found = NamesOf(batch[client[c].batch].items)
      /\ ItemsOK(batch[client[c].batch].items) /\ Len(warehouse) \in Nat
  BY DEF ThirdPartyInv, ClientOK, ConfirmOK, TablesOK, IsRow
<1>2. TargetOf(c, n) = IF found[n] # 0 THEN found[n] ELSE Len(warehouse) + f[n]
  BY DEF TargetOf
<1>3. IsFiniteSet(new)
  BY <1>1, FiniteNames, FS_Subset
<1> HIDE DEF new
<1>4. Cardinality(new) \in Nat /\ f \in [new -> 1..Cardinality(new)]
  BY <1>3, Numbering
<1> HIDE DEF f
<1>5. found[n] = 0 => f[n] \in 1..Cardinality(new)
  BY <1>1, <1>4 DEF new
<1> QED
  BY SMT, <1>1, <1>2, <1>4, <1>5

\* The items of the batch, and what the import makes of them.
Relinks(c, old, now) ==
    /\ old = batch[client[c].batch].items
    /\ DOMAIN now = DOMAIN old
    /\ \A i \in DOMAIN old : now[i] = Relinked(c, i)

\* Items that differ in their warehouses at most.
Alike(old, now) ==
    /\ DOMAIN now = DOMAIN old
    /\ \A i \in DOMAIN old :
          /\ now[i].name = old[i].name /\ now[i].sku = old[i].sku
          /\ now[i].qty = old[i].qty /\ now[i].ok = old[i].ok

\* Items that count, each in its warehouse.
InPlace(c, old, now) == \A i \in Valid(old) : now[i].wh = TargetOf(c, old[i].name)

\* The items after the import: alike, and each that counts in its warehouse.
LEMMA RelinkedOK ==
    ASSUME ThirdPartyInv, NEW c \in Clients, client[c].pc = "deleted",
           NEW old, NEW now, Relinks(c, old, now)
    PROVE  /\ ItemsOK(now) /\ Alike(old, now)
           /\ client[c].late = FALSE => InPlace(c, old, now)
<1>1. ItemsOK(old) /\ DOMAIN now = DOMAIN old /\ old = batch[client[c].batch].items
  BY DEF Relinks, ThirdPartyInv, ClientOK, ConfirmOK, TablesOK
<1>2. ASSUME NEW i \in DOMAIN old
      PROVE  \/ now[i] = [old[i] EXCEPT !.wh = TargetOf(c, old[i].name)]
             \/ /\ now[i] = old[i]
                /\ old[i].ok => client[c].items[i].wh = TargetOf(c, old[i].name)
  BY DEF Relinks, Relinked
<1>3. ASSUME NEW i \in DOMAIN old
      PROVE  /\ DOMAIN now[i] = {"name", "sku", "qty", "ok", "wh"}
             /\ now[i].name = old[i].name /\ now[i].sku = old[i].sku
             /\ now[i].qty = old[i].qty /\ now[i].ok = old[i].ok
  BY <1>1, <1>2 DEF ItemsOK
<1>4. ASSUME client[c].late = FALSE, NEW i \in Valid(old)
      PROVE  now[i].wh = TargetOf(c, old[i].name)
  <2>1. i \in DOMAIN old /\ old[i].ok /\ old[i].name \in NamesOf(old)
    BY DEF Valid, NamesOf
  <2>2. TargetOf(c, old[i].name) # 0
    BY <1>1, <2>1, TargetExists
  <2>3. Later(client[c].items, old)
    BY <1>1, <1>4 DEF ThirdPartyInv, ClientOK, ConfirmOK
  <2>4. CASE now[i] = [old[i] EXCEPT !.wh = TargetOf(c, old[i].name)]
    BY <1>1, <2>1, <2>4 DEF ItemsOK
  <2>5. CASE now[i] = old[i] /\ client[c].items[i].wh = TargetOf(c, old[i].name)
    BY <2>1, <2>2, <2>3, <2>5 DEF Later
  <2> QED
    BY <1>2, <2>1, <2>4, <2>5
<1>5. ItemsOK(now)
  BY <1>1, <1>3 DEF ItemsOK
<1> QED
  BY <1>1, <1>3, <1>4, <1>5 DEF Alike, InPlace

\* The items for a key, by the warehouses they are to have.
ItemsFor(c, items, k) == {j \in Valid(items) : <<TargetOf(c, items[j].name), items[j].sku>> = k}

\* The keys of the totals of a request come from the items, and so do the sums.
TotalsFor(c, items) ==
    \A k \in DOMAIN Totals(c) :
        /\ \E i \in Valid(items) : k = <<TargetOf(c, items[i].name), items[i].sku>>
        /\ Totals(c)[k] = SumFunctionOnSet(Quantity(items), ItemsFor(c, items, k))

\* The keys of what is imported.
LEMMA TotalsOK ==
    ASSUME ThirdPartyInv, NEW c \in Clients, client[c].pc = "deleted",
           NEW items, items = batch[client[c].batch].items
    PROVE  /\ IsFiniteSet(DOMAIN Totals(c))
           /\ TotalsFor(c, items)
<1> DEFINE Key(i) == <<TargetOf(c, items[i].name), items[i].sku>>
           keys == {Key(i) : i \in Valid(items)}
<1>1. Totals(c) = [k \in keys |-> SumFunctionOnSet(Quantity(items), ItemsFor(c, items, k))]
  BY DEF Totals, ItemsFor
<1>2. IsFiniteSet(keys)
  <2>1. IsFiniteSet(Valid(items))
    BY FiniteNames DEF ThirdPartyInv, ClientOK, ConfirmOK, TablesOK
  <2>2. [i \in Valid(items) |-> Key(i)] \in Surjection(Valid(items), keys)
    BY DEF Surjection
  <2> HIDE DEF keys
  <2> QED
    BY <2>1, <2>2, FS_Surjection
<1> QED
  BY <1>1, <1>2 DEF TotalsFor

\* The quantities to import are what the items add up to.
AddsUp(c, now) == \A k \in DOMAIN Totals(c) : Totals(c)[k] = SumOf(now, k[1], k[2])

\* What is added up for a key is what the items, in their warehouses, add up to.
LEMMA TotalsAreSums ==
    ASSUME ThirdPartyInv, NEW c \in Clients, client[c].pc = "deleted", client[c].late = FALSE,
           NEW old, NEW now, Relinks(c, old, now)
    PROVE  Placed(now) /\ AddsUp(c, now)
<1>0. Alike(old, now) /\ InPlace(c, old, now)
  BY RelinkedOK
<1>1. /\ DOMAIN now = DOMAIN old
      /\ \A i \in DOMAIN old :
            /\ now[i].name = old[i].name /\ now[i].sku = old[i].sku
            /\ now[i].qty = old[i].qty /\ now[i].ok = old[i].ok
      /\ \A i \in Valid(old) : now[i].wh = TargetOf(c, old[i].name)
  BY <1>0 DEF Alike, InPlace
<1>2. Valid(now) = Valid(old) /\ Quantity(now) = Quantity(old)
  BY <1>1 DEF Valid, Quantity
<1>3. Placed(now)
  <2>1. \A i \in Valid(old) : TargetOf(c, old[i].name) # 0
    BY TargetExists DEF NamesOf, Relinks
  <2> QED
    BY <1>1, <1>2, <2>1 DEF Placed
<1>4. ASSUME NEW k \in DOMAIN Totals(c)
      PROVE  Totals(c)[k] = SumOf(now, k[1], k[2])
  <2>0. TotalsFor(c, old)
    BY TotalsOK DEF Relinks
  <2>1. /\ \E i \in Valid(old) : k = <<TargetOf(c, old[i].name), old[i].sku>>
        /\ Totals(c)[k] = SumFunctionOnSet(Quantity(old), ItemsFor(c, old, k))
    BY <2>0 DEF TotalsFor
  <2>2. \A j \in Valid(old) : now[j].sku = old[j].sku /\ now[j].wh = TargetOf(c, old[j].name)
    BY <1>1 DEF Valid
  <2>3. PICK w, sku : k = <<w, sku>>
    BY <2>1
  <2>4. ItemsFor(c, old, k) = {j \in Valid(now) : now[j].wh = w /\ now[j].sku = sku}
    BY <1>2, <2>2, <2>3 DEF ItemsFor
  <2>5. k[1] = w /\ k[2] = sku
    BY <2>3
  <2> QED
    BY <1>2, <2>1, <2>4, <2>5 DEF SumOf
<1> QED
  BY <1>3, <1>4 DEF AddsUp

\* New rows of stock: numbered apart, after all that exist.
LEMMA RowsOfOK ==
    ASSUME NEW totals, NEW b, IsFiniteSet(DOMAIN totals), serial \in Nat
    PROVE  /\ Cardinality(DOMAIN totals) \in Nat
           /\ \A r \in RowsOf(totals, b) :
                 /\ DOMAIN r = {"id", "wh", "sku", "qty", "src"} /\ r.src = b
                 /\ r.id \in Nat /\ r.id > serial /\ r.id <= serial + Cardinality(DOMAIN totals)
                 /\ \E k \in DOMAIN totals : r.wh = k[1] /\ r.sku = k[2] /\ r.qty = totals[k]
           /\ \A q, r \in RowsOf(totals, b) : q.id = r.id => q = r
<1> DEFINE S == DOMAIN totals
           number == CHOOSE f \in [S -> 1..Cardinality(S)] : \A j, k \in S : f[j] = f[k] => j = k
           Row(k) == [id |-> serial + number[k], wh |-> k[1], sku |-> k[2], qty |-> totals[k], src |-> b]
<1>1. /\ Cardinality(S) \in Nat /\ number \in [S -> 1..Cardinality(S)]
      /\ \A j, k \in S : number[j] = number[k] => j = k
  <2>1. /\ Cardinality(S) \in Nat
        /\ \E f \in [S -> 1..Cardinality(S)] : \A j, k \in S : f[j] = f[k] => j = k
    BY Numbering
  <2> QED
    BY <2>1
<1>2. RowsOf(totals, b) = {Row(k) : k \in S}
  BY DEF RowsOf
<1> HIDE DEF number
<1>3. ASSUME NEW k \in S
      PROVE  /\ DOMAIN Row(k) = {"id", "wh", "sku", "qty", "src"} /\ Row(k).src = b
             /\ Row(k).id \in Nat /\ Row(k).id > serial /\ Row(k).id <= serial + Cardinality(S)
             /\ Row(k).wh = k[1] /\ Row(k).sku = k[2] /\ Row(k).qty = totals[k]
  <2>1. number[k] \in 1..Cardinality(S)
    BY <1>1
  <2>2. /\ DOMAIN Row(k) = {"id", "wh", "sku", "qty", "src"} /\ Row(k).src = b
        /\ Row(k).id = serial + number[k]
        /\ Row(k).wh = k[1] /\ Row(k).sku = k[2] /\ Row(k).qty = totals[k]
    OBVIOUS
  <2> HIDE DEF Row
  <2>3. Row(k).id \in Nat /\ Row(k).id > serial /\ Row(k).id <= serial + Cardinality(S)
    BY SMT, <1>1, <2>1, <2>2
  <2> QED
    BY <2>2, <2>3
<1>4. ASSUME NEW j \in S, NEW k \in S, Row(j).id = Row(k).id
      PROVE  Row(j) = Row(k)
  <2>1. number[j] \in 1..Cardinality(S) /\ number[k] \in 1..Cardinality(S)
    BY <1>1
  <2>2. Row(j).id = serial + number[j] /\ Row(k).id = serial + number[k]
    OBVIOUS
  <2> HIDE DEF Row
  <2>3. serial + number[j] = serial + number[k]
    BY <1>4, <2>2
  <2>4. number[j] = number[k]
    BY SMT, <1>1, <2>1, <2>3
  <2> QED
    BY <1>1, <2>4
<1> HIDE DEF Row
<1> QED
  BY SMT, <1>1, <1>2, <1>3, <1>4

\* The tables after an import.
LEMMA CommitTables ==
    ASSUME ThirdPartyInv, NEW c \in Clients, ConfirmCommit(c)
    PROVE  /\ TablesOK' /\ DOMAIN batch' = DOMAIN batch
           /\ client[c].batch \in DOMAIN batch
           /\ Relinks(c, batch[client[c].batch].items, batch'[client[c].batch].items)
           /\ batch'[client[c].batch].status = "applied"
           /\ \A d \in DOMAIN batch : d # client[c].batch => batch'[d] = batch[d]
           /\ serial \in Nat /\ serial' \in Nat /\ serial <= serial'
           /\ \A r \in RowsOf(Totals(c), client[c].batch) : r.id > serial
<1> DEFINE b == client[c].batch
           items == batch[b].items
           new == {n \in DOMAIN client[c].found : client[c].found[n] = 0}
           S == DOMAIN Totals(c)
<1>1. client[c].pc = "deleted" /\ b \in DOMAIN batch /\ TablesOK
      /\ ItemsOK(items) /\ DOMAIN client[c].found = NamesOf(items)
  BY DEF ConfirmCommit, ThirdPartyInv, ClientOK, ConfirmOK, TablesOK
<1>2. /\ batch' = [batch EXCEPT ![b] =
              [status |-> "applied", items |-> [i \in DOMAIN items |-> Relinked(c, i)]]]
      /\ stock' = Left(c) \cup RowsOf(Totals(c), b)
      /\ serial' = serial + Cardinality(S)
  BY DEF ConfirmCommit
<1>3. /\ DOMAIN batch' = DOMAIN batch /\ batch' = [d \in DOMAIN batch |-> batch'[d]]
      /\ \A d \in DOMAIN batch : d # b => batch'[d] = batch[d]
      /\ DOMAIN batch'[b] = {"status", "items"} /\ batch'[b].status = "applied"
      /\ Relinks(c, items, batch'[b].items)
  BY <1>1, <1>2 DEF Relinks, TablesOK, IsRow
<1>4. IsRow(warehouse')
  <2> DEFINE add == [k \in 1..Cardinality(new) |-> CHOOSE n \in new : TargetOf(c, n) = Len(warehouse) + k]
  <2>1. warehouse' = warehouse \o add
    BY DEF ConfirmCommit
  <2>2. IsFiniteSet(new)
    BY <1>1, FiniteNames, FS_Subset
  <2>3. Cardinality(new) \in Nat
    BY <2>2, FS_CardinalityType
  <2>4. IsRow(add)
    <3>1. add = [k \in 1..Cardinality(new) |-> add[k]]
      BY SMT
    <3> HIDE DEF add, new
    <3> QED
      BY <2>3, <3>1, FunctionRow
  <2> HIDE DEF add
  <2> QED
    BY <1>1, <2>1, <2>4, ConcatRow DEF TablesOK
<1>5. IsRow(batch')
  BY <1>1, <1>3, ExceptRow DEF TablesOK
<1>6. ItemsOK(batch'[b].items)
  BY <1>1, <1>3, RelinkedOK
<1>7. IsFiniteSet(S)
  BY <1>1, TotalsOK
<1>8. serial \in Nat
  BY <1>1 DEF TablesOK
<1>9. /\ Cardinality(S) \in Nat
      /\ \A r \in RowsOf(Totals(c), b) :
            /\ DOMAIN r = {"id", "wh", "sku", "qty", "src"} /\ r.src = b
            /\ r.id \in Nat /\ r.id > serial /\ r.id <= serial + Cardinality(S)
      /\ \A q, r \in RowsOf(Totals(c), b) : q.id = r.id => q = r
  BY <1>7, <1>8, RowsOfOK
<1>10. serial' \in Nat /\ serial <= serial'
  BY SMT, <1>2, <1>8, <1>9
<1>11. \A r \in Left(c) : r \in stock
  BY DEF Left
<1> HIDE DEF b, items, S
<1>12. \A r \in stock' :
          /\ DOMAIN r = {"id", "wh", "sku", "qty", "src"}
          /\ r.id \in Nat /\ r.id <= serial'
          /\ r.src = 0 \/ r.src \in DOMAIN batch'
  <2>1. ASSUME NEW r \in Left(c)
        PROVE  /\ DOMAIN r = {"id", "wh", "sku", "qty", "src"}
               /\ r.id \in Nat /\ r.id <= serial'
               /\ r.src = 0 \/ r.src \in DOMAIN batch'
    BY SMT, <1>1, <1>3, <1>8, <1>10, <1>11 DEF TablesOK
  <2>2. ASSUME NEW r \in RowsOf(Totals(c), b)
        PROVE  /\ DOMAIN r = {"id", "wh", "sku", "qty", "src"}
               /\ r.id \in Nat /\ r.id <= serial'
               /\ r.src = 0 \/ r.src \in DOMAIN batch'
    BY <1>1, <1>2, <1>3, <1>9
  <2> QED
    BY <1>2, <2>1, <2>2
<1>13. \A q, r \in stock' : q.id = r.id => q = r
  <2>1. \A q \in Left(c) : q.id \in Nat /\ q.id <= serial
    BY <1>1, <1>11 DEF TablesOK
  <2>2. \A q \in Left(c), r \in RowsOf(Totals(c), b) : q.id # r.id
    BY SMT, <1>8, <1>9, <2>1
  <2>3. \A q, r \in Left(c) : q.id = r.id => q = r
    BY <1>1, <1>11 DEF TablesOK
  <2> QED
    BY <1>2, <1>9, <2>2, <2>3
<1>14. TablesOK'
  <2>1. \A d \in DOMAIN batch' : DOMAIN batch'[d] = {"status", "items"} /\ ItemsOK(batch'[d].items)
    BY <1>1, <1>3, <1>6 DEF TablesOK
  <2> QED
    BY <1>4, <1>5, <1>10, <1>12, <1>13, <2>1 DEF TablesOK
<1> QED
  BY <1>1, <1>3, <1>8, <1>9, <1>10, <1>14 DEF b, items

\* Other requests when an import ends.
LEMMA CommitOthers ==
    ASSUME ThirdPartyInv, NEW c \in Clients, ConfirmCommit(c), NEW d \in Clients, d # c
    PROVE  ClientOK(d)'
<1> DEFINE b == client[c].batch
<1>0. /\ ClientOK(d) /\ b \in DOMAIN batch /\ DOMAIN batch' = DOMAIN batch
      /\ Relinks(c, batch[b].items, batch'[b].items)
      /\ \A e \in DOMAIN batch : e # b => batch'[e] = batch[e]
      /\ serial \in Nat /\ serial' \in Nat /\ serial <= serial'
      /\ \A r \in RowsOf(Totals(c), b) : r.id > serial
  BY CommitTables DEF ThirdPartyInv
<1>1. /\ client'[d] = IF Overlaps(d, b) THEN [client[d] EXCEPT !.late = TRUE] ELSE client[d]
      /\ stock' = Left(c) \cup RowsOf(Totals(c), b)
      /\ overtaken' = overtaken \cup
            {b2 \in {b} : \E e \in Clients : client[e].pc = "cancel" /\ client[e].batch = b2}
  BY DEF ConfirmCommit
<1>2. \A r \in stock' : r \in stock \/ (r.src = b /\ r.id > serial)
  <2>1. \A r \in RowsOf(Totals(c), b) : r.src = b
    BY SMT DEF RowsOf
  <2> QED
    BY <1>0, <1>1, <2>1 DEF Left
<1>3. ASSUME NEW e \in DOMAIN batch
      PROVE  NamesOf(batch'[e].items) = NamesOf(batch[e].items)
  <2>1. CASE e = b
    <3>1. client[c].pc = "deleted"
      BY DEF ConfirmCommit
    <3>2. Alike(batch[b].items, batch'[b].items)
      BY <1>0, <3>1, RelinkedOK
    <3>3. /\ Valid(batch'[b].items) = Valid(batch[b].items)
          /\ \A i \in Valid(batch[b].items) : batch'[b].items[i].name = batch[b].items[i].name
      BY <3>2 DEF Alike, Valid
    <3> QED
      BY <2>1, <3>3 DEF NamesOf
  <2> QED
    BY <1>0, <2>1
<1>4. CASE Overlaps(d, b)
  <2>1. client'[d] = [client[d] EXCEPT !.late = TRUE] /\ client[d].pc \in {"confirm", "deleted"}
    BY <1>1, <1>4 DEF Overlaps
  <2>2. /\ DOMAIN client[d] = {"pc", "batch", "items", "gone", "late", "found"}
        /\ client[d].batch \in DOMAIN batch
        /\ DOMAIN client[d].found = NamesOf(batch[client[d].batch].items)
    BY <1>0, <2>1 DEF ClientOK, ConfirmOK
  <2>3. /\ DOMAIN client'[d] = {"pc", "batch", "items", "gone", "late", "found"}
        /\ client'[d].pc = client[d].pc /\ client'[d].batch = client[d].batch
        /\ client'[d].late = TRUE /\ client'[d].found = client[d].found
    BY <2>1, <2>2
  <2>4. ConfirmOK(d)'
    BY <1>0, <1>3, <2>2, <2>3 DEF ConfirmOK
  <2> QED
    BY <2>1, <2>3, <2>4 DEF ClientOK, CancelOK, PatchOK
<1>5. CASE ~Overlaps(d, b)
  <2>1. client'[d] = client[d] /\ client[d].pc # "deleted"
        /\ (client[d].pc = "confirm" => client[d].batch # b)
    BY <1>1, <1>5 DEF Overlaps
  <2>2. ConfirmOK(d)'
    BY <1>0, <2>1 DEF ClientOK, ConfirmOK
  <2>3. CancelOK(d)'
    <3>1. client[d].pc = "cancel" /\ client[d].batch = b => b \in overtaken'
      BY <1>1
    <3>2. overtaken \subseteq overtaken'
      BY <1>1
    <3> QED
      BY <1>0, <1>2, <2>1, <3>1, <3>2 DEF ClientOK, CancelOK
  <2>4. PatchOK(d)'
    <3> SUFFICES ASSUME client[d].pc = "patch" PROVE PatchOK(d)'
      BY <2>1 DEF PatchOK
    <3>1. PatchOK(d) /\ client[d].base.id \in Nat /\ client[d].base.id <= serial
      BY <1>0 DEF ClientOK, PatchOK
    <3>2. \A r \in stock' : r.id = client[d].base.id => r \in stock
      BY SMT, <1>0, <1>2, <3>1
    <3>3. client[d].base.id <= serial'
      BY SMT, <1>0, <3>1
    <3> QED
      BY <2>1, <3>1, <3>2, <3>3 DEF PatchOK
  <2> QED
    BY <1>0, <2>1, <2>2, <2>3, <2>4 DEF ClientOK
<1> QED
  BY <1>4, <1>5

\* The end of an import.
LEMMA CommitStep ==
    ASSUME ThirdPartyInv, NEW c \in Clients, ConfirmCommit(c)
    PROVE  ThirdPartyInv'
<1> DEFINE b == client[c].batch
<1>0. /\ TablesOK' /\ DOMAIN batch' = DOMAIN batch /\ b \in DOMAIN batch
      /\ Relinks(c, batch[b].items, batch'[b].items)
      /\ batch'[b].status = "applied"
      /\ \A e \in DOMAIN batch : e # b => batch'[e] = batch[e]
      /\ serial \in Nat
  BY CommitTables
<1>1. /\ client' = [d \in Clients |-> client'[d]] /\ client'[c] = Idle
      /\ stock' = Left(c) \cup RowsOf(Totals(c), b)
      /\ crossed' = client[c].late
      /\ client[c].pc = "deleted" /\ overtaken \subseteq overtaken'
  BY DEF ConfirmCommit
<1>2. \A d \in Clients : ClientOK(d)'
  BY <1>1, CommitOthers, FreeClient
<1>3. client[c].late \in BOOLEAN /\ crossed' \in BOOLEAN
  BY <1>1 DEF ThirdPartyInv, ClientOK, ConfirmOK
<1>4. \A r \in RowsOf(Totals(c), b) :
          /\ r.src = b
          /\ \E k \in DOMAIN Totals(c) : r.wh = k[1] /\ r.sku = k[2] /\ r.qty = Totals(c)[k]
  <2>1. IsFiniteSet(DOMAIN Totals(c))
    BY <1>1, TotalsOK
  <2> QED
    BY SMT, <1>0, <2>1, RowsOfOK
<1>5. ASSUME crossed' = FALSE
      PROVE  \A r \in Imported' : /\ r.src = b /\ Placed(batch'[r.src].items)
                                  /\ r.qty = SumOf(batch'[r.src].items, r.wh, r.sku)
  <2>1. client[c].late = FALSE
    BY <1>1, <1>5
  <2>2. \A r \in Left(c) : r.src = 0
    BY <1>1, <2>1 DEF ThirdPartyInv, ClientOK, ConfirmOK, Left
  <2>3. Placed(batch'[b].items) /\ AddsUp(c, batch'[b].items)
    BY <1>0, <1>1, <2>1, TotalsAreSums
  <2>4. \A r \in Imported' : r \in RowsOf(Totals(c), b)
    BY <1>1, <2>2 DEF Imported
  <2> QED
    BY <1>4, <2>3, <2>4 DEF AddsUp
<1>6. StockIsOneImport'
  BY <1>3, <1>5 DEF StockIsOneImport
<1>7. CancelledIsNotStock'
  <2>1. ASSUME NEW r \in Imported'
        PROVE  batch'[r.src].status = "applied" \/ r.src \in overtaken'
    <3>1. CASE r \in RowsOf(Totals(c), b)
      BY <1>0, <1>4, <3>1
    <3>2. CASE r \in stock
      <4>1. r \in Imported /\ r.src \in DOMAIN batch
        BY <3>2, <2>1 DEF Imported, ThirdPartyInv, TablesOK
      <4> QED
        BY <1>0, <1>1, <4>1 DEF ThirdPartyInv, CancelledIsNotStock
    <3> QED
      BY <1>1, <3>1, <3>2 DEF Left, Imported
  <2> QED
    BY <2>1 DEF CancelledIsNotStock
<1> QED
  BY <1>0, <1>1, <1>2, <1>3, <1>5, <1>6, <1>7 DEF ThirdPartyInv

\* To start with.
LEMMA ThirdPartyFirst == ThirdPartyInit => ThirdPartyInv
<1> SUFFICES ASSUME ThirdPartyInit PROVE ThirdPartyInv
  OBVIOUS
<1>1. FirstSheets \in Seq(Range(FirstSheets))
  BY ThirdPartyAssumption
<1>2. DOMAIN FirstSheets = 1..Len(FirstSheets) /\ Len(FirstSheets) \in Nat
  BY <1>1, LenProperties
<1>3. DOMAIN batch = DOMAIN FirstSheets /\ batch = [b \in DOMAIN batch |-> batch[b]]
  BY DEF ThirdPartyInit
<1>4. IsRow(batch)
  BY <1>2, <1>3, FunctionRow
<1>5. IsRow(warehouse)
  <2>1. warehouse \in Seq(Names)
    BY ThirdPartyAssumption DEF ThirdPartyInit
  <2> QED
    BY <2>1, LenProperties DEF IsRow
<1>6. \A b \in DOMAIN batch : DOMAIN batch[b] = {"status", "items"} /\ ItemsOK(batch[b].items)
  <2>1. ASSUME NEW b \in DOMAIN batch
        PROVE  /\ batch[b] = [status |-> "pending", items |-> Linked(FirstSheets[b])]
               /\ FirstSheets[b] \in Range(FirstSheets)
    BY <1>3 DEF ThirdPartyInit, Range
  <2> QED
    BY SMT, <2>1, LinkedOK
<1>7. TablesOK
  BY SMT, <1>4, <1>5, <1>6, ThirdPartyAssumption DEF ThirdPartyInit, TablesOK
<1>8. \A c \in Clients : ClientOK(c)
  BY DEF ThirdPartyInit, Idle, ClientOK, ConfirmOK, CancelOK, PatchOK
<1>9. Imported = {}
  BY ThirdPartyAssumption DEF ThirdPartyInit, Imported
<1> QED
  BY <1>7, <1>8, <1>9 DEF ThirdPartyInit, ThirdPartyInv, StockIsOneImport, CancelledIsNotStock

\* Every step keeps the invariant of the overseas stock.
LEMMA ThirdPartyStep == ThirdPartyInv /\ [ThirdPartyNext]_thirdPartyVars => ThirdPartyInv'
<1> SUFFICES ASSUME ThirdPartyInv, [ThirdPartyNext]_thirdPartyVars PROVE ThirdPartyInv'
  OBVIOUS
<1>1. CASE ThirdPartyNext
  BY <1>1, ReadStep, EditStep, BatchStep, CommitStep, WarehouseStep DEF ThirdPartyNext
<1>2. CASE UNCHANGED thirdPartyVars
  BY <1>2, QuietStep DEF thirdPartyVars, ThirdPartyInv
<1> QED
  BY <1>1, <1>2

(* Whatever is previewed, confirmed, cancelled, edited and renamed at the  *)
(* same time, by any number of users: the imported rows of stock are those *)
(* of one batch, with the totals of its items, unless two confirmations    *)
(* overlapped (confirm_import_batch).                                      *)
THEOREM StockComesFromOneImport == ThirdPartySpec => []StockIsOneImport
<1>1. ThirdPartyInit => ThirdPartyInv
  BY ThirdPartyFirst
<1>2. ThirdPartyInv => StockIsOneImport
  BY DEF ThirdPartyInv
<1> QED
  BY <1>1, <1>2, ThirdPartyStep, PTL DEF ThirdPartySpec

(* No stock in force comes from a batch that reads as cancelled, but for a *)
(* cancellation the confirmation has overtaken (expire_pending_batch).     *)
THEOREM CancelledBatchIsNotStock == ThirdPartySpec => []CancelledIsNotStock
<1>1. ThirdPartyInit => ThirdPartyInv
  BY ThirdPartyFirst
<1>2. ThirdPartyInv => CancelledIsNotStock
  BY DEF ThirdPartyInv
<1> QED
  BY <1>1, <1>2, ThirdPartyStep, PTL DEF ThirdPartySpec
=============================================================================
