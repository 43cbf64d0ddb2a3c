--------------------------- MODULE VoucherProofs ---------------------------
(***************************************************************************)
(* Proofs about Voucher, for any handlers, users, codes, calls and bounds. *)
(*                                                                         *)
(* The stock counters are explained by saying which handler each item and  *)
(* each issuance still waits for: items whose pool has not counted them    *)
(* yet and vouchers not taken off the stock yet.  An item that only one     *)
(* call has in its hands has the owner which that call read.               *)
(***************************************************************************)
EXTENDS Voucher, FiniteSetTheorems, SequenceTheorems, TLAPS

Adding == {"stock", "total", "remaining"}
Saving == {"save", "issuance", "take"}

\* What a handler has in its hands at its next statement.
ControlOK(h) ==
    /\ pc[h] = "idle" \/ call[h] \in Calls
    /\ pc[h] \in {"find"} \cup Saving => call[h].op \in {"issue", "redeem"}
    /\ pc[h] = "take" => call[h].op = "issue"
    /\ pc[h] \in {"items"} \cup Adding => pool[h] \in DOMAIN pools
    /\ pc[h] \in Saving /\ call[h].op = "issue" =>
          pool[h] \in DOMAIN pools /\ \A i \in batch[h] : items[i].pool = pool[h]
    /\ unsaved[h] \subseteq batch[h]
    /\ pc[h] # "save" => unsaved[h] = {}

Core == TypeOK /\ \A h \in Handler : ControlOK(h)

\* The parts of TypeOK: the tables, what handlers have, the rest.
Pools == Seq([total : Nat, remaining : Int])
Items == Seq([pool : DOMAIN pools, code : Code, to : User \cup {Nobody}])
Rows == Seq([item : DOMAIN items, user : User, status : {"ISSUED", "REDEEMED"}])

TablesOK == pools \in Pools /\ items \in Items /\ issuances \in Rows
LocalsOK ==
    /\ pc \in [Handler -> PC]
    /\ call \in [Handler -> Calls \cup {NoCall}]
    /\ pool \in [Handler -> {0} \cup DOMAIN pools]
    /\ batch \in [Handler -> SUBSET DOMAIN items]
    /\ unsaved \in [Handler -> SUBSET DOMAIN items]
    /\ contested \in SUBSET DOMAIN items
CountsOK ==
    /\ served \in 0..MaxCalls /\ faults \in 0..MaxFaults
    /\ {keyUsed, killed} \subseteq BOOLEAN

LEMMA TypeParts == TypeOK <=> TablesOK /\ LocalsOK /\ CountsOK
  BY DEF TypeOK, TablesOK, LocalsOK, CountsOK, Pools, Items, Rows

\* Rows are added, and an item stays in its pool.
Grow ==
    /\ DOMAIN pools \subseteq DOMAIN pools'
    /\ DOMAIN items \subseteq DOMAIN items'
    /\ \A i \in DOMAIN items : items'[i].pool = items[i].pool

\* A step leaves handler g where it was.
Same(g) ==
    /\ pc'[g] = pc[g] /\ call'[g] = call[g] /\ pool'[g] = pool[g]
    /\ batch'[g] = batch[g] /\ unsaved'[g] = unsaved[g]

LEMMA SameControl ==
  ASSUME NEW g \in Handler, Core, Grow, Same(g)
  PROVE  ControlOK(g)'
<1>1. ControlOK(g) /\ batch[g] \subseteq DOMAIN items
  BY DEF Core, TypeOK
<1> QED
  BY <1>1 DEF ControlOK, Grow, Same

LEMMA CallType ==
  ASSUME TypeOK, NEW h \in Handler
  PROVE  /\ call[h] \in Call /\ call[h].codes \in Seq(Code) /\ Added(h) \in Nat
         /\ call[h].user \in User \cup {Nobody}
         /\ pc[h] \in PC
<1>1. NoCall \in Call
  BY VoucherAssumption DEF NoCall, Call
<1>2. call[h] \in Call /\ pc[h] \in PC
  BY <1>1, VoucherAssumption DEF TypeOK
<1>3. call[h].codes \in Seq(Code) /\ call[h].user \in User \cup {Nobody}
  BY <1>2 DEF Call
<1> QED
  BY <1>2, <1>3 DEF Added

\* The caller of a handler that issues or redeems.
LEMMA CallerIsUser ==
  ASSUME Core, NEW h \in Handler, pc[h] \in {"find"} \cup Saving
  PROVE  call[h] \in Calls /\ call[h].op \in {"issue", "redeem"} /\ call[h].user \in User
  BY VoucherAssumption DEF Core, ControlOK, Saving

LEMMA InitCore == Init => Core
<1> SUFFICES ASSUME Init PROVE Core
  OBVIOUS
<1> USE DEF Init
<1>1. TypeOK
  <2>1. TablesOK
    BY EmptySeq DEF TablesOK, Pools, Items, Rows
  <2>2. LocalsOK
    BY DEF LocalsOK, PC
  <2>3. CountsOK
    <3>1. 0 \in 0..MaxCalls /\ 0 \in 0..MaxFaults
      BY VoucherAssumption
    <3>2. {keyUsed, killed} \subseteq BOOLEAN
      BY Zenon
    <3> QED
      BY <3>1, <3>2 DEF CountsOK
  <2> QED
    BY <2>1, <2>2, <2>3, TypeParts
<1>2. ASSUME NEW h \in Handler
      PROVE  ControlOK(h)
  BY DEF ControlOK, Saving, Adding
<1> QED
  BY <1>1, <1>2 DEF Core

\* Handlers that end hold nothing, and the others go on.
LEMMA EndCore ==
  ASSUME NEW H \in SUBSET Handler, Core, Grow, End(H), TablesOK', CountsOK'
  PROVE  Core'
<1>1. LocalsOK
  BY TypeParts DEF Core
<1>2. LocalsOK'
  BY <1>1 DEF LocalsOK, End, Grow, PC
<1>3. ASSUME NEW g \in H
      PROVE  ControlOK(g)'
  BY DEF ControlOK, End, Saving, Adding
<1>4. ASSUME NEW g \in Handler \ H
      PROVE  ControlOK(g)'
  <2>1. Same(g)
    BY DEF End, Same
  <2> QED
    BY <2>1, SameControl
<1>5. TypeOK'
  BY <1>2, TypeParts DEF TypeOK, TablesOK, LocalsOK, CountsOK, Pools, Items, Rows
<1> QED
  BY <1>3, <1>4, <1>5 DEF Core

LEMMA ReturnCore ==
  ASSUME NEW h \in Handler, Core, Grow, Return(h), TablesOK', CountsOK'
  PROVE  Core'
<1>1. {h} \in SUBSET Handler
  OBVIOUS
<1> QED
  BY <1>1, EndCore DEF Return

\* A step of handler h that leaves the others where they were.
LEMMA StepCore ==
  ASSUME NEW h \in Handler, Core, Grow, TablesOK', LocalsOK', CountsOK',
         ControlOK(h)', \A g \in Handler \ {h} : Same(g)
  PROVE  Core'
<1>1. \A g \in Handler : ControlOK(g)'
  BY SameControl
<1>2. TypeOK'
  BY DEF TypeOK, TablesOK, LocalsOK, CountsOK, Pools, Items, Rows
<1> QED
  BY <1>1, <1>2 DEF Core

----------------------------------------------------------------------------
(***************************************************************************)
(* The tables after each kind of statement.                                *)
(***************************************************************************)

LEMMA PoolsAppended ==
  ASSUME TablesOK, NEW e \in [total : Nat, remaining : Int],
         pools' = Append(pools, e), UNCHANGED <<items, issuances>>
  PROVE  /\ TablesOK' /\ Grow
         /\ DOMAIN pools' = DOMAIN pools \cup {Len(pools) + 1}
         /\ Len(pools) + 1 \notin DOMAIN pools
         /\ pools'[Len(pools) + 1] = e
         /\ \A p \in DOMAIN pools : pools'[p] = pools[p]
<1>1. /\ pools' \in Pools /\ DOMAIN pools' = DOMAIN pools \cup {Len(pools) + 1}
      /\ Len(pools) + 1 \notin DOMAIN pools
      /\ pools'[Len(pools) + 1] = e /\ \A p \in DOMAIN pools : pools'[p] = pools[p]
  BY DEF TablesOK, Pools
<1>2. Items \subseteq Items'
  <2>1. PICK S, T : /\ S = [pool : DOMAIN pools, code : Code, to : User \cup {Nobody}]
                    /\ T = [pool : DOMAIN pools', code : Code, to : User \cup {Nobody}]
    OBVIOUS
  <2>2. S \subseteq T
    BY <1>1, <2>1
  <2>3. Seq(S) \subseteq Seq(T)
    BY <2>2, SeqMonotonic
  <2> QED
    BY <2>1, <2>3 DEF Items
<1>3. items' \in Items' /\ issuances' \in Rows'
  BY <1>2 DEF TablesOK, Rows
<1> QED
  BY <1>1, <1>3 DEF TablesOK, Grow, Pools

LEMMA PoolWritten ==
  ASSUME TablesOK, NEW p \in DOMAIN pools, NEW e \in [total : Nat, remaining : Int],
         pools' = [pools EXCEPT ![p] = e], UNCHANGED <<items, issuances>>
  PROVE  /\ TablesOK' /\ Grow /\ DOMAIN pools' = DOMAIN pools
         /\ pools'[p] = e /\ \A q \in DOMAIN pools \ {p} : pools'[q] = pools[q]
<1>1. p \in 1..Len(pools) /\ pools \in Pools
  BY DEF TablesOK, Pools
<1>2. pools' \in Pools /\ Len(pools') = Len(pools)
  BY <1>1, ExceptSeq DEF Pools
<1>3. DOMAIN pools' = DOMAIN pools
  BY <1>1, <1>2 DEF Pools
<1> QED
  BY <1>2, <1>3 DEF TablesOK, Grow, Pools, Items, Rows

LEMMA ItemsAdded ==
  ASSUME TablesOK, NEW new \in Items, items' = items \o new, UNCHANGED <<pools, issuances>>
  PROVE  /\ TablesOK' /\ Grow
         /\ DOMAIN items = 1..Len(items) /\ DOMAIN items' = 1..(Len(items) + Len(new))
         /\ \A i \in DOMAIN items : items'[i] = items[i]
         /\ \A i \in DOMAIN items' \ DOMAIN items :
               i - Len(items) \in 1..Len(new) /\ items'[i] = new[i - Len(items)]
<1>1. items \in Items /\ DOMAIN items = 1..Len(items) /\ Len(items) \in Nat
      /\ Len(new) \in Nat
  BY DEF TablesOK, Items
<1>2. /\ items' \in Items /\ Len(items') = Len(items) + Len(new)
      /\ \A i \in 1..Len(items) + Len(new) :
            items'[i] = IF i <= Len(items) THEN items[i] ELSE new[i - Len(items)]
  <2>1. PICK S : S = [pool : DOMAIN pools, code : Code, to : User \cup {Nobody}]
    OBVIOUS
  <2>2. items \in Seq(S) /\ new \in Seq(S)
    BY <1>1, <2>1 DEF Items
  <2> QED
    BY <2>1, <2>2, ConcatProperties DEF Items
<1>3. DOMAIN items' = 1..(Len(items) + Len(new))
  BY <1>2 DEF Items
<1>4. Rows \subseteq Rows'
  <2>1. PICK S, T : /\ S = [item : DOMAIN items, user : User, status : {"ISSUED", "REDEEMED"}]
                    /\ T = [item : DOMAIN items', user : User, status : {"ISSUED", "REDEEMED"}]
    OBVIOUS
  <2>2. S \subseteq T
    BY <1>1, <1>3, <2>1
  <2>3. Seq(S) \subseteq Seq(T)
    BY <2>2, SeqMonotonic
  <2> QED
    BY <2>1, <2>3 DEF Rows
<1>5. TablesOK'
  BY <1>2, <1>4 DEF TablesOK, Items, Pools
<1>6. \A i \in DOMAIN items : items'[i] = items[i]
  BY <1>1, <1>2
<1>7. \A i \in DOMAIN items' \ DOMAIN items :
         i - Len(items) \in 1..Len(new) /\ items'[i] = new[i - Len(items)]
  BY <1>1, <1>2, <1>3
<1>8. Grow
  BY <1>1, <1>3, <1>6 DEF Grow
<1> QED
  BY <1>1, <1>3, <1>5, <1>6, <1>7, <1>8

LEMMA ItemWritten ==
  ASSUME TablesOK, NEW i \in DOMAIN items, NEW u \in User,
         items' = [items EXCEPT ![i].to = u], UNCHANGED <<pools, issuances>>
  PROVE  /\ TablesOK' /\ Grow /\ DOMAIN items' = DOMAIN items
         /\ items'[i].to = u /\ \A j \in DOMAIN items \ {i} : items'[j] = items[j]
         /\ items'[i].pool = items[i].pool /\ items'[i].code = items[i].code
<1>1. PICK S : S = [pool : DOMAIN pools, code : Code, to : User \cup {Nobody}]
  OBVIOUS
<1>2. items \in Seq(S) /\ i \in 1..Len(items) /\ items[i] \in S
  <2>1. items \in Seq(S)
    BY <1>1 DEF TablesOK, Items
  <2>2. DOMAIN items = 1..Len(items) /\ i \in 1..Len(items)
    BY <2>1
  <2> QED
    BY <2>1, <2>2, ElementOfSeq
<1>3. PICK e : e = [items[i] EXCEPT !.to = u]
  OBVIOUS
<1>4. e \in S /\ e.to = u /\ e.pool = items[i].pool /\ e.code = items[i].code
  BY <1>1, <1>2, <1>3
<1>5. items' = [items EXCEPT ![i] = e]
  BY <1>3
<1>6. items' \in Seq(S) /\ Len(items') = Len(items)
  BY <1>2, <1>4, <1>5, ExceptSeq
<1>7. DOMAIN items' = DOMAIN items
  BY <1>2, <1>6
<1>8. items'[i] = e /\ \A j \in DOMAIN items \ {i} : items'[j] = items[j]
  BY <1>5
<1>9. TablesOK'
  BY <1>1, <1>6, <1>7 DEF TablesOK, Items, Rows, Pools
<1> QED
  BY <1>4, <1>7, <1>8, <1>9 DEF Grow

RowSet == [item : DOMAIN items, user : User, status : {"ISSUED", "REDEEMED"}]

LEMMA RowAdded ==
  ASSUME TablesOK, NEW r \in RowSet, issuances' = Append(issuances, r), UNCHANGED <<pools, items>>
  PROVE  /\ TablesOK' /\ Grow
         /\ DOMAIN issuances' = DOMAIN issuances \cup {Len(issuances) + 1}
         /\ Len(issuances) + 1 \notin DOMAIN issuances
         /\ issuances'[Len(issuances) + 1] = r
         /\ \A k \in DOMAIN issuances : issuances'[k] = issuances[k]
<1>1. PICK S : S = RowSet
  OBVIOUS
<1>2. issuances \in Seq(S) /\ r \in S
  BY <1>1 DEF TablesOK, Rows, RowSet
<1>3. /\ issuances' \in Seq(S)
      /\ DOMAIN issuances' = DOMAIN issuances \cup {Len(issuances) + 1}
      /\ Len(issuances) + 1 \notin DOMAIN issuances
      /\ issuances'[Len(issuances) + 1] = r
      /\ \A k \in DOMAIN issuances : issuances'[k] = issuances[k]
  BY <1>2
<1>4. TablesOK' /\ Grow
  BY <1>1, <1>3 DEF TablesOK, Items, Pools, Rows, RowSet, Grow
<1> QED
  BY <1>3, <1>4

LEMMA TablesKept ==
  ASSUME TablesOK, UNCHANGED tables
  PROVE  TablesOK' /\ Grow
  BY DEF TablesOK, Pools, Items, Rows, Grow, tables

LEMMA ItemType ==
  ASSUME TablesOK, NEW i \in DOMAIN items
  PROVE  items[i].pool \in DOMAIN pools /\ items[i].to \in User \cup {Nobody}
<1>1. PICK S : S = [pool : DOMAIN pools, code : Code, to : User \cup {Nobody}]
  OBVIOUS
<1>2. items \in Seq(S) /\ i \in 1..Len(items)
  BY <1>1 DEF TablesOK, Items
<1>3. items[i] \in S
  BY <1>2, ElementOfSeq
<1> QED
  BY <1>1, <1>3

LEMMA RowType ==
  ASSUME TablesOK, NEW k \in DOMAIN issuances
  PROVE  /\ issuances[k].item \in DOMAIN items /\ issuances[k].user \in User
         /\ issuances[k].status \in {"ISSUED", "REDEEMED"}
<1>1. PICK S : S = [item : DOMAIN items, user : User, status : {"ISSUED", "REDEEMED"}]
  OBVIOUS
<1>2. issuances \in Seq(S) /\ k \in 1..Len(issuances)
  BY <1>1 DEF TablesOK, Rows
<1>3. issuances[k] \in S
  BY <1>2, ElementOfSeq
<1> QED
  BY <1>1, <1>3

LEMMA BatchFinite ==
  ASSUME TablesOK, LocalsOK, NEW h \in Handler
  PROVE  IsFiniteSet(batch[h]) /\ Cardinality(batch[h]) \in Nat
<1>1. DOMAIN items = 1..Len(items) /\ Len(items) \in Nat
  BY DEF TablesOK, Items
<1>2. IsFiniteSet(DOMAIN items)
  BY <1>1, FS_Interval
<1>3. batch[h] \in SUBSET DOMAIN items
  BY DEF LocalsOK
<1>4. IsFiniteSet(batch[h])
  BY <1>2, <1>3, FS_Subset
<1> QED
  BY <1>4, FS_CardinalityType

----------------------------------------------------------------------------
(***************************************************************************)
(* What each action does to the tables, and that it keeps Core.            *)
(***************************************************************************)

\* What a pool becomes when its counters are raised by t and r.
Raised(p, t, r) == [total |-> pools[p].total + t, remaining |-> pools[p].remaining + r]

LEMMA PoolType ==
  ASSUME TablesOK, NEW p \in DOMAIN pools
  PROVE  pools[p] \in [total : Nat, remaining : Int]
<1>1. pools \in Pools /\ DOMAIN pools = 1..Len(pools)
  BY DEF TablesOK, Pools
<1> QED
  BY <1>1, ElementOfSeq DEF Pools

LEMMA RecordUpdates ==
  ASSUME NEW r \in [total : Nat, remaining : Int], NEW t, NEW m
  PROVE  /\ [r EXCEPT !.total = t] = [total |-> t, remaining |-> r.remaining]
         /\ [r EXCEPT !.remaining = m] = [total |-> r.total, remaining |-> m]
<1>1. DOMAIN r = {"total", "remaining"}
  OBVIOUS
<1>2. [r EXCEPT !.total = t] = [total |-> t, remaining |-> r.remaining]
  BY <1>1
<1>3. [r EXCEPT !.remaining = m] = [total |-> r.total, remaining |-> m]
  BY <1>1
<1> QED
  BY <1>2, <1>3

LEMMA RaisedType ==
  ASSUME TablesOK, NEW p \in DOMAIN pools, NEW t \in Nat, NEW r \in Int
  PROVE  /\ pools[p].total \in Nat /\ pools[p].remaining \in Int
         /\ Raised(p, t, r) \in [total : Nat, remaining : Int]
         /\ Raised(p, t, r).total = pools[p].total + t
         /\ Raised(p, t, r).remaining = pools[p].remaining + r
<1>1. pools[p] \in [total : Nat, remaining : Int]
  BY PoolType
<1> QED
  BY <1>1 DEF Raised

\* Handler h goes to another statement and keeps what it holds.
LEMMA GotoCore ==
  ASSUME NEW h \in Handler, Core, Grow, TablesOK', CountsOK', NEW next \in PC, Goto(h, next),
         UNCHANGED <<call, pool, batch, unsaved, contested>>, unsaved[h] = {},
         call[h] \in Calls,
         next \in {"find"} \cup Saving => call[h].op \in {"issue", "redeem"},
         next = "take" => call[h].op = "issue",
         next \in {"items"} \cup Adding => pool[h] \in DOMAIN pools',
         next \in Saving /\ call[h].op = "issue" =>
            pool[h] \in DOMAIN pools' /\ \A i \in batch[h] : items'[i].pool = pool[h]
  PROVE  Core'
<1>0. LocalsOK
  BY TypeParts DEF Core
<1>1. LocalsOK'
  BY <1>0 DEF LocalsOK, Goto, Grow
<1>2. pc'[h] = next
  BY <1>0 DEF LocalsOK, Goto
<1>3. ControlOK(h)'
  BY <1>2 DEF ControlOK
<1>4. \A g \in Handler \ {h} : Same(g)
  BY <1>0 DEF LocalsOK, Goto, Same
<1> QED
  BY <1>1, <1>3, <1>4, StepCore

LEMMA CreatePoolCore ==
  ASSUME NEW h \in Handler, Core, CreatePool(h), UNCHANGED killed
  PROVE  Core'
<1>0. TablesOK /\ LocalsOK /\ CountsOK /\ ControlOK(h)
  BY TypeParts DEF Core
<1>1. PICK e : e = [total |-> 0, remaining |-> 0]
  OBVIOUS
<1>2. e \in [total : Nat, remaining : Int] /\ pools' = Append(pools, e)
      /\ UNCHANGED <<items, issuances>>
  BY <1>1 DEF CreatePool
<1>3. TablesOK' /\ Grow /\ DOMAIN pools' = DOMAIN pools \cup {Len(pools) + 1}
  BY <1>0, <1>2, PoolsAppended
<1>4. CountsOK'
  BY <1>0 DEF CreatePool, CountsOK
<1>5. CASE Return(h)
  BY <1>3, <1>4, <1>5, ReturnCore
<1>6. CASE /\ Goto(h, "items") /\ pool' = [pool EXCEPT ![h] = Len(pools) + 1]
           /\ UNCHANGED <<call, batch, unsaved, contested>>
  <2>1. LocalsOK'
    BY <1>0, <1>3, <1>6 DEF LocalsOK, Goto, Grow, PC
  <2>2. pc'[h] = "items" /\ pool'[h] = Len(pools) + 1
    BY <1>0, <1>6 DEF LocalsOK, Goto
  <2>3. ControlOK(h)'
    BY <1>0, <1>3, <1>6, <2>2 DEF ControlOK, Saving, Adding, CreatePool
  <2>4. \A g \in Handler \ {h} : Same(g)
    BY <1>0, <1>6 DEF LocalsOK, Goto, Same
  <2> QED
    BY <1>3, <1>4, <2>1, <2>3, <2>4, StepCore
<1> QED
  BY <1>5, <1>6 DEF CreatePool

\* The rows that a handler inserts.
NewItems(h) ==
    [k \in 1..Added(h) |-> [pool |-> pool[h], code |-> call[h].codes[k], to |-> Nobody]]

LEMMA NewItemsType ==
  ASSUME NEW h \in Handler, Core, pool[h] \in DOMAIN pools
  PROVE  /\ NewItems(h) \in Items /\ Len(NewItems(h)) = Added(h) /\ Added(h) \in Nat
         /\ \A k \in 1..Added(h) : /\ NewItems(h)[k].pool = pool[h]
                                   /\ NewItems(h)[k].to = Nobody
<1>1. call[h].codes \in Seq(Code) /\ Added(h) \in Nat
  BY CallType DEF Core
<1>2. \A k \in 1..Added(h) : call[h].codes[k] \in Code
  BY <1>1 DEF Added
<1>3. PICK S : S = [pool : DOMAIN pools, code : Code, to : User \cup {Nobody}]
  OBVIOUS
<1>4. \A k \in 1..Added(h) :
         [pool |-> pool[h], code |-> call[h].codes[k], to |-> Nobody] \in S
  BY <1>2, <1>3
<1>5. NewItems(h) \in [1..Added(h) -> S]
  BY <1>4 DEF NewItems
<1>6. NewItems(h) \in Seq(S) /\ Len(NewItems(h)) = Added(h)
  BY <1>1, <1>5
<1>7. \A k \in 1..Added(h) : NewItems(h)[k].pool = pool[h] /\ NewItems(h)[k].to = Nobody
  BY DEF NewItems
<1> QED
  BY <1>1, <1>3, <1>6, <1>7 DEF Items

LEMMA InsertItemsCore ==
  ASSUME NEW h \in Handler, Core, InsertItems(h), UNCHANGED killed
  PROVE  /\ Core' /\ Grow /\ items' = items \o NewItems(h) /\ NewItems(h) \in Items
         /\ pool[h] \in DOMAIN pools
<1>0. TablesOK /\ LocalsOK /\ CountsOK /\ ControlOK(h)
  BY TypeParts DEF Core
<1>1. pool[h] \in DOMAIN pools
  BY <1>0 DEF ControlOK, InsertItems
<1>2. items' = items \o NewItems(h) /\ NewItems(h) \in Items
  BY <1>1, NewItemsType DEF InsertItems, NewItems, Added
<1>3. TablesOK' /\ Grow
  BY <1>0, <1>2, ItemsAdded DEF InsertItems
<1>4. CountsOK'
  BY <1>0 DEF InsertItems, CountsOK
<1>5. PICK next \in {"stock", "total"} : Goto(h, next)
  BY DEF InsertItems
<1>6. UNCHANGED <<call, pool, batch, unsaved, contested>> /\ pools' = pools /\ pc[h] = "items"
  BY DEF InsertItems
<1>7. call[h] \in Calls /\ unsaved[h] = {}
  BY <1>0, <1>6 DEF ControlOK
<1>8. next \in PC /\ next \notin {"find"} \cup Saving
  BY <1>5 DEF PC, Saving
<1>9. Core'
  BY <1>1, <1>3, <1>4, <1>5, <1>6, <1>7, <1>8, GotoCore DEF Saving
<1> QED
  BY <1>1, <1>2, <1>3, <1>9

LEMMA AddStockCore ==
  ASSUME NEW h \in Handler, Core, AddStock(h), UNCHANGED killed
  PROVE  /\ Core' /\ Grow /\ pool[h] \in DOMAIN pools
         /\ pools' = [pools EXCEPT ![pool[h]] = Raised(pool[h], Added(h), Added(h))]
<1>0. TablesOK /\ LocalsOK /\ CountsOK /\ ControlOK(h)
  BY TypeParts DEF Core
<1>1. pool[h] \in DOMAIN pools
  BY <1>0 DEF ControlOK, AddStock, Adding
<1>2. pools' = [pools EXCEPT ![pool[h]] = Raised(pool[h], Added(h), Added(h))]
  BY DEF AddStock, Raised
<1>3. Added(h) \in Nat
  BY CallType DEF Core
<1>4. TablesOK' /\ Grow
  <2>1. Raised(pool[h], Added(h), Added(h)) \in [total : Nat, remaining : Int]
    BY <1>0, <1>1, <1>3, RaisedType
  <2> QED
    BY <1>0, <1>1, <1>2, <2>1, PoolWritten DEF AddStock
<1>5. CountsOK'
  BY <1>0 DEF AddStock, CountsOK
<1>6. Core'
  BY <1>4, <1>5, ReturnCore DEF AddStock
<1> QED
  BY <1>1, <1>2, <1>4, <1>6

LEMMA AddTotalCore ==
  ASSUME NEW h \in Handler, Core, AddTotal(h), UNCHANGED killed
  PROVE  /\ Core' /\ Grow /\ pool[h] \in DOMAIN pools
         /\ pools' = [pools EXCEPT ![pool[h]] = Raised(pool[h], Added(h), 0)]
<1>0. TablesOK /\ LocalsOK /\ CountsOK /\ ControlOK(h)
  BY TypeParts DEF Core
<1>1. pool[h] \in DOMAIN pools /\ call[h] \in Calls /\ unsaved[h] = {}
  BY <1>0 DEF ControlOK, AddTotal, Adding
<1>2. pools' = [pools EXCEPT ![pool[h]] = Raised(pool[h], Added(h), 0)]
  <2>1. PICK r : r = pools[pool[h]]
    OBVIOUS
  <2>2. r \in [total : Nat, remaining : Int]
    BY <1>0, <1>1, <2>1, PoolType
  <2>3. [r EXCEPT !.total = r.total + Added(h)] = Raised(pool[h], Added(h), 0)
    BY <2>1, <2>2, RecordUpdates DEF Raised
  <2>4. AddTotal(h) =>
           pools' = [pools EXCEPT ![pool[h]] = [r EXCEPT !.total = r.total + Added(h)]]
    BY <2>1 DEF AddTotal
  <2> QED
    BY <2>3, <2>4
<1>3. Added(h) \in Nat
  BY CallType DEF Core
<1>4. TablesOK' /\ Grow /\ DOMAIN pools' = DOMAIN pools
  <2>1. Raised(pool[h], Added(h), 0) \in [total : Nat, remaining : Int]
    BY <1>0, <1>1, <1>3, RaisedType
  <2> QED
    BY <1>0, <1>1, <1>2, <2>1, PoolWritten DEF AddTotal
<1>5. CountsOK'
  BY <1>0 DEF AddTotal, CountsOK
<1>6. Goto(h, "remaining") /\ UNCHANGED <<call, pool, batch, unsaved, contested>>
  BY DEF AddTotal
<1>7. "remaining" \in PC /\ "remaining" \notin {"find"} \cup Saving
  BY DEF PC, Saving
<1>8. Core'
  BY <1>1, <1>4, <1>5, <1>6, <1>7, GotoCore DEF Saving
<1> QED
  BY <1>1, <1>2, <1>4, <1>8

LEMMA AddRemainingCore ==
  ASSUME NEW h \in Handler, Core, AddRemaining(h), UNCHANGED killed
  PROVE  /\ Core' /\ Grow /\ pool[h] \in DOMAIN pools
         /\ pools' = [pools EXCEPT ![pool[h]] = Raised(pool[h], 0, Added(h))]
<1>0. TablesOK /\ LocalsOK /\ CountsOK /\ ControlOK(h)
  BY TypeParts DEF Core
<1>1. pool[h] \in DOMAIN pools
  BY <1>0 DEF ControlOK, AddRemaining, Adding
<1>2. pools' = [pools EXCEPT ![pool[h]] = Raised(pool[h], 0, Added(h))]
  <2>1. PICK r : r = pools[pool[h]]
    OBVIOUS
  <2>2. r \in [total : Nat, remaining : Int]
    BY <1>0, <1>1, <2>1, PoolType
  <2>3. [r EXCEPT !.remaining = r.remaining + Added(h)] = Raised(pool[h], 0, Added(h))
    BY <2>1, <2>2, RecordUpdates DEF Raised
  <2>4. AddRemaining(h) => pools' =
           [pools EXCEPT ![pool[h]] = [r EXCEPT !.remaining = r.remaining + Added(h)]]
    BY <2>1 DEF AddRemaining
  <2> QED
    BY <2>3, <2>4
<1>3. Added(h) \in Nat
  BY CallType DEF Core
<1>4. TablesOK' /\ Grow
  <2>1. PICK p \in DOMAIN pools, n \in Int : p = pool[h] /\ n = Added(h)
    BY <1>1, <1>3
  <2>2. Raised(p, 0, n) \in [total : Nat, remaining : Int]
    BY <1>0, RaisedType
  <2> QED
    BY <1>0, <1>1, <1>2, <2>1, <2>2, PoolWritten DEF AddRemaining
<1>5. CountsOK'
  BY <1>0 DEF AddRemaining, CountsOK
<1>6. Core'
  BY <1>4, <1>5, ReturnCore DEF AddRemaining
<1> QED
  BY <1>1, <1>2, <1>4, <1>6

LEMMA TakeStockCore ==
  ASSUME NEW h \in Handler, Core, TakeStock(h), UNCHANGED killed
  PROVE  /\ Core' /\ Grow /\ pool[h] \in DOMAIN pools /\ Cardinality(batch[h]) \in Nat
         /\ pools' = [pools EXCEPT ![pool[h]] = Raised(pool[h], 0, -Cardinality(batch[h]))]
<1>0. TablesOK /\ LocalsOK /\ CountsOK /\ ControlOK(h)
  BY TypeParts DEF Core
<1>1. pool[h] \in DOMAIN pools
  BY <1>0 DEF ControlOK, TakeStock, Saving
<1>3. Cardinality(batch[h]) \in Nat
  BY <1>0, BatchFinite
<1>2. pools' = [pools EXCEPT ![pool[h]] = Raised(pool[h], 0, -Cardinality(batch[h]))]
  <2>1. PICK r : r = pools[pool[h]]
    OBVIOUS
  <2>2. r \in [total : Nat, remaining : Int]
    BY <1>0, <1>1, <2>1, PoolType
  <2>3. r.total = r.total + 0
        /\ r.remaining - Cardinality(batch[h]) = r.remaining + (-Cardinality(batch[h]))
    BY <1>3, <2>2
  <2>4. [r EXCEPT !.remaining = r.remaining - Cardinality(batch[h])]
           = Raised(pool[h], 0, -Cardinality(batch[h]))
    BY <2>1, <2>2, <2>3, RecordUpdates DEF Raised
  <2>5. TakeStock(h) => pools' = [pools EXCEPT ![pool[h]] =
           [r EXCEPT !.remaining = r.remaining - Cardinality(batch[h])]]
    BY <2>1 DEF TakeStock
  <2> QED
    BY <2>4, <2>5
<1>4. TablesOK' /\ Grow
  <2>1. Raised(pool[h], 0, -Cardinality(batch[h])) \in [total : Nat, remaining : Int]
    BY <1>0, <1>1, <1>3, RaisedType
  <2> QED
    BY <1>0, <1>1, <1>2, <2>1, PoolWritten DEF TakeStock
<1>5. CountsOK'
  BY <1>0 DEF TakeStock, CountsOK
<1>6. Core'
  BY <1>4, <1>5, ReturnCore DEF TakeStock
<1> QED
  BY <1>1, <1>2, <1>3, <1>4, <1>6

\* A handler that goes on with the item rows of S, which are those of pool p when
\* it issues vouchers.
LEMMA SelectCore ==
  ASSUME NEW h \in Handler, Core, NEW S \in SUBSET DOMAIN items,
         NEW p \in {0} \cup DOMAIN pools, Select(h, S, p), pc[h] = "find",
         UNCHANGED <<tables, served, faults, killed>>,
         call[h].op = "issue" => p \in DOMAIN pools /\ \A i \in S : items[i].pool = p
  PROVE  /\ Core' /\ Grow /\ pc'[h] = "save" /\ batch'[h] = S /\ unsaved'[h] = S
         /\ \A g \in Handler \ {h} : Same(g)
<1>0. TablesOK /\ LocalsOK /\ CountsOK
  BY TypeParts DEF Core
<1>1. TablesOK' /\ Grow
  BY <1>0, TablesKept
<1>2. CountsOK'
  BY <1>0 DEF CountsOK, tables
<1>3. LocalsOK'
  BY <1>0 DEF LocalsOK, Select, Goto, PC, tables
<1>4. /\ pc'[h] = "save" /\ batch'[h] = S /\ unsaved'[h] = S /\ pool'[h] = p
      /\ call' = call
  BY <1>0 DEF LocalsOK, Select, Goto
<1>5. call[h] \in Calls /\ call[h].op \in {"issue", "redeem"}
  BY CallerIsUser
<1>6. ControlOK(h)'
  BY <1>4, <1>5 DEF ControlOK, Saving, Adding, tables
<1>7. \A g \in Handler \ {h} : Same(g)
  BY <1>0 DEF LocalsOK, Select, Goto, Same
<1> QED
  BY <1>1, <1>2, <1>3, <1>4, <1>6, <1>7, StepCore

LEMMA FindStockCore ==
  ASSUME NEW h \in Handler, Core, FindStock(h), UNCHANGED killed
  PROVE  /\ Core' /\ Grow
         /\ \/ Return(h)
            \/ \E S \in SUBSET Unissued(1) :
                  /\ Select(h, S, 1) /\ pc'[h] = "save" /\ batch'[h] = S /\ unsaved'[h] = S
                  /\ \A g \in Handler \ {h} : Same(g)
<1>0. TablesOK /\ LocalsOK /\ CountsOK
  BY TypeParts DEF Core
<1>1. UNCHANGED <<tables, served, faults>>
  BY DEF FindStock
<1>2. TablesOK' /\ Grow /\ CountsOK'
  BY <1>0, <1>1, TablesKept DEF CountsOK, tables
<1>3. PICK S \in SUBSET Unissued(1) : IF S = {} THEN Return(h) ELSE Select(h, S, 1)
  BY DEF FindStock, Stock, kSubset
<1>4. CASE S = {}
  BY <1>2, <1>3, <1>4, ReturnCore
<1>5. CASE S # {}
  <2>1. \A i \in S : i \in DOMAIN items /\ items[i].pool = 1
    BY DEF Unissued, ListVoucherPoolItems
  <2>2. 1 \in DOMAIN pools
    BY <1>0, <1>5, <2>1, ItemType
  <2>3. S \in SUBSET DOMAIN items
    BY <2>1
  <2> QED
    BY <1>1, <1>3, <1>5, <2>1, <2>2, <2>3, SelectCore DEF FindStock
<1> QED
  BY <1>4, <1>5

LEMMA FindVoucherCore ==
  ASSUME NEW h \in Handler, Core, FindVoucher(h), UNCHANGED killed
  PROVE  /\ Core' /\ Grow
         /\ \/ Return(h)
            \/ \E S : /\ S = Redeemable(call[h].codes[1], call[h].user)
                      /\ Select(h, S, 0) /\ pc'[h] = "save" /\ batch'[h] = S
                      /\ unsaved'[h] = S /\ \A g \in Handler \ {h} : Same(g)
<1>0. TablesOK /\ LocalsOK /\ CountsOK
  BY TypeParts DEF Core
<1>1. UNCHANGED <<tables, served, faults>>
  BY DEF FindVoucher
<1>2. TablesOK' /\ Grow /\ CountsOK'
  BY <1>0, <1>1, TablesKept DEF CountsOK, tables
<1>3. PICK S : S = Redeemable(call[h].codes[1], call[h].user)
  OBVIOUS
<1>4. IF S = {} THEN Return(h) ELSE Select(h, S, 0)
  BY <1>3 DEF FindVoucher
<1>5. CASE S = {}
  BY <1>2, <1>4, <1>5, ReturnCore
<1>6. CASE S # {}
  <2>1. S \in SUBSET DOMAIN items
    BY <1>3 DEF Redeemable
  <2>2. call[h].op = "redeem" /\ pc[h] = "find"
    BY DEF FindVoucher
  <2> QED
    BY <1>1, <1>3, <1>4, <1>6, <2>1, <2>2, SelectCore
<1> QED
  BY <1>5, <1>6

\* An item is written back, or its error ignored.
LEMMA SaveItemCore ==
  ASSUME NEW h \in Handler, Core, SaveItem(h), UNCHANGED killed
  PROVE  /\ Core' /\ Grow /\ DOMAIN items' = DOMAIN items
         /\ pc[h] = "save" /\ pc'[h] \in {"save", "issuance"}
         /\ UNCHANGED <<pools, issuances, call, pool, batch, served, contested>>
         /\ \A g \in Handler \ {h} : Same(g)
         /\ \E i \in unsaved[h] :
               /\ unsaved'[h] = unsaved[h] \ {i}
               /\ \A j \in DOMAIN items \ {i} : items'[j] = items[j]
               /\ \/ items'[i].to = call[h].user /\ faults' = faults
                  \/ items' = items /\ faults' = faults + 1
<1>0. TablesOK /\ LocalsOK /\ CountsOK /\ ControlOK(h)
  BY TypeParts DEF Core
<1>1. PICK i \in unsaved[h] :
         /\ \/ items' = [items EXCEPT ![i].to = call[h].user] /\ UNCHANGED faults
            \/ Fault /\ UNCHANGED items
         /\ unsaved' = [unsaved EXCEPT ![h] = @ \ {i}]
         /\ IF unsaved[h] = {i} THEN Goto(h, "issuance") ELSE UNCHANGED pc
  BY DEF SaveItem
<1>2. /\ UNCHANGED <<pools, issuances, keyUsed, call, pool, batch, served, contested>>
      /\ pc[h] = "save" /\ i \in DOMAIN items
  BY <1>0 DEF SaveItem, LocalsOK
<1>3. call[h] \in Calls /\ call[h].op \in {"issue", "redeem"} /\ call[h].user \in User
  BY <1>2, CallerIsUser DEF Saving
<1>4. /\ TablesOK' /\ Grow /\ DOMAIN items' = DOMAIN items
      /\ \A j \in DOMAIN items \ {i} : items'[j] = items[j]
      /\ \/ items'[i].to = call[h].user /\ faults' = faults
         \/ items' = items /\ faults' = faults + 1
  <2>1. CASE items' = [items EXCEPT ![i].to = call[h].user] /\ UNCHANGED faults
    BY <1>0, <1>2, <1>3, <2>1, ItemWritten
  <2>2. CASE Fault /\ UNCHANGED items
    BY <1>0, <1>2, <2>2, TablesKept DEF tables, Fault
  <2> QED
    BY <1>1, <2>1, <2>2
<1>5. CountsOK'
  BY <1>0, <1>1, <1>2, VoucherAssumption DEF CountsOK, Fault
<1>6. LocalsOK'
  BY <1>0, <1>1, <1>2, <1>4 DEF LocalsOK, Goto, PC
<1>7. /\ unsaved'[h] = unsaved[h] \ {i}
      /\ pc'[h] = IF unsaved[h] = {i} THEN "issuance" ELSE "save"
  BY <1>0, <1>1, <1>2 DEF LocalsOK, Goto
<1>8. ControlOK(h)'
  BY <1>0, <1>2, <1>3, <1>4, <1>7 DEF ControlOK, Saving, Adding, Grow, LocalsOK
<1>9. \A g \in Handler \ {h} : Same(g)
  BY <1>0, <1>1, <1>2 DEF LocalsOK, Goto, Same
<1>10. Core'
  BY <1>4, <1>5, <1>6, <1>8, <1>9, StepCore
<1> QED
  BY <1>2, <1>4, <1>7, <1>9, <1>10

LEMMA IssuanceType ==
  ASSUME NEW h \in Handler, Core, pc[h] = "issuance", NEW i \in batch[h]
  PROVE  /\ Issuance(h, i) \in RowSet
         /\ Issuance(h, i).item = i /\ Issuance(h, i).user = call[h].user
         /\ call[h].op = "issue" => Issuance(h, i).status = "ISSUED"
         /\ call[h].op = "redeem" => Issuance(h, i).status = "REDEEMED"
<1>1. i \in DOMAIN items
  BY DEF Core, TypeOK
<1>2. call[h].user \in User
  BY CallerIsUser DEF Saving
<1> QED
  BY <1>1, <1>2 DEF Issuance, RowSet

\* Either the one item of the batch has its row, or the insert was refused.
LEMMA CreateIssuancesCore ==
  ASSUME NEW h \in Handler, Core, CreateIssuances(h), UNCHANGED killed
  PROVE  /\ Core' /\ Grow /\ pc[h] = "issuance" /\ UNCHANGED <<pools, items, faults>>
         /\ contested \subseteq contested'
         /\ \/ /\ \E i \in batch[h] :
                     batch[h] = {i} /\ issuances' = Append(issuances, Issuance(h, i))
               /\ \/ /\ call[h].op = "issue" /\ Goto(h, "take")
                     /\ UNCHANGED <<call, pool, batch, unsaved>>
                  \/ call[h].op = "redeem" /\ Return(h)
            \/ issuances' = issuances /\ Return(h)
<1>0. TablesOK /\ LocalsOK /\ CountsOK /\ ControlOK(h)
  BY TypeParts DEF Core
<1>1. UNCHANGED <<pools, items, served, faults>> /\ pc[h] = "issuance"
  BY DEF CreateIssuances
<1>2. call[h] \in Calls /\ call[h].op \in {"issue", "redeem"}
  BY <1>1, CallerIsUser DEF Saving
<1>3. CountsOK'
  <2>1. keyUsed' \in BOOLEAN
    BY <1>0 DEF CreateIssuances, CountsOK
  <2> QED
    BY <1>0, <1>1, <2>1 DEF CountsOK
<1>4. CASE /\ \E i \in batch[h] :
                 batch[h] = {i} /\ issuances' = Append(issuances, Issuance(h, i))
           /\ IF call[h].op = "issue"
              THEN Goto(h, "take") /\ UNCHANGED <<call, pool, batch, unsaved, contested>>
              ELSE Return(h)
  <2>1. PICK i \in batch[h] :
           batch[h] = {i} /\ issuances' = Append(issuances, Issuance(h, i))
    BY <1>4
  <2>2. Issuance(h, i) \in RowSet
    BY <1>1, IssuanceType
  <2>3. TablesOK' /\ Grow
    BY <1>0, <1>1, <2>1, <2>2, RowAdded
  <2>4. CASE call[h].op = "issue"
    <3>1. Goto(h, "take") /\ UNCHANGED <<call, pool, batch, unsaved, contested>>
      BY <1>4, <2>4
    <3>2. /\ unsaved[h] = {} /\ pool[h] \in DOMAIN pools
          /\ \A j \in batch[h] : items[j].pool = pool[h]
      BY <1>0, <1>1, <2>4 DEF ControlOK, Saving
    <3>3. "take" \in PC /\ "take" \notin {"items"} \cup Adding
      BY DEF PC, Adding
    <3>4. Core'
      BY <1>1, <1>2, <1>3, <2>3, <2>4, <3>1, <3>2, <3>3, GotoCore
    <3> QED
      BY <1>1, <2>1, <2>3, <2>4, <3>1, <3>4
  <2>5. CASE call[h].op = "redeem"
    <3>1. Return(h)
      BY <1>4, <2>5
    <3>2. Core'
      BY <1>3, <2>3, <3>1, ReturnCore
    <3>3. contested' = contested
      BY <3>1 DEF Return, End
    <3> QED
      BY <1>1, <2>1, <2>3, <2>5, <3>1, <3>2, <3>3
  <2> QED
    BY <1>2, <2>4, <2>5
<1>5. CASE Return(h) /\ UNCHANGED <<issuances, keyUsed>>
  <2>1. TablesOK' /\ Grow
    BY <1>0, <1>1, <1>5, TablesKept DEF tables
  <2>2. Core'
    BY <1>3, <1>5, <2>1, ReturnCore
  <2>3. contested' = contested
    BY <1>5 DEF Return, End
  <2> QED
    BY <1>1, <1>5, <2>1, <2>2, <2>3
<1> QED
  BY <1>4, <1>5 DEF CreateIssuances

\* A request arrives.
LEMMA ReceiveCore ==
  ASSUME NEW h \in Handler, Core, Receive(h), UNCHANGED killed
  PROVE  /\ Core' /\ Grow /\ pc[h] = "idle" /\ pc'[h] \in {"pool", "items", "find"}
         /\ \A g \in Handler \ {h} : Same(g)
<1>0. TablesOK /\ LocalsOK /\ CountsOK /\ ControlOK(h)
  BY TypeParts DEF Core
<1>1. PICK c \in Calls :
         /\ call' = [call EXCEPT ![h] = c]
         /\ Goto(h, FirstStatement[c.op])
         /\ IF c.op = "import"
            THEN \E p \in DOMAIN pools : pool' = [pool EXCEPT ![h] = p]
            ELSE UNCHANGED pool
  BY DEF Receive
<1>2. /\ pc[h] = "idle" /\ served < MaxCalls /\ served' = served + 1
      /\ UNCHANGED <<tables, batch, unsaved, faults, contested>>
  BY DEF Receive
<1>3. TablesOK' /\ Grow
  BY <1>0, <1>2, TablesKept
<1>4. CountsOK'
  <2>1. served' \in 0..MaxCalls /\ faults' \in 0..MaxFaults
    BY <1>0, <1>2, VoucherAssumption DEF CountsOK
  <2>2. keyUsed' \in BOOLEAN
    BY <1>0, <1>2 DEF CountsOK, tables
  <2>3. killed' \in BOOLEAN
    BY <1>0 DEF CountsOK
  <2> QED
    BY <2>1, <2>2, <2>3 DEF CountsOK
<1>5. c.op \in {"create", "import", "issue", "redeem"}
  BY VoucherAssumption DEF Call
<1>6. /\ c.op = "create" => FirstStatement[c.op] = "pool"
      /\ c.op = "import" => FirstStatement[c.op] = "items"
      /\ c.op \in {"issue", "redeem"} => FirstStatement[c.op] = "find"
  BY DEF FirstStatement
<1>7. /\ pc'[h] = FirstStatement[c.op] /\ call'[h] = c /\ unsaved'[h] = {}
      /\ c.op = "import" => pool'[h] \in DOMAIN pools
  BY <1>0, <1>1, <1>2 DEF LocalsOK, Goto, ControlOK
<1>8. pc'[h] \in {"pool", "items", "find"} /\ FirstStatement[c.op] \in PC
  BY <1>5, <1>6, <1>7 DEF PC
<1>9. LocalsOK'
  BY <1>0, <1>1, <1>2, <1>8 DEF LocalsOK, Goto, tables
<1>10. ControlOK(h)'
  BY <1>2, <1>5, <1>6, <1>7 DEF ControlOK, Saving, Adding, tables
<1>11. \A g \in Handler \ {h} : Same(g)
  BY <1>0, <1>1, <1>2 DEF LocalsOK, Goto, Same
<1> QED
  BY <1>2, <1>3, <1>4, <1>8, <1>9, <1>10, <1>11, StepCore

LEMMA FailCore ==
  ASSUME NEW h \in Handler, Core, Fail(h), UNCHANGED killed
  PROVE  Core'
<1>0. TablesOK /\ CountsOK
  BY TypeParts DEF Core
<1>1. TablesOK' /\ Grow
  BY <1>0, TablesKept DEF Fail
<1>2. CountsOK'
  BY <1>0, VoucherAssumption DEF Fail, Fault, CountsOK, tables
<1> QED
  BY <1>1, <1>2, ReturnCore DEF Fail

\* ListMyVouchers ends the handlers of a set, an empty one unless it panics.
LEMMA ListMyVouchersCore ==
  ASSUME Core, NEW user \in User, ListMyVouchers(user)
  PROVE  /\ Core' /\ Grow
         /\ \E H \in SUBSET Handler :
               /\ \A h \in H : pc[h] # "idle"
               /\ IF H = {} THEN UNCHANGED <<pc, call, pool, batch, unsaved, contested, killed>>
                            ELSE End(H) /\ killed'
<1>0. TablesOK /\ LocalsOK /\ CountsOK
  BY TypeParts DEF Core
<1>1. TablesOK' /\ Grow
  BY <1>0, TablesKept DEF ListMyVouchers
<1>2. \/ UNCHANGED <<pc, call, pool, batch, unsaved, contested, killed>>
      \/ \E H \in SUBSET {h \in Handler : pc[h] # "idle"} :
            End(H) /\ killed' = (killed \/ H # {})
  BY DEF ListMyVouchers
<1>3. PICK H \in SUBSET Handler :
         /\ \A h \in H : pc[h] # "idle"
         /\ IF H = {} THEN UNCHANGED <<pc, call, pool, batch, unsaved, contested, killed>>
                      ELSE End(H) /\ killed'
  <2>1. CASE UNCHANGED <<pc, call, pool, batch, unsaved, contested, killed>>
    BY <2>1
  <2>2. ASSUME NEW H \in SUBSET {h \in Handler : pc[h] # "idle"},
               End(H), killed' = (killed \/ H # {})
        PROVE  \E G \in SUBSET Handler :
                  /\ \A h \in G : pc[h] # "idle"
                  /\ IF G = {} THEN UNCHANGED <<pc, call, pool, batch, unsaved, contested, killed>>
                               ELSE End(G) /\ killed'
    <3>1. CASE H = {}
      <4>1. UNCHANGED <<pc, call, pool, batch, unsaved, contested>>
        BY <1>0, <2>2, <3>1 DEF End, LocalsOK
      <4>2. killed' = killed
        BY <1>0, <2>2, <3>1, Zenon DEF CountsOK
      <4> QED
        BY <3>1, <4>1, <4>2
    <3>2. CASE H # {}
      <4>1. killed'
        BY <2>2, <3>2, Zenon
      <4> QED
        BY <2>2, <3>2, <4>1
    <3> QED
      BY <3>1, <3>2
  <2> QED
    BY <1>2, <2>1, <2>2
<1>4. CountsOK'
  <2>1. served' \in 0..MaxCalls /\ faults' \in 0..MaxFaults
    BY <1>0, VoucherAssumption DEF CountsOK, ListMyVouchers
  <2>2. keyUsed' \in BOOLEAN
    BY <1>0 DEF CountsOK, ListMyVouchers, tables
  <2>3. killed' \in BOOLEAN
    BY <1>0, <1>2 DEF CountsOK
  <2> QED
    BY <2>1, <2>2, <2>3 DEF CountsOK
<1>5. CASE H = {}
  <2>1. \A g \in Handler : Same(g)
    BY <1>3, <1>5 DEF Same
  <2>2. \A g \in Handler : ControlOK(g)'
    BY <1>1, <2>1, SameControl
  <2>3. LocalsOK'
    BY <1>0, <1>1, <1>3, <1>5 DEF LocalsOK, Grow
  <2>4. TypeOK'
    BY <1>1, <1>4, <2>3 DEF TypeOK, TablesOK, LocalsOK, CountsOK, Pools, Items, Rows
  <2> QED
    BY <1>1, <1>3, <2>2, <2>4 DEF Core
<1>6. CASE H # {}
  BY <1>1, <1>3, <1>4, <1>6, EndCore
<1> QED
  BY <1>5, <1>6

LEMMA StepsCore ==
  ASSUME NEW h \in Handler, Core, Step(h), UNCHANGED killed
  PROVE  Core'
  BY CreatePoolCore, InsertItemsCore, AddStockCore, AddTotalCore, AddRemainingCore,
     FindStockCore, FindVoucherCore, SaveItemCore, CreateIssuancesCore, TakeStockCore
     DEF Step

\* Another campaign takes the empty key.
LEMMA ElsewhereCore ==
  ASSUME Core, IssueElsewhere
  PROVE  Core'
<1>0. TablesOK /\ LocalsOK /\ CountsOK
  BY TypeParts DEF Core
<1>1. TablesOK' /\ Grow
  BY <1>0 DEF IssueElsewhere, TablesOK, Pools, Items, Rows, Grow
<1>2. LocalsOK'
  BY <1>0, <1>1 DEF IssueElsewhere, LocalsOK, Grow
<1>3. CountsOK'
  BY <1>0 DEF IssueElsewhere, CountsOK
<1>4. \A g \in Handler : Same(g)
  BY DEF IssueElsewhere, Same
<1>5. \A g \in Handler : ControlOK(g)'
  BY <1>1, <1>4, SameControl
<1> QED
  BY <1>1, <1>2, <1>3, <1>5 DEF Core, TypeOK, TablesOK, LocalsOK, CountsOK, Pools, Items, Rows

LEMMA IdleCore == Core /\ UNCHANGED vars => Core'
<1> SUFFICES ASSUME Core, UNCHANGED vars PROVE Core'
  OBVIOUS
<1>0. TablesOK /\ LocalsOK /\ CountsOK
  BY TypeParts DEF Core
<1>1. TablesOK' /\ Grow
  BY <1>0, TablesKept DEF vars
<1>2. LocalsOK' /\ CountsOK'
  BY <1>0, <1>1 DEF LocalsOK, CountsOK, Grow, vars, tables
<1>3. \A g \in Handler : Same(g)
  BY DEF Same, vars
<1>4. \A g \in Handler : ControlOK(g)'
  BY <1>1, <1>3, SameControl
<1> QED
  BY <1>1, <1>2, <1>4 DEF Core, TypeOK, TablesOK, LocalsOK, CountsOK, Pools, Items, Rows

LEMMA NextCore == Core /\ [Next]_vars => Core'
<1> SUFFICES ASSUME Core, [Next]_vars PROVE Core'
  OBVIOUS
<1>1. ASSUME NEW h \in Handler, Receive(h), UNCHANGED killed
      PROVE  Core'
  BY <1>1, ReceiveCore
<1>2. ASSUME NEW h \in Handler, Step(h), UNCHANGED killed
      PROVE  Core'
  BY <1>2, StepsCore
<1>3. ASSUME NEW h \in Handler, Fail(h), UNCHANGED killed
      PROVE  Core'
  BY <1>3, FailCore
<1>4. ASSUME NEW user \in User, ListMyVouchers(user)
      PROVE  Core'
  BY <1>4, ListMyVouchersCore
<1>5. CASE IssueElsewhere
  BY <1>5, ElsewhereCore
<1>6. CASE UNCHANGED vars
  BY <1>6, IdleCore
<1> QED
  BY <1>1, <1>2, <1>3, <1>4, <1>5, <1>6 DEF Next, Rest

\* Every variable keeps its type, and every handler has in its hands what its
\* next statement needs.
THEOREM CoreInvariant == Spec => []Core
  BY InitCore, NextCore, PTL DEF Spec

\* Rows of the voucher tables are of the types services/voucher/model.go
\* declares, and name pools and items that exist.
THEOREM TypeCorrect == Spec => []TypeOK
<1>1. Core => TypeOK
  BY DEF Core
<1> QED
  BY <1>1, CoreInvariant, PTL

----------------------------------------------------------------------------
(***************************************************************************)
(* The owners of the items.  A call that alone holds an item, read and not *)
(* written back, finds it as it read it; what it wrote stays, since later  *)
(* calls read it and go on only for the same user.                         *)
(***************************************************************************)

ReadOK(h) == \A i \in unsaved[h] : i \notin contested =>
    /\ items[i].to \in {Nobody, call[h].user}
    /\ \A q \in Handler \ {h} : i \notin unsaved[q]

WrittenOK(h) == pc[h] \in Saving /\ faults = 0 =>
    \A i \in batch[h] \ unsaved[h] : i \notin contested => items[i].to = call[h].user

OwnerInv == IssuanceTellsOwner /\ \A h \in Handler : ReadOK(h) /\ WrittenOK(h)

LEMMA InitOwner == Init => OwnerInv
  BY DEF Init, OwnerInv, ReadOK, WrittenOK, IssuanceTellsOwner, Saving

\* A step that leaves the items as they were and after which no handler has an item
\* in its hands that it had not before.
LEMMA QuietOwner ==
  ASSUME Core, OwnerInv, contested \subseteq contested', faults' = 0 => faults = 0,
         \A i \in DOMAIN items : items'[i] = items[i],
         \A g \in Handler :
            \/ Same(g)
            \/ unsaved'[g] = {} /\ pc'[g] \notin Saving
            \/ /\ pc[g] \in Saving /\ call'[g] = call[g]
               /\ batch'[g] = batch[g] /\ unsaved'[g] = unsaved[g],
         \A k \in DOMAIN issuances' :
            \/ k \in DOMAIN issuances /\ issuances'[k] = issuances[k]
            \/ /\ issuances'[k].item \in DOMAIN items
               /\ faults = 0 /\ issuances'[k].item \notin contested
                     => items[issuances'[k].item].to = issuances'[k].user
  PROVE  OwnerInv'
<1>0. TablesOK /\ LocalsOK
  BY TypeParts DEF Core
<1>1. \A g \in Handler : unsaved'[g] \subseteq unsaved[g]
  BY DEF Same
<1>2. ASSUME NEW g \in Handler
      PROVE  ReadOK(g)' /\ WrittenOK(g)'
  <2>1. ReadOK(g) /\ WrittenOK(g) /\ unsaved[g] \subseteq DOMAIN items /\ batch[g] \subseteq DOMAIN items
    BY <1>0 DEF OwnerInv, LocalsOK
  <2>2. CASE unsaved'[g] = {} /\ pc'[g] \notin Saving
    BY <2>2 DEF ReadOK, WrittenOK
  <2>3. CASE /\ call'[g] = call[g] /\ batch'[g] = batch[g] /\ unsaved'[g] = unsaved[g]
             /\ pc'[g] \in Saving => pc[g] \in Saving
    <3>1. ReadOK(g)'
      BY <1>1, <2>1, <2>3 DEF ReadOK
    <3>2. WrittenOK(g)'
      BY <2>1, <2>3 DEF WrittenOK
    <3> QED
      BY <3>1, <3>2
  <2> QED
    BY <2>2, <2>3 DEF Same
<1>3. IssuanceTellsOwner'
  <2> SUFFICES ASSUME NEW k \in DOMAIN issuances', faults' = 0,
                      issuances'[k].item \notin contested'
               PROVE  items'[issuances'[k].item].to = issuances'[k].user
    BY DEF IssuanceTellsOwner
  <2>1. CASE k \in DOMAIN issuances /\ issuances'[k] = issuances[k]
    <3>1. issuances[k].item \in DOMAIN items
      BY <1>0, <2>1, RowType
    <3> QED
      BY <2>1, <3>1 DEF OwnerInv, IssuanceTellsOwner
  <2>2. CASE ~(k \in DOMAIN issuances /\ issuances'[k] = issuances[k])
    BY <2>2
  <2> QED
    BY <2>1, <2>2
<1> QED
  BY <1>2, <1>3 DEF OwnerInv

\* A handler that goes on with items of which it read that they are nobody's or its
\* caller's.
LEMMA SelectOwner ==
  ASSUME NEW h \in Handler, Core, OwnerInv, NEW S \in SUBSET DOMAIN items, NEW p,
         Select(h, S, p), UNCHANGED <<tables, faults>>, batch'[h] = S, unsaved'[h] = S,
         \A g \in Handler \ {h} : Same(g),
         \A i \in S : items[i].to \in {Nobody, call[h].user}
  PROVE  OwnerInv'
<1>1. /\ contested' = contested \cup {i \in S : \E q \in Handler \ {h} : i \in unsaved[q]}
      /\ call' = call /\ items' = items /\ issuances' = issuances
  BY DEF Select, tables
<1>2. ASSUME NEW g \in Handler \ {h}
      PROVE  ReadOK(g)' /\ WrittenOK(g)'
  <2>1. ReadOK(g) /\ WrittenOK(g) /\ Same(g)
    BY DEF OwnerInv
  <2>2. ASSUME NEW i \in unsaved[g], i \notin contested'
        PROVE  i \notin S
    BY <1>1, <2>2
  <2>3. ReadOK(g)'
    BY <1>1, <2>1, <2>2 DEF ReadOK, Same
  <2>4. WrittenOK(g)'
    BY <1>1, <2>1 DEF WrittenOK, Same
  <2> QED
    BY <2>3, <2>4
<1>3. ReadOK(h)' /\ WrittenOK(h)'
  BY <1>1 DEF ReadOK, WrittenOK, Same
<1>4. IssuanceTellsOwner'
  BY <1>1 DEF OwnerInv, IssuanceTellsOwner
<1> QED
  BY <1>2, <1>3, <1>4 DEF OwnerInv

\* An item is written back.
LEMMA SaveItemOwner ==
  ASSUME NEW h \in Handler, Core, OwnerInv, SaveItem(h), UNCHANGED killed
  PROVE  /\ OwnerInv'
         /\ \A i \in DOMAIN items :
               items[i].to # Nobody /\ items'[i].to # items[i].to => i \in contested
<1>0. TablesOK /\ LocalsOK /\ CountsOK
  BY TypeParts DEF Core
<1>1. /\ pc[h] = "save" /\ UNCHANGED <<issuances, call, batch, contested>>
      /\ \A g \in Handler \ {h} : Same(g)
  BY SaveItemCore
<1>2. PICK i \in unsaved[h] :
         /\ unsaved'[h] = unsaved[h] \ {i}
         /\ \A j \in DOMAIN items \ {i} : items'[j] = items[j]
         /\ \/ items'[i].to = call[h].user /\ faults' = faults
            \/ items' = items /\ faults' = faults + 1
  BY SaveItemCore
<1>3. faults \in Nat /\ i \in DOMAIN items
  BY <1>0, VoucherAssumption DEF CountsOK, LocalsOK
<1>4. \A g \in Handler : unsaved'[g] \subseteq unsaved[g]
  BY <1>1, <1>2 DEF Same
<1>5. \A g \in Handler : pc'[g] \in Saving => pc[g] \in Saving
  BY <1>1 DEF Same, Saving
<1>6. i \in contested \/ items[i].to \in {Nobody, call[h].user}
  BY <1>2 DEF OwnerInv, ReadOK
<1>7. faults' = 0 => faults = 0 /\ items'[i].to = call[h].user
  BY <1>2, <1>3
<1>8. ASSUME NEW g \in Handler
      PROVE  ReadOK(g)'
  <2> SUFFICES ASSUME NEW j \in unsaved'[g], j \notin contested
               PROVE  /\ items'[j].to \in {Nobody, call[g].user}
                      /\ \A q \in Handler \ {g} : j \notin unsaved'[q]
    BY <1>1 DEF ReadOK
  <2>1. /\ j \in unsaved[g] /\ items[j].to \in {Nobody, call[g].user}
        /\ \A q \in Handler \ {g} : j \notin unsaved[q]
    BY <1>4 DEF OwnerInv, ReadOK
  <2>2. j # i
    BY <1>2, <2>1
  <2>3. j \in DOMAIN items
    BY <1>0, <2>1 DEF LocalsOK
  <2> QED
    BY <1>2, <1>4, <2>1, <2>2, <2>3
<1>9. ASSUME NEW g \in Handler
      PROVE  WrittenOK(g)'
  <2> SUFFICES ASSUME pc'[g] \in Saving, faults' = 0,
                      NEW j \in batch[g] \ unsaved'[g], j \notin contested
               PROVE  items'[j].to = call[g].user
    BY <1>1 DEF WrittenOK
  <2>1. pc[g] \in Saving /\ faults = 0 /\ j \in DOMAIN items
    BY <1>0, <1>5, <1>7 DEF LocalsOK
  <2>2. call[g].user \in User
    BY <2>1, CallerIsUser
  <2>3. CASE g = h /\ j = i
    BY <1>7, <2>3
  <2>4. CASE ~(g = h /\ j = i)
    <3>1. j \in batch[g] \ unsaved[g]
      BY <1>1, <1>2, <2>4 DEF Same
    <3>2. items[j].to = call[g].user
      BY <2>1, <3>1 DEF OwnerInv, WrittenOK
    <3>3. CASE j = i
      BY <1>6, <1>7, <2>2, <3>2, <3>3, VoucherAssumption
    <3>4. CASE j # i
      BY <1>2, <2>1, <3>2, <3>4
    <3> QED
      BY <3>3, <3>4
  <2> QED
    BY <2>3, <2>4
<1>10. IssuanceTellsOwner'
  <2> SUFFICES ASSUME NEW k \in DOMAIN issuances, faults' = 0,
                      issuances[k].item \notin contested
               PROVE  items'[issuances[k].item].to = issuances[k].user
    BY <1>1 DEF IssuanceTellsOwner
  <2>1. issuances[k].item \in DOMAIN items /\ issuances[k].user \in User
    BY <1>0, RowType
  <2>2. items[issuances[k].item].to = issuances[k].user
    BY <1>7 DEF OwnerInv, IssuanceTellsOwner
  <2>3. CASE issuances[k].item = i
    BY <1>6, <1>7, <2>1, <2>2, <2>3, VoucherAssumption
  <2>4. CASE issuances[k].item # i
    BY <1>2, <2>1, <2>2, <2>4
  <2> QED
    BY <2>3, <2>4
<1>11. ASSUME NEW j \in DOMAIN items, items[j].to # Nobody, items'[j].to # items[j].to
       PROVE  j \in contested
  <2>1. j = i
    BY <1>2, <1>11
  <2> QED
    BY <1>2, <1>6, <1>11, <2>1
<1> QED
  BY <1>8, <1>9, <1>10, <1>11 DEF OwnerInv

\* What a call finds is nobody's or its caller's.
LEMMA FindOwner ==
  ASSUME NEW h \in Handler, Core, OwnerInv, FindStock(h) \/ FindVoucher(h), UNCHANGED killed
  PROVE  OwnerInv'
<1>1. UNCHANGED <<tables, faults>>
  BY DEF FindStock, FindVoucher
<1>2. CASE Return(h)
  <2>1. /\ contested' = contested /\ unsaved'[h] = {} /\ pc'[h] = "idle"
        /\ \A g \in Handler \ {h} : Same(g)
    BY <1>2 DEF Return, End, Same
  <2> QED
    BY <1>1, <2>1, QuietOwner DEF tables, Saving
<1>3. CASE ~Return(h)
  <2>1. PICK S, p : /\ Select(h, S, p) /\ batch'[h] = S /\ unsaved'[h] = S
                    /\ \A g \in Handler \ {h} : Same(g)
                    /\ \/ S \in SUBSET Unissued(1)
                       \/ S = Redeemable(call[h].codes[1], call[h].user)
    BY <1>3, FindStockCore, FindVoucherCore
  <2>2. \A i \in S : i \in DOMAIN items /\ items[i].to \in {Nobody, call[h].user}
    BY <2>1 DEF Unissued, ListVoucherPoolItems, Redeemable, MayRedeem
  <2>3. S \in SUBSET DOMAIN items
    BY <2>2
  <2> QED
    BY <1>1, <2>1, <2>2, <2>3, SelectOwner
<1> QED
  BY <1>2, <1>3

\* The new issuance names the caller, whom its item was saved for.
LEMMA CreateIssuancesOwner ==
  ASSUME NEW h \in Handler, Core, OwnerInv, CreateIssuances(h), UNCHANGED killed
  PROVE  OwnerInv'
<1>0. TablesOK /\ LocalsOK /\ ControlOK(h)
  BY TypeParts DEF Core
<1>1. /\ pc[h] = "issuance" /\ UNCHANGED <<pools, items, faults>> /\ contested \subseteq contested'
      /\ \/ \E i \in batch[h] : issuances' = Append(issuances, Issuance(h, i))
         \/ issuances' = issuances
      /\ \/ Goto(h, "take") /\ UNCHANGED <<call, pool, batch, unsaved>>
         \/ Return(h)
  BY CreateIssuancesCore
<1>2. \A g \in Handler :
         \/ Same(g)
         \/ unsaved'[g] = {} /\ pc'[g] \notin Saving
         \/ /\ pc[g] \in Saving /\ call'[g] = call[g]
            /\ batch'[g] = batch[g] /\ unsaved'[g] = unsaved[g]
  <2>1. CASE Goto(h, "take") /\ UNCHANGED <<call, pool, batch, unsaved>>
    BY <1>0, <1>1, <2>1 DEF Goto, Same, Saving, LocalsOK
  <2>2. CASE Return(h)
    BY <2>2 DEF Return, End, Same, Saving
  <2> QED
    BY <1>1, <2>1, <2>2
<1>3. ASSUME NEW k \in DOMAIN issuances'
      PROVE  \/ k \in DOMAIN issuances /\ issuances'[k] = issuances[k]
             \/ /\ issuances'[k].item \in DOMAIN items
                /\ faults = 0 /\ issuances'[k].item \notin contested
                      => items[issuances'[k].item].to = issuances'[k].user
  <2>1. CASE issuances' = issuances
    BY <1>3, <2>1
  <2>2. ASSUME NEW i \in batch[h], issuances' = Append(issuances, Issuance(h, i))
        PROVE  \/ k \in DOMAIN issuances /\ issuances'[k] = issuances[k]
               \/ /\ issuances'[k].item \in DOMAIN items
                  /\ faults = 0 /\ issuances'[k].item \notin contested
                        => items[issuances'[k].item].to = issuances'[k].user
    <3>1. /\ Issuance(h, i) \in RowSet
          /\ Issuance(h, i).item = i /\ Issuance(h, i).user = call[h].user
      BY <1>1, IssuanceType
    <3>2. /\ DOMAIN issuances' = DOMAIN issuances \cup {Len(issuances) + 1}
          /\ issuances'[Len(issuances) + 1] = Issuance(h, i)
          /\ \A l \in DOMAIN issuances : issuances'[l] = issuances[l]
      BY <1>0, <1>1, <2>2, <3>1, RowAdded
    <3>3. i \in DOMAIN items /\ i \in batch[h] \ unsaved[h] /\ pc[h] \in Saving
      BY <1>0, <1>1 DEF LocalsOK, ControlOK, Saving
    <3>4. faults = 0 /\ i \notin contested => items[i].to = call[h].user
      BY <3>3 DEF OwnerInv, WrittenOK
    <3> QED
      BY <1>3, <3>1, <3>2, <3>3, <3>4
  <2> QED
    BY <1>1, <2>1, <2>2
<1> QED
  BY <1>1, <1>2, <1>3, QuietOwner

\* The steps that neither read items nor write those there are.
LEMMA StockOwner ==
  ASSUME NEW h \in Handler, Core, OwnerInv, UNCHANGED killed,
         CreatePool(h) \/ InsertItems(h) \/ AddStock(h) \/ AddTotal(h) \/ AddRemaining(h)
            \/ TakeStock(h)
  PROVE  OwnerInv'
<1>0. TablesOK /\ LocalsOK /\ ControlOK(h)
  BY TypeParts DEF Core
<1>1. issuances' = issuances /\ faults' = faults /\ contested' = contested
  BY DEF CreatePool, InsertItems, AddStock, AddTotal, AddRemaining, TakeStock, Return, End
<1>2. \A i \in DOMAIN items : items'[i] = items[i]
  <2>1. CASE InsertItems(h)
    <3>1. items' = items \o NewItems(h) /\ NewItems(h) \in Items
      BY <2>1, InsertItemsCore
    <3> QED
      BY <1>0, <2>1, <3>1, ItemsAdded DEF InsertItems
  <2>2. CASE ~InsertItems(h)
    BY <2>2 DEF CreatePool, AddStock, AddTotal, AddRemaining, TakeStock
  <2> QED
    BY <2>1, <2>2
<1>3. unsaved'[h] = {} /\ pc'[h] \notin Saving /\ \A g \in Handler \ {h} : Same(g)
  <2>1. CASE Return(h)
    BY <2>1 DEF Return, End, Same, Saving
  <2>2. CASE ~Return(h)
    <3>1. /\ pc[h] \in {"pool", "items", "total"} /\ UNCHANGED <<call, batch, unsaved>>
          /\ \E next \in {"items", "stock", "total", "remaining"} : Goto(h, next)
          /\ \A g \in Handler \ {h} : pool'[g] = pool[g]
      BY <1>0, <2>2 DEF CreatePool, InsertItems, AddStock, AddTotal, AddRemaining, TakeStock,
                        LocalsOK
    <3> QED
      BY <1>0, <3>1 DEF ControlOK, LocalsOK, Goto, Same, Saving
  <2> QED
    BY <2>1, <2>2
<1> QED
  BY <1>1, <1>2, <1>3, QuietOwner

LEMMA EndOwner ==
  ASSUME NEW H \in SUBSET Handler, Core, OwnerInv, End(H), UNCHANGED tables,
         faults' = 0 => faults = 0
  PROVE  OwnerInv'
<1>1. contested' = contested /\ items' = items /\ issuances' = issuances
  BY DEF End, tables
<1>2. \A g \in Handler : Same(g) \/ (unsaved'[g] = {} /\ pc'[g] \notin Saving)
  BY DEF End, Same, Saving
<1> QED
  BY <1>1, <1>2, QuietOwner

LEMMA NextOwner ==
  ASSUME Core, OwnerInv, [Next]_vars
  PROVE  /\ OwnerInv'
         /\ \A i \in DOMAIN items :
               items[i].to # Nobody /\ items'[i].to # items[i].to => i \in contested
<1>0. TablesOK /\ LocalsOK /\ CountsOK
  BY TypeParts DEF Core
<1>1. ASSUME NEW h \in Handler, Receive(h), UNCHANGED killed
      PROVE  OwnerInv' /\ items' = items
  <2>1. /\ pc'[h] \in {"pool", "items", "find"} /\ \A g \in Handler \ {h} : Same(g)
        /\ pc[h] = "idle"
    BY <1>1, ReceiveCore
  <2>2. UNCHANGED <<items, issuances, unsaved, faults, contested>>
    BY <1>1 DEF Receive, tables
  <2>3. unsaved'[h] = {} /\ pc'[h] \notin Saving
    BY <2>1, <2>2 DEF Core, ControlOK, Saving
  <2> QED
    BY <2>1, <2>2, <2>3, QuietOwner
<1>2. ASSUME NEW h \in Handler, Step(h), UNCHANGED killed
      PROVE  /\ OwnerInv'
             /\ \A i \in DOMAIN items :
                   items[i].to # Nobody /\ items'[i].to # items[i].to => i \in contested
  <2>1. CASE SaveItem(h)
    BY <1>2, <2>1, SaveItemOwner
  <2>2. CASE ~SaveItem(h)
    <3>1. OwnerInv'
      BY <1>2, <2>2, StockOwner, FindOwner, CreateIssuancesOwner DEF Step
    <3>2. CASE InsertItems(h)
      <4>1. items' = items \o NewItems(h) /\ NewItems(h) \in Items
        BY <1>2, <3>2, InsertItemsCore
      <4> QED
        BY <1>0, <3>1, <3>2, <4>1, ItemsAdded DEF InsertItems
    <3>3. CASE ~InsertItems(h)
      <4>1. items' = items
        BY <1>2, <2>2, <3>3 DEF Step, CreatePool, AddStock, AddTotal, AddRemaining,
           FindStock, FindVoucher, CreateIssuances, TakeStock, tables
      <4> QED
        BY <3>1, <4>1
    <3> QED
      BY <3>2, <3>3
  <2> QED
    BY <2>1, <2>2
<1>3. ASSUME NEW h \in Handler, Fail(h), UNCHANGED killed
      PROVE  OwnerInv' /\ items' = items
  <2>1. {h} \in SUBSET Handler /\ End({h}) /\ UNCHANGED tables
    BY <1>3 DEF Fail, Return
  <2>2. faults' # 0
    BY <1>0, <1>3, VoucherAssumption DEF CountsOK, Fail, Fault
  <2> QED
    BY <2>1, <2>2, EndOwner DEF tables
<1>4. ASSUME NEW user \in User, ListMyVouchers(user)
      PROVE  OwnerInv' /\ items' = items
  <2>1. UNCHANGED <<tables, faults>>
    BY <1>4 DEF ListMyVouchers
  <2>2. PICK H \in SUBSET Handler :
           IF H = {} THEN UNCHANGED <<pc, call, pool, batch, unsaved, contested, killed>>
                     ELSE End(H) /\ killed'
    BY <1>4, ListMyVouchersCore
  <2>3. CASE H = {}
    <3>1. contested' = contested /\ \A g \in Handler : Same(g)
      BY <2>2, <2>3 DEF Same
    <3> QED
      BY <2>1, <3>1, QuietOwner DEF tables
  <2>4. CASE H # {}
    BY <2>1, <2>2, <2>4, EndOwner DEF tables
  <2> QED
    BY <2>3, <2>4
<1>5. CASE IssueElsewhere
  <2>1. /\ UNCHANGED <<items, issuances, faults, contested>>
        /\ \A g \in Handler : Same(g)
    BY <1>5 DEF IssueElsewhere, Same
  <2> QED
    BY <2>1, QuietOwner
<1>6. CASE UNCHANGED vars
  <2>1. /\ UNCHANGED <<items, issuances, faults, contested>>
        /\ \A g \in Handler : Same(g)
    BY <1>6 DEF vars, tables, Same
  <2> QED
    BY <2>1, QuietOwner
<1> QED
  BY <1>1, <1>2, <1>3, <1>4, <1>5, <1>6 DEF Next, Rest

\* A call that alone holds an item holds it as it read it, and what it wrote of it
\* stays.
THEOREM OwnersInvariant == Spec => []OwnerInv
<1>1. Core /\ OwnerInv /\ [Next]_vars => OwnerInv'
  BY NextOwner
<1> QED
  BY <1>1, CoreInvariant, InitOwner, PTL DEF Spec

\* A voucher that belongs to a user is given to another one only when both calls had
\* read it before either wrote it back, whatever fails or dies meanwhile.
THEOREM OwnersAreKept == Spec => OwnerKept
<1>1. Core /\ OwnerInv /\ [Next]_vars =>
         [\A i \in DOMAIN items :
             items[i].to # Nobody /\ items'[i].to # items[i].to => i \in contested]_vars
  BY NextOwner
<1> QED
  BY <1>1, CoreInvariant, OwnersInvariant, PTL DEF Spec, OwnerKept

\* Unless a write was lost or two calls had the voucher at once, an issuance names the
\* user its item belongs to.
THEOREM IssuancesTellOwners == Spec => []IssuanceTellsOwner
<1>1. OwnerInv => IssuanceTellsOwner
  BY DEF OwnerInv
<1> QED
  BY <1>1, OwnersInvariant, PTL

----------------------------------------------------------------------------
(***************************************************************************)
(* The stock.  Each item waits for the handler that inserted it, until that *)
(* one has counted it; each issuance for the handler that made it, until it *)
(* has taken it off the stock.  The total of a pool counts the items that   *)
(* nobody has still to add to it; what remains, those of the total that     *)
(* nobody has still to add, without the vouchers taken off.                 *)
(***************************************************************************)

NoOne == CHOOSE x : x \notin Handler
NoFault == faults = 0 /\ ~killed

Waits(D) == [D -> Handler \cup {NoOne}]
Own(owner, h) == {i \in DOMAIN items : owner[i] = h}
Taken(taker, h) == {k \in DOMAIN issuances : taker[k] = h}

New(owner, p) == {i \in ListVoucherPoolItems(p) :
                     owner[i] \in Handler /\ pc[owner[i]] \in {"stock", "total"}}
Late(owner, p) == {i \in ListVoucherPoolItems(p) :
                      owner[i] \in Handler /\ pc[owner[i]] = "remaining"}
Counted(owner, p) == ListVoucherPoolItems(p) \ New(owner, p)
Gone(taker, p) == {k \in IssuedFrom(p) : taker[k] = NoOne}

\* The counters of pool p, when it has counted c items, is l behind with those
\* that remain and has g vouchers taken off.
Balanced(p, c, l, g) ==
    /\ pools[p].total <= c /\ pools[p].remaining <= pools[p].total - l
    /\ NoFault => pools[p].total = c /\ pools[p].remaining = pools[p].total - l - g

OwnerOK(owner, h) ==
    IF pc[h] \in Adding
    THEN /\ Own(owner, h) \subseteq ListVoucherPoolItems(pool[h])
         /\ Cardinality(Own(owner, h)) = Added(h)
    ELSE Own(owner, h) = {}

TakerOK(taker, h) ==
    IF pc[h] = "take"
    THEN /\ Taken(taker, h) \subseteq IssuedFrom(pool[h])
         /\ Cardinality(Taken(taker, h)) = Cardinality(batch[h])
    ELSE Taken(taker, h) = {}

CounterOK(owner, taker, p) ==
    Balanced(p, Cardinality(Counted(owner, p)), Cardinality(Late(owner, p)),
             Cardinality(Gone(taker, p)))

Explained(owner, taker) ==
    /\ \A h \in Handler : OwnerOK(owner, h) /\ TakerOK(taker, h)
    /\ \A p \in DOMAIN pools : CounterOK(owner, taker, p)

StockInv ==
    \E owner \in Waits(DOMAIN items), taker \in Waits(DOMAIN issuances) :
        Explained(owner, taker)

LEMMA NoOneNew == NoOne \notin Handler
  BY NoSetContainsEverything DEF NoOne

LEMMA InitStock == Init => StockInv
<1> SUFFICES ASSUME Init PROVE StockInv
  OBVIOUS
<1>1. PICK e : e = [i \in {} |-> NoOne]
  OBVIOUS
<1>2. DOMAIN items = {} /\ DOMAIN issuances = {} /\ DOMAIN pools = {}
  BY DEF Init
<1>3. e \in Waits(DOMAIN items) /\ e \in Waits(DOMAIN issuances)
  BY <1>1, <1>2 DEF Waits
<1>4. \A h \in Handler : OwnerOK(e, h) /\ TakerOK(e, h)
  BY <1>2 DEF Init, OwnerOK, TakerOK, Own, Taken, Adding
<1> QED
  BY <1>2, <1>3, <1>4 DEF StockInv, Explained

\* The sets counted are finite, and each item of a handler is one of its kind.
LEMMA CountsFinite ==
  ASSUME TablesOK, NEW owner, NEW taker, NEW p
  PROVE  /\ IsFiniteSet(ListVoucherPoolItems(p)) /\ IsFiniteSet(IssuedFrom(p))
         /\ IsFiniteSet(Counted(owner, p)) /\ Cardinality(Counted(owner, p)) \in Nat
         /\ IsFiniteSet(Late(owner, p)) /\ Cardinality(Late(owner, p)) \in Nat
         /\ IsFiniteSet(Gone(taker, p)) /\ Cardinality(Gone(taker, p)) \in Nat
<1>1. /\ DOMAIN items = 1..Len(items) /\ Len(items) \in Nat
      /\ DOMAIN issuances = 1..Len(issuances) /\ Len(issuances) \in Nat
  BY DEF TablesOK, Items, Rows
<1>2. IsFiniteSet(DOMAIN items) /\ IsFiniteSet(DOMAIN issuances)
  BY <1>1, FS_Interval
<1>3. /\ ListVoucherPoolItems(p) \in SUBSET DOMAIN items
      /\ IssuedFrom(p) \in SUBSET DOMAIN issuances
      /\ Counted(owner, p) \in SUBSET DOMAIN items
      /\ Late(owner, p) \in SUBSET DOMAIN items
      /\ Gone(taker, p) \in SUBSET DOMAIN issuances
  BY DEF ListVoucherPoolItems, IssuedFrom, Counted, Late, Gone
<1>4. /\ IsFiniteSet(ListVoucherPoolItems(p)) /\ IsFiniteSet(IssuedFrom(p))
      /\ IsFiniteSet(Counted(owner, p)) /\ IsFiniteSet(Late(owner, p))
      /\ IsFiniteSet(Gone(taker, p))
  BY <1>2, <1>3, FS_Subset
<1> QED
  BY <1>4, FS_CardinalityType

LEMMA DisjointUnion ==
  ASSUME NEW A, NEW B, IsFiniteSet(A), IsFiniteSet(B), A \cap B = {}
  PROVE  /\ Cardinality(A \cup B) = Cardinality(A) + Cardinality(B)
         /\ Cardinality(A) \in Nat /\ Cardinality(B) \in Nat
<1>1. Cardinality(A) \in Nat /\ Cardinality(B) \in Nat
  BY FS_CardinalityType
<1>2. Cardinality(A \cup B) = Cardinality(A) + Cardinality(B) - Cardinality(A \cap B)
  BY FS_Union
<1>3. Cardinality(A \cap B) = 0
  BY FS_EmptySet
<1> QED
  BY <1>1, <1>2, <1>3

\* The items of a handler that is adding them, and the vouchers of one that has to
\* take them off.
LEMMA OwnedItems ==
  ASSUME TablesOK, NEW owner, NEW h \in Handler, OwnerOK(owner, h), pc[h] \in Adding
  PROVE  /\ Cardinality(Own(owner, h)) = Added(h) /\ IsFiniteSet(Own(owner, h))
         /\ Own(owner, h) \subseteq ListVoucherPoolItems(pool[h])
<1>1. /\ Cardinality(Own(owner, h)) = Added(h)
      /\ Own(owner, h) \subseteq ListVoucherPoolItems(pool[h])
  BY DEF OwnerOK
<1>2. IsFiniteSet(ListVoucherPoolItems(pool[h]))
  BY CountsFinite
<1> QED
  BY <1>1, <1>2, FS_Subset

LEMMA TakenRows ==
  ASSUME TablesOK, NEW taker, NEW h \in Handler, TakerOK(taker, h), pc[h] = "take"
  PROVE  /\ Cardinality(Taken(taker, h)) = Cardinality(batch[h])
         /\ IsFiniteSet(Taken(taker, h)) /\ Taken(taker, h) \subseteq IssuedFrom(pool[h])
<1>1. /\ Cardinality(Taken(taker, h)) = Cardinality(batch[h])
      /\ Taken(taker, h) \subseteq IssuedFrom(pool[h])
  BY DEF TakerOK
<1>2. IsFiniteSet(IssuedFrom(pool[h]))
  BY CountsFinite
<1> QED
  BY <1>1, <1>2, FS_Subset

LEMMA ListKept ==
  ASSUME Grow, DOMAIN items' = DOMAIN items, NEW p
  PROVE  ListVoucherPoolItems(p)' = ListVoucherPoolItems(p)
  BY DEF Grow, ListVoucherPoolItems

LEMMA IssuedKept ==
  ASSUME TablesOK, Grow, issuances' = issuances, NEW p
  PROVE  IssuedFrom(p)' = IssuedFrom(p)
<1>1. \A k \in DOMAIN issuances : issuances[k].item \in DOMAIN items
  BY RowType
<1> QED
  BY <1>1 DEF Grow, IssuedFrom

\* Pool p counts as before.
LEMMA CounterKept ==
  ASSUME NEW p, NEW o, NEW t, NEW o2, NEW t2, CounterOK(o, t, p), NoFault' => NoFault,
         pools'[p] = pools[p], Counted(o2, p)' = Counted(o, p), Late(o2, p)' = Late(o, p),
         Gone(t2, p)' = Gone(t, p)
  PROVE  CounterOK(o2, t2, p)'
  BY DEF CounterOK, Balanced

\* A step that adds no item, and after which no handler but those it leaves where
\* they were has stock to add or to take off.
LEMMA QuietStock ==
  ASSUME Core, Core', StockInv, Grow, DOMAIN items' = DOMAIN items, NoFault' => NoFault,
         \A g \in Handler : \/ Same(g)
                            \/ /\ pc[g] \notin Adding \cup {"take"}
                               /\ pc'[g] \notin Adding \cup {"take"},
         \A p \in DOMAIN pools : pools'[p] = pools[p],
         \A p \in DOMAIN pools' \ DOMAIN pools :
            pools'[p].total = 0 /\ pools'[p].remaining = 0,
         DOMAIN issuances \subseteq DOMAIN issuances',
         \A k \in DOMAIN issuances : issuances'[k] = issuances[k],
         \A k \in DOMAIN issuances' \ DOMAIN issuances : issuances'[k].status # "ISSUED"
  PROVE  StockInv'
<1>0. TablesOK /\ TablesOK'
  BY TypeParts DEF Core, TypeOK, TablesOK, Pools, Items, Rows
<1>1. PICK o \in Waits(DOMAIN items), t \in Waits(DOMAIN issuances) : Explained(o, t)
  BY DEF StockInv
<1>2. PICK t2 : t2 = [k \in DOMAIN issuances' |-> IF k \in DOMAIN issuances THEN t[k] ELSE NoOne]
  OBVIOUS
<1>3. o \in Waits(DOMAIN items') /\ t2 \in Waits(DOMAIN issuances')
  BY <1>1, <1>2 DEF Waits
<1>4. \A p : ListVoucherPoolItems(p)' = ListVoucherPoolItems(p)
  BY ListKept
<1>5. \A p : IssuedFrom(p)' = IssuedFrom(p)
  <2>1. \A k \in DOMAIN issuances : issuances[k].item \in DOMAIN items
    BY <1>0, RowType
  <2> QED
    BY <2>1 DEF Grow, IssuedFrom
<1>6. \A p : /\ New(o, p)' = New(o, p) /\ Late(o, p)' = Late(o, p)
             /\ Counted(o, p)' = Counted(o, p)
  <2> TAKE p
  <2>1. New(o, p)' = New(o, p) /\ Late(o, p)' = Late(o, p)
    BY <1>4 DEF New, Late, Same, Adding
  <2> QED
    BY <1>4, <2>1 DEF Counted
<1>7. \A p : Gone(t2, p)' = Gone(t, p)
  BY <1>2, <1>5 DEF Gone, IssuedFrom
<1>8. ASSUME NEW p \in DOMAIN pools'
      PROVE  CounterOK(o, t2, p)'
  <2>1. CASE p \in DOMAIN pools
    <3>1. CounterOK(o, t, p)
      BY <1>1, <2>1 DEF Explained
    <3> QED
      BY <1>6, <1>7, <2>1, <3>1, CounterKept
  <2>2. CASE p \notin DOMAIN pools
    <3>1. ListVoucherPoolItems(p) = {}
      BY <1>0, <2>2, ItemType DEF ListVoucherPoolItems
    <3>2. IssuedFrom(p) = {}
      BY <1>0, <2>2, ItemType, RowType DEF IssuedFrom
    <3>3. /\ Counted(o, p) = {} /\ Late(o, p) = {} /\ Gone(t2, p)' = {}
      BY <1>5, <3>1, <3>2 DEF Counted, Late, Gone
    <3>4. /\ Cardinality(Counted(o, p)') = 0 /\ Cardinality(Late(o, p)') = 0
          /\ Cardinality(Gone(t2, p)') = 0
      BY <1>6, <3>3, FS_EmptySet
    <3> QED
      BY <2>2, <3>4 DEF CounterOK, Balanced
  <2> QED
    BY <2>1, <2>2
<1>9. ASSUME NEW g \in Handler
      PROVE  OwnerOK(o, g)' /\ TakerOK(t2, g)'
  <2>1. OwnerOK(o, g) /\ TakerOK(t, g)
    BY <1>1 DEF Explained
  <2>2. Own(o, g)' = Own(o, g)
    BY DEF Own
  <2>3. Taken(t2, g)' = Taken(t, g)
    BY <1>2, NoOneNew DEF Taken
  <2>4. CASE Same(g)
    BY <1>4, <1>5, <2>1, <2>2, <2>3, <2>4 DEF OwnerOK, TakerOK, Same, Added
  <2>5. CASE /\ pc[g] \notin Adding \cup {"take"}
             /\ pc'[g] \notin Adding \cup {"take"}
    BY <2>1, <2>2, <2>3, <2>5 DEF OwnerOK, TakerOK
  <2> QED
    BY <2>4, <2>5
<1>10. Explained(o, t2)'
  BY <1>8, <1>9 DEF Explained
<1> QED
  BY <1>3, <1>10 DEF StockInv

\* Handlers that end early: nothing waits for them any more, and what their items
\* and vouchers do to the counters is never done.
LEMMA DropStock ==
  ASSUME NEW H \in SUBSET Handler, Core, StockInv, End(H), UNCHANGED tables, ~NoFault'
  PROVE  StockInv'
<1>0. TablesOK /\ TablesOK' /\ Grow
  BY TypeParts, TablesKept DEF Core
<1>1. PICK o \in Waits(DOMAIN items), t \in Waits(DOMAIN issuances) : Explained(o, t)
  BY DEF StockInv
<1>2. PICK o2, t2 : /\ o2 = [i \in DOMAIN items |-> IF o[i] \in H THEN NoOne ELSE o[i]]
                    /\ t2 = [k \in DOMAIN issuances |-> IF t[k] \in H THEN NoOne ELSE t[k]]
  OBVIOUS
<1>3. o2 \in Waits(DOMAIN items') /\ t2 \in Waits(DOMAIN issuances')
  BY <1>1, <1>2 DEF Waits, tables
<1>4. \A p : ListVoucherPoolItems(p)' = ListVoucherPoolItems(p)
             /\ IssuedFrom(p)' = IssuedFrom(p)
  BY DEF ListVoucherPoolItems, IssuedFrom, tables
<1>5. \A g \in Handler \ H : Same(g)
  BY DEF End, Same
<1>6. ASSUME NEW p \in DOMAIN pools
      PROVE  CounterOK(o2, t2, p)'
  <2>1. \A i \in DOMAIN items : o2[i] \in Handler =>
           /\ o2[i] = o[i] /\ pc'[o2[i]] = pc[o[i]]
    BY <1>2, <1>5, NoOneNew DEF Same
  <2>2. ListVoucherPoolItems(p) \subseteq DOMAIN items
    BY DEF ListVoucherPoolItems
  <2>3. New(o2, p)' \subseteq New(o, p) /\ Late(o2, p)' \subseteq Late(o, p)
    BY <1>4, <2>1, <2>2 DEF New, Late
  <2>4. Counted(o, p) \subseteq Counted(o2, p)'
    BY <1>4, <2>3 DEF Counted
  <2>5. /\ IsFiniteSet(Late(o, p)) /\ Cardinality(Late(o, p)) \in Nat
        /\ Cardinality(Counted(o, p)) \in Nat
    BY <1>0, CountsFinite
  <2>6. /\ IsFiniteSet(Counted(o2, p)') /\ Cardinality(Counted(o2, p)') \in Nat
        /\ Cardinality(Late(o2, p)') \in Nat
    <3>2. IsFiniteSet(ListVoucherPoolItems(p))
      BY <1>0, CountsFinite
    <3>3. Counted(o2, p)' \in SUBSET ListVoucherPoolItems(p)
          /\ Late(o2, p)' \in SUBSET ListVoucherPoolItems(p)
      BY <1>4 DEF Counted, Late
    <3>4. IsFiniteSet(Counted(o2, p)') /\ IsFiniteSet(Late(o2, p)')
      BY <3>2, <3>3, FS_Subset
    <3> QED
      BY <3>4, FS_CardinalityType
  <2>7. /\ Cardinality(Counted(o, p)) <= Cardinality(Counted(o2, p)')
        /\ Cardinality(Late(o2, p)') <= Cardinality(Late(o, p))
    BY <2>3, <2>4, <2>5, <2>6, FS_Subset
  <2>8. /\ pools[p].total <= Cardinality(Counted(o, p))
        /\ pools[p].remaining <= pools[p].total - Cardinality(Late(o, p))
    BY <1>1 DEF Explained, CounterOK, Balanced
  <2>9. pools[p].total \in Nat /\ pools[p].remaining \in Int
    BY <1>0, PoolType
  <2>10. /\ pools[p].total <= Cardinality(Counted(o2, p)')
         /\ pools[p].remaining <= pools[p].total - Cardinality(Late(o2, p)')
    BY <2>5, <2>6, <2>7, <2>8, <2>9
  <2>11. pools'[p] = pools[p]
    BY DEF tables
  <2> QED
    BY <2>10, <2>11 DEF CounterOK, Balanced
<1>7. ASSUME NEW g \in Handler
      PROVE  OwnerOK(o2, g)' /\ TakerOK(t2, g)'
  <2>1. OwnerOK(o, g) /\ TakerOK(t, g)
    BY <1>1 DEF Explained
  <2>2. CASE g \in H
    <3>1. Own(o2, g)' = {} /\ Taken(t2, g)' = {}
      BY <1>2, <2>2, NoOneNew DEF Own, Taken, tables
    <3>2. pc'[g] = "idle"
      BY <2>2 DEF End
    <3> QED
      BY <3>1, <3>2 DEF OwnerOK, TakerOK, Adding
  <2>3. CASE g \notin H
    <3>1. Own(o2, g)' = Own(o, g) /\ Taken(t2, g)' = Taken(t, g)
      BY <1>2, <2>3, NoOneNew DEF Own, Taken, tables
    <3>2. Same(g)
      BY <1>5, <2>3
    <3> QED
      BY <1>4, <2>1, <3>1, <3>2 DEF OwnerOK, TakerOK, Same, Added
  <2> QED
    BY <2>2, <2>3
<1>8. Explained(o2, t2)'
  BY <1>6, <1>7 DEF Explained, tables
<1> QED
  BY <1>3, <1>8 DEF StockInv

\* The items inserted wait for the handler that inserted them.
LEMMA InsertStock ==
  ASSUME NEW h \in Handler, Core, StockInv, InsertItems(h), UNCHANGED killed
  PROVE  StockInv'
<1>0. TablesOK /\ LocalsOK
  BY TypeParts DEF Core
<1>1. PICK o \in Waits(DOMAIN items), t \in Waits(DOMAIN issuances) : Explained(o, t)
  BY DEF StockInv
<1>2. /\ pc[h] = "items" /\ UNCHANGED <<pools, issuances, call, pool, batch, unsaved, faults>>
      /\ pc'[h] \in {"stock", "total"} /\ \A g \in Handler \ {h} : pc'[g] = pc[g]
  BY <1>0 DEF InsertItems, Goto, LocalsOK
<1>3. /\ Grow /\ items' = items \o NewItems(h) /\ NewItems(h) \in Items
      /\ pool[h] \in DOMAIN pools
  BY InsertItemsCore
<1>4. /\ Len(NewItems(h)) = Added(h) /\ Added(h) \in Nat
      /\ \A k \in 1..Added(h) : NewItems(h)[k].pool = pool[h]
  BY <1>3, NewItemsType
<1>5. PICK n, m : n = Len(items) /\ m = Added(h)
  OBVIOUS
<1>6. /\ DOMAIN items = 1..n /\ DOMAIN items' = 1..(n + m) /\ n \in Nat /\ m \in Nat
      /\ \A i \in DOMAIN items : items'[i] = items[i]
      /\ \A i \in DOMAIN items' \ DOMAIN items : items'[i].pool = pool[h]
  <2>1. n \in Nat
    BY <1>0, <1>5 DEF TablesOK, Items
  <2>2. /\ DOMAIN items = 1..n /\ DOMAIN items' = 1..(n + m)
        /\ \A i \in DOMAIN items : items'[i] = items[i]
        /\ \A i \in DOMAIN items' \ DOMAIN items :
              i - n \in 1..m /\ items'[i] = NewItems(h)[i - n]
    BY <1>0, <1>2, <1>3, <1>4, <1>5, ItemsAdded
  <2> QED
    BY <1>4, <1>5, <2>1, <2>2
<1>7. DOMAIN items' = DOMAIN items \cup ((n + 1)..(n + m))
      /\ DOMAIN items \cap ((n + 1)..(n + m)) = {}
  BY <1>6
<1>8. PICK A : A = (n + 1)..(n + m)
  OBVIOUS
<1>9. /\ DOMAIN items' = DOMAIN items \cup A /\ DOMAIN items \cap A = {}
      /\ Cardinality(A) = m
  <2>1. PICK a \in Int, b \in Int : a = n + 1 /\ b = n + m
    BY <1>6
  <2>2. Cardinality(a..b) = IF a > b THEN 0 ELSE b - a + 1
    BY FS_Interval
  <2>3. Cardinality(A) = Cardinality(a..b)
    BY <1>8, <2>1, Zenon
  <2>4. (IF a > b THEN 0 ELSE b - a + 1) = m
    BY <1>6, <2>1
  <2> QED
    BY <1>7, <1>8, <2>2, <2>3, <2>4
<1>10. PICK o2 : o2 = [i \in DOMAIN items' |-> IF i \in DOMAIN items THEN o[i] ELSE h]
  OBVIOUS
<1>11. o2 \in Waits(DOMAIN items') /\ t \in Waits(DOMAIN issuances')
  BY <1>1, <1>2, <1>10 DEF Waits
<1>12. \A p : ListVoucherPoolItems(p)' =
              IF p = pool[h] THEN ListVoucherPoolItems(p) \cup A ELSE ListVoucherPoolItems(p)
  BY <1>6, <1>9 DEF ListVoucherPoolItems
<1>13. \A p : IssuedFrom(p)' = IssuedFrom(p)
  BY <1>0, <1>2, <1>3, IssuedKept
<1>14. Own(o, h) = {}
  BY <1>1, <1>2 DEF Explained, OwnerOK, Adding
<1>15. \A i \in DOMAIN items : o2[i] = o[i] /\ o[i] # h
  BY <1>9, <1>10, <1>14 DEF Own
<1>16. \A i \in A : o2[i] = h
  BY <1>9, <1>10
<1>17. ASSUME NEW p \in DOMAIN pools
       PROVE  /\ Counted(o2, p)' = Counted(o, p) /\ Late(o2, p)' = Late(o, p)
              /\ Gone(t, p)' = Gone(t, p)
  <2>1. ListVoucherPoolItems(p) \subseteq DOMAIN items
    BY DEF ListVoucherPoolItems
  <2>2. New(o2, p)' = New(o, p) \cup (ListVoucherPoolItems(p)' \ ListVoucherPoolItems(p))
    <3>1. ASSUME NEW i \in ListVoucherPoolItems(p)
          PROVE  i \in New(o2, p)' <=> i \in New(o, p)
      BY <1>2, <1>12, <1>15, <2>1, <3>1 DEF New
    <3>2. ASSUME NEW i \in ListVoucherPoolItems(p)' \ ListVoucherPoolItems(p)
          PROVE  i \in New(o2, p)'
      BY <1>2, <1>12, <1>16, <3>2 DEF New
    <3>3. New(o2, p)' \subseteq ListVoucherPoolItems(p)' /\ New(o, p) \subseteq ListVoucherPoolItems(p)
      BY DEF New
    <3>4. ListVoucherPoolItems(p) \subseteq ListVoucherPoolItems(p)'
      BY <1>12
    <3> QED
      BY <3>1, <3>2, <3>3, <3>4
  <2>3. Counted(o2, p)' = Counted(o, p)
    <3>1. ListVoucherPoolItems(p) \subseteq ListVoucherPoolItems(p)'
      BY <1>12
    <3> QED
      BY <2>2, <3>1 DEF Counted, New
  <2>4. Late(o2, p)' = Late(o, p)
    <3>1. ASSUME NEW i \in ListVoucherPoolItems(p)
          PROVE  i \in Late(o2, p)' <=> i \in Late(o, p)
      BY <1>2, <1>12, <1>15, <2>1, <3>1 DEF Late
    <3>2. ASSUME NEW i \in ListVoucherPoolItems(p)' \ ListVoucherPoolItems(p)
          PROVE  i \notin Late(o2, p)'
      BY <1>2, <1>12, <1>16, <3>2 DEF Late
    <3>3. Late(o2, p)' \subseteq ListVoucherPoolItems(p)' /\ Late(o, p) \subseteq ListVoucherPoolItems(p)
      BY DEF Late
    <3> QED
      BY <3>1, <3>2, <3>3
  <2>5. Gone(t, p)' = Gone(t, p)
    BY <1>13 DEF Gone
  <2> QED
    BY <2>3, <2>4, <2>5
<1>18. ASSUME NEW p \in DOMAIN pools
       PROVE  CounterOK(o2, t, p)'
  <2>1. CounterOK(o, t, p)
    BY <1>1 DEF Explained
  <2>2. NoFault' => NoFault
    BY <1>2 DEF NoFault
  <2> QED
    BY <1>2, <1>17, <2>1, <2>2, CounterKept
<1>19. ASSUME NEW g \in Handler
       PROVE  OwnerOK(o2, g)' /\ TakerOK(t, g)'
  <2>1. OwnerOK(o, g) /\ TakerOK(t, g)
    BY <1>1 DEF Explained
  <2>2. Taken(t, g)' = Taken(t, g)
    BY <1>2 DEF Taken
  <2>3. CASE g = h
    <3>1. Own(o2, h)' = A
      BY <1>9, <1>15, <1>16 DEF Own
    <3>2. A \subseteq ListVoucherPoolItems(pool[h])' /\ Cardinality(A) = Added(h)'
      BY <1>2, <1>5, <1>9, <1>12 DEF Added
    <3>3. OwnerOK(o2, h)'
      BY <1>2, <3>1, <3>2 DEF OwnerOK, Adding
    <3> QED
      BY <1>2, <2>1, <2>2, <2>3, <3>3 DEF TakerOK
  <2>4. CASE g # h
    <3>1. Own(o2, g)' = Own(o, g)
      BY <1>9, <1>15, <1>16, <2>4 DEF Own
    <3>2. OwnerOK(o2, g)'
      BY <1>2, <1>12, <2>1, <2>4, <3>1 DEF OwnerOK, Added
    <3>3. TakerOK(t, g)'
      BY <1>2, <1>13, <2>1, <2>2, <2>4 DEF TakerOK
    <3> QED
      BY <3>2, <3>3
  <2> QED
    BY <2>3, <2>4
<1>20. Explained(o2, t)'
  BY <1>2, <1>18, <1>19 DEF Explained
<1> QED
  BY <1>11, <1>20 DEF StockInv

\* A step that writes the counters of h's pool, after which h's items and vouchers
\* either still wait for it or no longer do.
LEMMA WriteStock ==
  ASSUME NEW h \in Handler, Core, NEW o \in Waits(DOMAIN items),
         NEW t \in Waits(DOMAIN issuances), Explained(o, t),
         NEW o2 \in Waits(DOMAIN items), NEW t2 \in Waits(DOMAIN issuances),
         NEW e, pools' = [pools EXCEPT ![pool[h]] = e],
         UNCHANGED <<items, issuances, faults, killed>>,
         \A g \in Handler \ {h} : Same(g),
         \A i \in DOMAIN items : o2[i] = o[i] \/ (o[i] = h /\ o2[i] = NoOne),
         \A k \in DOMAIN issuances : t2[k] = t[k] \/ (t[k] = h /\ t2[k] = NoOne),
         Own(o, h) \subseteq ListVoucherPoolItems(pool[h]),
         Taken(t, h) \subseteq IssuedFrom(pool[h]),
         OwnerOK(o2, h)', TakerOK(t2, h)',
         NEW own, own = pool[h], CounterOK(o2, t2, own)'
  PROVE  StockInv'
<1>1. \A p : ListVoucherPoolItems(p)' = ListVoucherPoolItems(p)
             /\ IssuedFrom(p)' = IssuedFrom(p)
  BY DEF ListVoucherPoolItems, IssuedFrom
<1>2. ASSUME NEW p \in DOMAIN pools', p # pool[h]
      PROVE  CounterOK(o2, t2, p)'
  <2>1. \A i \in ListVoucherPoolItems(p) : i \in DOMAIN items /\ o[i] # h /\ o2[i] = o[i]
    BY <1>2 DEF ListVoucherPoolItems, Own
  <2>2. \A k \in IssuedFrom(p) : k \in DOMAIN issuances /\ t[k] # h /\ t2[k] = t[k]
    BY <1>2 DEF IssuedFrom, Taken
  <2>3. New(o2, p)' = New(o, p) /\ Late(o2, p)' = Late(o, p)
    BY <1>1, <2>1 DEF New, Late, Same
  <2>4. Counted(o2, p)' = Counted(o, p) /\ Gone(t2, p)' = Gone(t, p)
    BY <1>1, <2>2, <2>3 DEF Counted, Gone
  <2>5. p \in DOMAIN pools /\ pools'[p] = pools[p]
    BY <1>2
  <2>6. CounterOK(o, t, p)
    BY <2>5 DEF Explained
  <2>7. NoFault' => NoFault
    BY DEF NoFault
  <2> QED
    BY <2>3, <2>4, <2>5, <2>6, <2>7, CounterKept
<1>3. ASSUME NEW g \in Handler \ {h}
      PROVE  OwnerOK(o2, g)' /\ TakerOK(t2, g)'
  <2>1. OwnerOK(o, g) /\ TakerOK(t, g) /\ Same(g)
    BY DEF Explained
  <2>2. Own(o2, g)' = Own(o, g) /\ Taken(t2, g)' = Taken(t, g)
    BY NoOneNew DEF Own, Taken
  <2> QED
    BY <1>1, <2>1, <2>2 DEF OwnerOK, TakerOK, Same, Added
<1>4. Explained(o2, t2)'
  BY <1>2, <1>3 DEF Explained
<1> QED
  BY <1>4 DEF StockInv

\* The map in which nothing waits for h any more.
Without(f, D, h) == [x \in D |-> IF f[x] = h THEN NoOne ELSE f[x]]

LEMMA WithoutWaits ==
  ASSUME NEW D, NEW f \in Waits(D), NEW h \in Handler
  PROVE  /\ Without(f, D, h) \in Waits(D)
         /\ \A x \in D : /\ Without(f, D, h)[x] = IF f[x] = h THEN NoOne ELSE f[x]
                         /\ Without(f, D, h)[x] # h
  BY NoOneNew DEF Without, Waits

\* Where h has items that wait for it to be counted.
LEMMA NewItemsOf ==
  ASSUME NEW h \in Handler, NEW o, NEW p, Own(o, h) \subseteq ListVoucherPoolItems(p)
  PROVE  /\ pc[h] \in {"stock", "total"} => Own(o, h) \subseteq New(o, p)
                                            /\ Own(o, h) \cap Late(o, p) = {}
         /\ pc[h] = "remaining" => Own(o, h) \subseteq Late(o, p)
                                   /\ Own(o, h) \cap New(o, p) = {}
  BY DEF Own, New, Late, ListVoucherPoolItems

\* generateVoucherPoolItems counts all of its items at once.
LEMMA AddStockStock ==
  ASSUME NEW h \in Handler, Core, StockInv, AddStock(h), UNCHANGED killed
  PROVE  StockInv'
<1>0. TablesOK /\ LocalsOK
  BY TypeParts DEF Core
<1>1. PICK o \in Waits(DOMAIN items), t \in Waits(DOMAIN issuances) : Explained(o, t)
  BY DEF StockInv
<1>2. /\ pc[h] = "stock" /\ UNCHANGED <<items, issuances, served, faults>> /\ pc'[h] = "idle"
      /\ \A g \in Handler \ {h} : Same(g)
  BY DEF AddStock, Return, End, Same
<1>3. PICK n, p : n = Added(h) /\ p = pool[h]
  OBVIOUS
<1>4. PICK e : e = Raised(p, n, n)
  OBVIOUS
<1>5. /\ p \in DOMAIN pools /\ n \in Nat /\ pools' = [pools EXCEPT ![pool[h]] = e]
      /\ pools'[p] = e /\ e.total = pools[p].total + n
      /\ e.remaining = pools[p].remaining + n
      /\ pools[p].total \in Nat /\ pools[p].remaining \in Int
  <2>1. p \in DOMAIN pools /\ n \in Nat /\ pools' = [pools EXCEPT ![pool[h]] = e]
    BY <1>3, <1>4, AddStockCore, CallType DEF Core
  <2> QED
    BY <1>0, <1>3, <1>4, <2>1, RaisedType
<1>6. PICK o2 : o2 = Without(o, DOMAIN items, h)
  OBVIOUS
<1>7. /\ o2 \in Waits(DOMAIN items)
      /\ \A i \in DOMAIN items : o2[i] = (IF o[i] = h THEN NoOne ELSE o[i]) /\ o2[i] # h
  BY <1>1, <1>6, WithoutWaits
<1>8. /\ Own(o, h) \subseteq ListVoucherPoolItems(p) /\ IsFiniteSet(Own(o, h))
      /\ Cardinality(Own(o, h)) = n /\ Taken(t, h) = {}
  BY <1>0, <1>1, <1>2, <1>3, OwnedItems DEF Explained, TakerOK, Adding
<1>9. /\ Counted(o2, p)' = Counted(o, p) \cup Own(o, h) /\ Counted(o, p) \cap Own(o, h) = {}
      /\ Late(o2, p)' = Late(o, p) /\ Gone(t, p)' = Gone(t, p)
  <2>1. ListVoucherPoolItems(p)' = ListVoucherPoolItems(p) /\ IssuedFrom(p)' = IssuedFrom(p)
    BY <1>2 DEF ListVoucherPoolItems, IssuedFrom
  <2>2. New(o2, p)' = New(o, p) \ Own(o, h)
    BY <1>2, <1>7, <2>1, NoOneNew DEF New, Own, Same, ListVoucherPoolItems
  <2>3. Late(o2, p)' = Late(o, p)
    BY <1>2, <1>7, <2>1, NoOneNew DEF Late, Same, ListVoucherPoolItems
  <2>4. Own(o, h) \subseteq New(o, p)
    BY <1>2, <1>8, NewItemsOf
  <2>5. Gone(t, p)' = Gone(t, p)
    BY <2>1 DEF Gone
  <2> QED
    BY <1>8, <2>1, <2>2, <2>3, <2>4, <2>5 DEF Counted
<1>10. PICK c, l, g : /\ c = Cardinality(Counted(o, p)) /\ l = Cardinality(Late(o, p))
                      /\ g = Cardinality(Gone(t, p))
  OBVIOUS
<1>11. /\ c \in Nat /\ l \in Nat /\ g \in Nat /\ Cardinality(Counted(o2, p)') = c + n
       /\ Cardinality(Late(o2, p)') = l /\ Cardinality(Gone(t, p)') = g
  BY <1>0, <1>8, <1>9, <1>10, CountsFinite, DisjointUnion
<1>12. Balanced(p, c, l, g)
  BY <1>1, <1>5, <1>10 DEF Explained, CounterOK
<1>13. Balanced(p, c + n, l, g)'
  BY <1>2, <1>5, <1>11, <1>12 DEF Balanced, NoFault
<1>14. CounterOK(o2, t, p)'
  BY <1>11, <1>13 DEF CounterOK
<1>15. OwnerOK(o2, h)' /\ TakerOK(t, h)'
  BY <1>2, <1>7, <1>8 DEF OwnerOK, TakerOK, Own, Taken, Adding
<1> QED
  BY <1>1, <1>2, <1>3, <1>5, <1>7, <1>8, <1>14, <1>15, WriteStock

\* ImportVoucherPoolItems counts its items in the total, and they are late in what
\* remains.
LEMMA AddTotalStock ==
  ASSUME NEW h \in Handler, Core, StockInv, AddTotal(h), UNCHANGED killed
  PROVE  StockInv'
<1>0. TablesOK /\ LocalsOK
  BY TypeParts DEF Core
<1>1. PICK o \in Waits(DOMAIN items), t \in Waits(DOMAIN issuances) : Explained(o, t)
  BY DEF StockInv
<1>2. /\ pc[h] = "total" /\ UNCHANGED <<items, issuances, call, pool, served, faults>> /\ pc'[h] = "remaining"
      /\ \A g \in Handler \ {h} : Same(g)
  BY <1>0 DEF AddTotal, Goto, Same, LocalsOK
<1>3. PICK n, p : n = Added(h) /\ p = pool[h]
  OBVIOUS
<1>4. PICK e : e = Raised(p, n, 0)
  OBVIOUS
<1>5. /\ p \in DOMAIN pools /\ n \in Nat /\ pools' = [pools EXCEPT ![pool[h]] = e]
      /\ pools'[p] = e /\ e.total = pools[p].total + n
      /\ e.remaining = pools[p].remaining
      /\ pools[p].total \in Nat /\ pools[p].remaining \in Int
  <2>1. p \in DOMAIN pools /\ n \in Nat /\ pools' = [pools EXCEPT ![pool[h]] = e]
    BY <1>3, <1>4, AddTotalCore, CallType DEF Core
  <2> QED
    BY <1>0, <1>3, <1>4, <2>1, RaisedType
<1>8. /\ Own(o, h) \subseteq ListVoucherPoolItems(p) /\ IsFiniteSet(Own(o, h))
      /\ Cardinality(Own(o, h)) = n /\ Taken(t, h) = {}
  BY <1>0, <1>1, <1>2, <1>3, OwnedItems DEF Explained, TakerOK, Adding
<1>9. /\ Counted(o, p)' = Counted(o, p) \cup Own(o, h) /\ Counted(o, p) \cap Own(o, h) = {}
      /\ Late(o, p)' = Late(o, p) \cup Own(o, h) /\ Late(o, p) \cap Own(o, h) = {}
      /\ Gone(t, p)' = Gone(t, p)
  <2>1. ListVoucherPoolItems(p)' = ListVoucherPoolItems(p) /\ IssuedFrom(p)' = IssuedFrom(p)
    BY <1>2 DEF ListVoucherPoolItems, IssuedFrom
  <2>2. New(o, p)' = New(o, p) \ Own(o, h)
    BY <1>2, <2>1 DEF New, Own, Same, ListVoucherPoolItems
  <2>3. Late(o, p)' = Late(o, p) \cup Own(o, h)
    BY <1>2, <1>8, <2>1 DEF Late, Own, Same, ListVoucherPoolItems
  <2>4. Own(o, h) \subseteq New(o, p) /\ Own(o, h) \cap Late(o, p) = {}
    BY <1>2, <1>8, NewItemsOf
  <2>5. Gone(t, p)' = Gone(t, p)
    BY <2>1 DEF Gone
  <2> QED
    BY <1>8, <2>1, <2>2, <2>3, <2>4, <2>5 DEF Counted
<1>10. PICK c, l, g : /\ c = Cardinality(Counted(o, p)) /\ l = Cardinality(Late(o, p))
                      /\ g = Cardinality(Gone(t, p))
  OBVIOUS
<1>11. /\ c \in Nat /\ l \in Nat /\ g \in Nat /\ Cardinality(Counted(o, p)') = c + n
       /\ Cardinality(Late(o, p)') = l + n /\ Cardinality(Gone(t, p)') = g
  BY <1>0, <1>8, <1>9, <1>10, CountsFinite, DisjointUnion
<1>12. Balanced(p, c, l, g)
  BY <1>1, <1>5, <1>10 DEF Explained, CounterOK
<1>13. Balanced(p, c + n, l + n, g)'
  <2>1. /\ e.total <= c + n /\ e.remaining <= e.total - (l + n)
        /\ pools[p].total = c /\ pools[p].remaining = pools[p].total - l - g =>
              e.total = c + n /\ e.remaining = e.total - (l + n) - g
    BY <1>5, <1>11, <1>12 DEF Balanced
  <2>2. NoFault' => pools[p].total = c /\ pools[p].remaining = pools[p].total - l - g
    BY <1>2, <1>12 DEF Balanced, NoFault
  <2> QED
    BY <1>5, <2>1, <2>2 DEF Balanced
<1>14. CounterOK(o, t, p)'
  BY <1>11, <1>13 DEF CounterOK
<1>15. OwnerOK(o, h)' /\ TakerOK(t, h)'
  <2>1. Own(o, h)' = Own(o, h) /\ Taken(t, h)' = {} /\ Added(h)' = n
    BY <1>2, <1>3, <1>8 DEF Own, Taken, Added
  <2>2. ListVoucherPoolItems(pool[h])' = ListVoucherPoolItems(p)
    BY <1>2, <1>3 DEF ListVoucherPoolItems
  <2> QED
    BY <1>2, <1>8, <2>1, <2>2 DEF OwnerOK, TakerOK, Adding
<1> QED
  BY <1>1, <1>2, <1>3, <1>5, <1>8, <1>14, <1>15, WriteStock

\* ImportVoucherPoolItems counts its items in what remains.
LEMMA AddRemainingStock ==
  ASSUME NEW h \in Handler, Core, StockInv, AddRemaining(h), UNCHANGED killed
  PROVE  StockInv'
<1>0. TablesOK /\ LocalsOK
  BY TypeParts DEF Core
<1>1. PICK o \in Waits(DOMAIN items), t \in Waits(DOMAIN issuances) : Explained(o, t)
  BY DEF StockInv
<1>2. /\ pc[h] = "remaining" /\ UNCHANGED <<items, issuances, served, faults>> /\ pc'[h] = "idle"
      /\ \A g \in Handler \ {h} : Same(g)
  BY DEF AddRemaining, Return, End, Same
<1>3. PICK n, p : n = Added(h) /\ p = pool[h]
  OBVIOUS
<1>4. PICK e : e = Raised(p, 0, n)
  OBVIOUS
<1>5. /\ p \in DOMAIN pools /\ n \in Nat /\ pools' = [pools EXCEPT ![pool[h]] = e]
      /\ pools'[p] = e /\ e.total = pools[p].total
      /\ e.remaining = pools[p].remaining + n
      /\ pools[p].total \in Nat /\ pools[p].remaining \in Int
  <2>1. p \in DOMAIN pools /\ n \in Nat /\ pools' = [pools EXCEPT ![pool[h]] = e]
    BY <1>3, <1>4, AddRemainingCore, CallType DEF Core
  <2>2. /\ e.total = pools[p].total + 0 /\ e.remaining = pools[p].remaining + n
        /\ pools[p].total \in Nat /\ pools[p].remaining \in Int
    BY <1>0, <1>4, <2>1, RaisedType
  <2> QED
    BY <1>3, <2>1, <2>2
<1>6. PICK o2 : o2 = Without(o, DOMAIN items, h)
  OBVIOUS
<1>7. /\ o2 \in Waits(DOMAIN items)
      /\ \A i \in DOMAIN items : o2[i] = (IF o[i] = h THEN NoOne ELSE o[i]) /\ o2[i] # h
  BY <1>1, <1>6, WithoutWaits
<1>8. /\ Own(o, h) \subseteq ListVoucherPoolItems(p) /\ IsFiniteSet(Own(o, h))
      /\ Cardinality(Own(o, h)) = n /\ Taken(t, h) = {}
  BY <1>0, <1>1, <1>2, <1>3, OwnedItems DEF Explained, TakerOK, Adding
<1>9. /\ Counted(o2, p)' = Counted(o, p) /\ Gone(t, p)' = Gone(t, p)
      /\ Late(o, p) = Late(o2, p)' \cup Own(o, h) /\ Late(o2, p)' \cap Own(o, h) = {}
  <2>1. ListVoucherPoolItems(p)' = ListVoucherPoolItems(p) /\ IssuedFrom(p)' = IssuedFrom(p)
    BY <1>2 DEF ListVoucherPoolItems, IssuedFrom
  <2>2. New(o2, p)' = New(o, p)
    BY <1>2, <1>7, <2>1, NoOneNew DEF New, Same, ListVoucherPoolItems
  <2>3. Late(o2, p)' = Late(o, p) \ Own(o, h)
    BY <1>2, <1>7, <2>1, NoOneNew DEF Late, Own, Same, ListVoucherPoolItems
  <2>4. Own(o, h) \subseteq Late(o, p)
    BY <1>2, <1>8, NewItemsOf
  <2>5. Gone(t, p)' = Gone(t, p)
    BY <2>1 DEF Gone
  <2> QED
    BY <2>1, <2>2, <2>3, <2>4, <2>5 DEF Counted
<1>10. PICK c, l, g : /\ c = Cardinality(Counted(o, p)) /\ l = Cardinality(Late(o, p))
                      /\ g = Cardinality(Gone(t, p))
  OBVIOUS
<1>11. /\ c \in Nat /\ l \in Nat /\ g \in Nat /\ Cardinality(Counted(o2, p)') = c
       /\ Cardinality(Late(o2, p)') = l - n /\ Cardinality(Gone(t, p)') = g
  <2>1. c \in Nat /\ l \in Nat /\ g \in Nat /\ IsFiniteSet(Late(o, p))
    BY <1>0, <1>10, CountsFinite
  <2>2. IsFiniteSet(Late(o2, p)')
    <3>1. Late(o2, p)' \in SUBSET Late(o, p)
      BY <1>9
    <3> QED
      BY <2>1, <3>1, FS_Subset
  <2>3. l = Cardinality(Late(o2, p)') + n /\ Cardinality(Late(o2, p)') \in Nat
    BY <1>8, <1>9, <1>10, <2>2, DisjointUnion
  <2> QED
    BY <1>5, <1>9, <1>10, <2>1, <2>3
<1>12. Balanced(p, c, l, g)
  BY <1>1, <1>5, <1>10 DEF Explained, CounterOK
<1>13. Balanced(p, c, l - n, g)'
  BY <1>2, <1>5, <1>11, <1>12 DEF Balanced, NoFault
<1>14. CounterOK(o2, t, p)'
  BY <1>11, <1>13 DEF CounterOK
<1>15. OwnerOK(o2, h)' /\ TakerOK(t, h)'
  BY <1>2, <1>7, <1>8 DEF OwnerOK, TakerOK, Own, Taken, Adding
<1> QED
  BY <1>1, <1>2, <1>3, <1>5, <1>7, <1>8, <1>14, <1>15, WriteStock

\* IssueVoucher takes its vouchers off the stock.
LEMMA TakeStockStock ==
  ASSUME NEW h \in Handler, Core, StockInv, TakeStock(h), UNCHANGED killed
  PROVE  StockInv'
<1>0. TablesOK /\ LocalsOK
  BY TypeParts DEF Core
<1>1. PICK o \in Waits(DOMAIN items), t \in Waits(DOMAIN issuances) : Explained(o, t)
  BY DEF StockInv
<1>2. /\ pc[h] = "take" /\ UNCHANGED <<items, issuances, served, faults>> /\ pc'[h] = "idle"
      /\ \A g \in Handler \ {h} : Same(g)
  BY DEF TakeStock, Return, End, Same
<1>3. PICK n, p : n = Cardinality(batch[h]) /\ p = pool[h]
  OBVIOUS
<1>4. PICK e : e = Raised(p, 0, -n)
  OBVIOUS
<1>5. /\ p \in DOMAIN pools /\ n \in Nat /\ pools' = [pools EXCEPT ![pool[h]] = e]
      /\ pools'[p] = e /\ e.total = pools[p].total
      /\ e.remaining = pools[p].remaining - n
      /\ pools[p].total \in Nat /\ pools[p].remaining \in Int
  <2>1. p \in DOMAIN pools /\ n \in Nat /\ pools' = [pools EXCEPT ![pool[h]] = e]
    BY <1>3, <1>4, TakeStockCore
  <2>2. -n \in Int
    BY <2>1
  <2>3. /\ e.total = pools[p].total + 0 /\ e.remaining = pools[p].remaining + (-n)
        /\ pools[p].total \in Nat /\ pools[p].remaining \in Int
    BY <1>0, <1>4, <2>1, <2>2, RaisedType
  <2> QED
    BY <1>3, <2>1, <2>3
<1>6. PICK t2 : t2 = Without(t, DOMAIN issuances, h)
  OBVIOUS
<1>7. /\ t2 \in Waits(DOMAIN issuances)
      /\ \A k \in DOMAIN issuances : t2[k] = (IF t[k] = h THEN NoOne ELSE t[k]) /\ t2[k] # h
  BY <1>1, <1>6, WithoutWaits
<1>8. /\ Taken(t, h) \subseteq IssuedFrom(p) /\ IsFiniteSet(Taken(t, h))
      /\ Cardinality(Taken(t, h)) = n /\ Own(o, h) = {}
  BY <1>0, <1>1, <1>2, <1>3, TakenRows DEF Explained, OwnerOK, Adding
<1>9. /\ Counted(o, p)' = Counted(o, p) /\ Late(o, p)' = Late(o, p)
      /\ Gone(t2, p)' = Gone(t, p) \cup Taken(t, h) /\ Gone(t, p) \cap Taken(t, h) = {}
  <2>1. ListVoucherPoolItems(p)' = ListVoucherPoolItems(p) /\ IssuedFrom(p)' = IssuedFrom(p)
    BY <1>2 DEF ListVoucherPoolItems, IssuedFrom
  <2>2. New(o, p)' = New(o, p) /\ Late(o, p)' = Late(o, p)
    BY <1>2, <2>1 DEF New, Late, Same
  <2>3. Gone(t2, p)' = Gone(t, p) \cup Taken(t, h)
    BY <1>7, <1>8, <2>1 DEF Gone, Taken, IssuedFrom
  <2>4. Gone(t, p) \cap Taken(t, h) = {}
    BY NoOneNew DEF Gone, Taken
  <2> QED
    BY <2>1, <2>2, <2>3, <2>4 DEF Counted
<1>10. PICK c, l, g : /\ c = Cardinality(Counted(o, p)) /\ l = Cardinality(Late(o, p))
                      /\ g = Cardinality(Gone(t, p))
  OBVIOUS
<1>11. /\ c \in Nat /\ l \in Nat /\ g \in Nat /\ Cardinality(Counted(o, p)') = c
       /\ Cardinality(Late(o, p)') = l /\ Cardinality(Gone(t2, p)') = g + n
  BY <1>0, <1>8, <1>9, <1>10, CountsFinite, DisjointUnion
<1>12. Balanced(p, c, l, g)
  BY <1>1, <1>5, <1>10 DEF Explained, CounterOK
<1>13. Balanced(p, c, l, g + n)'
  BY <1>2, <1>5, <1>11, <1>12 DEF Balanced, NoFault
<1>14. CounterOK(o, t2, p)'
  BY <1>11, <1>13 DEF CounterOK
<1>15. OwnerOK(o, h)' /\ TakerOK(t2, h)'
  BY <1>2, <1>7, <1>8 DEF OwnerOK, TakerOK, Own, Taken, Adding
<1> QED
  BY <1>1, <1>2, <1>3, <1>5, <1>7, <1>8, <1>14, <1>15, WriteStock

\* The voucher IssueVoucher hands out waits for it to take it off the stock.
LEMMA IssueStock ==
  ASSUME NEW h \in Handler, Core, StockInv, CreateIssuances(h), Goto(h, "take"),
         UNCHANGED killed
  PROVE  StockInv'
<1>0. TablesOK /\ LocalsOK /\ ControlOK(h)
  BY TypeParts DEF Core
<1>1. PICK o \in Waits(DOMAIN items), t \in Waits(DOMAIN issuances) : Explained(o, t)
  BY DEF StockInv
<1>3. pc'[h] = "take" /\ \A g \in Handler \ {h} : pc'[g] = pc[g]
  BY <1>0 DEF LocalsOK, Goto
<1>2. /\ pc[h] = "issuance" /\ UNCHANGED <<pools, items, faults, call, pool, batch, unsaved>>
      /\ call[h].op = "issue"
      /\ \E i \in batch[h] : batch[h] = {i} /\ issuances' = Append(issuances, Issuance(h, i))
  <2>1. ~Return(h)
    BY <1>3 DEF Return, End
  <2> QED
    BY <2>1, CreateIssuancesCore
<1>4. \A g \in Handler \ {h} : Same(g)
  BY <1>2, <1>3 DEF Same
<1>5. PICK p, n, i : /\ p = pool[h] /\ n = Len(issuances) + 1
         /\ i \in batch[h] /\ batch[h] = {i}
         /\ issuances' = Append(issuances, Issuance(h, i))
  BY <1>2
<1>6. /\ Issuance(h, i) \in RowSet /\ Issuance(h, i).item = i
      /\ Issuance(h, i).status = "ISSUED"
  BY <1>2, <1>5, IssuanceType
<1>7. p \in DOMAIN pools /\ items[i].pool = p
  BY <1>0, <1>2, <1>5 DEF ControlOK, Saving
<1>8. /\ DOMAIN issuances' = DOMAIN issuances \cup {n} /\ n \notin DOMAIN issuances
      /\ issuances'[n] = Issuance(h, i)
      /\ \A k \in DOMAIN issuances : issuances'[k] = issuances[k]
  BY <1>0, <1>2, <1>5, <1>6, RowAdded
<1>9. Cardinality({n}) = 1 /\ Cardinality(batch[h]) = 1
  BY <1>5, FS_Singleton
<1>10. PICK t2 : t2 = [k \in DOMAIN issuances' |-> IF k \in DOMAIN issuances THEN t[k] ELSE h]
  OBVIOUS
<1>11. o \in Waits(DOMAIN items') /\ t2 \in Waits(DOMAIN issuances')
  BY <1>1, <1>2, <1>10 DEF Waits
<1>12. Taken(t, h) = {}
  BY <1>1, <1>2 DEF Explained, TakerOK
<1>13. /\ \A k \in DOMAIN issuances : t2[k] = t[k] /\ t[k] # h
       /\ t2[n] = h
  BY <1>8, <1>10, <1>12 DEF Taken
<1>14. \A q : ListVoucherPoolItems(q)' = ListVoucherPoolItems(q)
  BY <1>2 DEF ListVoucherPoolItems
<1>15. \A q : IssuedFrom(q)' = IF q = p THEN IssuedFrom(q) \cup {n} ELSE IssuedFrom(q)
  BY <1>2, <1>6, <1>7, <1>8 DEF IssuedFrom
<1>16. ASSUME NEW q \in DOMAIN pools
       PROVE  CounterOK(o, t2, q)'
  <2>1. New(o, q)' = New(o, q) /\ Late(o, q)' = Late(o, q)
    BY <1>2, <1>3, <1>4, <1>14 DEF New, Late, Same
  <2>2. Gone(t2, q)' = Gone(t, q)
    BY <1>8, <1>13, <1>15, NoOneNew DEF Gone, IssuedFrom
  <2>3. Counted(o, q)' = Counted(o, q)
    BY <1>14, <2>1 DEF Counted
  <2>4. CounterOK(o, t, q) /\ (NoFault' => NoFault)
    BY <1>1, <1>2 DEF Explained, NoFault
  <2> QED
    BY <1>2, <2>1, <2>2, <2>3, <2>4, CounterKept
<1>17. ASSUME NEW g \in Handler
       PROVE  OwnerOK(o, g)' /\ TakerOK(t2, g)'
  <2>1. OwnerOK(o, g) /\ TakerOK(t, g)
    BY <1>1 DEF Explained
  <2>2. Own(o, g)' = Own(o, g)
    BY <1>2 DEF Own
  <2>3. CASE g = h
    <3>1. Taken(t2, h)' = {n}
      BY <1>8, <1>13 DEF Taken
    <3>2. {n} \subseteq IssuedFrom(pool[h])' /\ Cardinality({n}) = Cardinality(batch[h])'
      BY <1>2, <1>5, <1>9, <1>15
    <3>3. TakerOK(t2, h)'
      BY <1>2, <1>3, <3>1, <3>2 DEF TakerOK
    <3> QED
      BY <1>2, <1>3, <2>1, <2>2, <2>3, <3>3 DEF OwnerOK, Adding
  <2>4. CASE g # h
    <3>1. Taken(t2, g)' = Taken(t, g)
      BY <1>8, <1>13, <2>4 DEF Taken
    <3>2. Same(g)
      BY <1>4, <2>4
    <3>3. OwnerOK(o, g)'
      BY <1>14, <2>1, <2>2, <3>2 DEF OwnerOK, Same, Added
    <3>4. TakerOK(t2, g)'
      BY <1>15, <2>1, <3>1, <3>2 DEF TakerOK, Same
    <3> QED
      BY <3>3, <3>4
  <2> QED
    BY <2>3, <2>4
<1>18. Explained(o, t2)'
  BY <1>2, <1>16, <1>17 DEF Explained
<1> QED
  BY <1>11, <1>18 DEF StockInv

\* The actions of a handler that has no stock to count, before or after.
LEMMA CreatePoolStock ==
  ASSUME NEW h \in Handler, Core, StockInv, CreatePool(h), UNCHANGED killed
  PROVE  StockInv'
<1>0. TablesOK /\ LocalsOK
  BY TypeParts DEF Core
<1>1. Core'
  BY CreatePoolCore
<1>2. PICK e : e = [total |-> 0, remaining |-> 0]
  OBVIOUS
<1>3. /\ e \in [total : Nat, remaining : Int] /\ e.total = 0 /\ e.remaining = 0
      /\ pools' = Append(pools, e) /\ UNCHANGED <<items, issuances, faults>> /\ pc[h] = "pool"
  BY <1>2 DEF CreatePool
<1>4. /\ Grow /\ \A p \in DOMAIN pools : pools'[p] = pools[p]
      /\ \A p \in DOMAIN pools' \ DOMAIN pools : pools'[p].total = 0 /\ pools'[p].remaining = 0
  BY <1>0, <1>3, PoolsAppended
<1>5. pc'[h] \in {"idle", "items"} /\ \A g \in Handler \ {h} : Same(g)
  BY <1>0 DEF LocalsOK, CreatePool, Goto, Return, End, Same
<1>6. NoFault' => NoFault
  BY <1>3 DEF NoFault
<1> QED
  BY <1>1, <1>3, <1>4, <1>5, <1>6, QuietStock DEF Adding

LEMMA FindStocks ==
  ASSUME NEW h \in Handler, Core, StockInv, FindStock(h) \/ FindVoucher(h),
         UNCHANGED killed
  PROVE  StockInv'
<1>1. Core' /\ Grow
  BY FindStockCore, FindVoucherCore
<1>2. UNCHANGED <<tables, faults>> /\ pc[h] = "find"
  BY DEF FindStock, FindVoucher
<1>3. pc'[h] \in {"idle", "save"} /\ \A g \in Handler \ {h} : Same(g)
  <2>1. CASE Return(h)
    BY <2>1 DEF Return, End, Same
  <2>2. CASE ~Return(h)
    BY <2>2, FindStockCore, FindVoucherCore
  <2> QED
    BY <2>1, <2>2
<1>4. NoFault' => NoFault
  BY <1>2 DEF NoFault
<1> QED
  BY <1>1, <1>2, <1>3, <1>4, QuietStock DEF Adding, tables

LEMMA SaveItemStock ==
  ASSUME NEW h \in Handler, Core, StockInv, SaveItem(h), UNCHANGED killed
  PROVE  StockInv'
<1>1. /\ Core' /\ Grow /\ DOMAIN items' = DOMAIN items
      /\ pc[h] = "save" /\ pc'[h] \in {"save", "issuance"}
      /\ UNCHANGED <<pools, issuances>> /\ \A g \in Handler \ {h} : Same(g)
      /\ faults' \in {faults, faults + 1} /\ faults \in Nat
  BY SaveItemCore, TypeParts, VoucherAssumption DEF Core, CountsOK
<1>2. NoFault' => NoFault
  BY <1>1 DEF NoFault
<1> QED
  BY <1>1, <1>2, QuietStock DEF Adding

\* RedeemVoucher, and a call whose issuances are refused, leave the stock alone.
LEMMA RedeemStock ==
  ASSUME NEW h \in Handler, Core, StockInv, CreateIssuances(h), Return(h), UNCHANGED killed
  PROVE  StockInv'
<1>0. TablesOK
  BY TypeParts DEF Core
<1>2. pc'[h] = "idle" /\ \A g \in Handler \ {h} : Same(g)
  BY DEF Return, End, Same
<1>1. /\ Core' /\ Grow /\ pc[h] = "issuance" /\ UNCHANGED <<pools, items, faults>>
      /\ \/ /\ call[h].op = "redeem"
            /\ \E i \in batch[h] : issuances' = Append(issuances, Issuance(h, i))
         \/ issuances' = issuances
  <2>1. ~Goto(h, "take")
    <3>1. LocalsOK
      BY TypeParts DEF Core
    <3> QED
      BY <1>2, <3>1 DEF Goto, LocalsOK
  <2> QED
    BY <2>1, CreateIssuancesCore
<1>3. NoFault' => NoFault
  BY <1>1 DEF NoFault
<1>4. /\ DOMAIN issuances \subseteq DOMAIN issuances'
      /\ \A k \in DOMAIN issuances : issuances'[k] = issuances[k]
      /\ \A k \in DOMAIN issuances' \ DOMAIN issuances : issuances'[k].status # "ISSUED"
  <2>1. CASE issuances' = issuances
    BY <2>1
  <2>2. CASE /\ call[h].op = "redeem"
             /\ \E i \in batch[h] : issuances' = Append(issuances, Issuance(h, i))
    <3>1. PICK i \in batch[h] : issuances' = Append(issuances, Issuance(h, i))
      BY <2>2
    <3>2. Issuance(h, i) \in RowSet /\ Issuance(h, i).status = "REDEEMED"
      BY <1>1, <2>2, IssuanceType
    <3> QED
      BY <1>0, <1>1, <3>1, <3>2, RowAdded
  <2> QED
    BY <1>1, <2>1, <2>2
<1> QED
  BY <1>1, <1>2, <1>3, <1>4, QuietStock DEF Adding

LEMMA StepsStock ==
  ASSUME NEW h \in Handler, Core, StockInv, Step(h), UNCHANGED killed
  PROVE  StockInv'
<1>1. CASE CreateIssuances(h)
  BY <1>1, CreateIssuancesCore, IssueStock, RedeemStock
<1> QED
  BY <1>1, CreatePoolStock, InsertStock, AddStockStock, AddTotalStock, AddRemainingStock,
     FindStocks, SaveItemStock, TakeStockStock DEF Step

LEMMA NextStock == Core /\ StockInv /\ [Next]_vars => StockInv'
<1> SUFFICES ASSUME Core, StockInv, [Next]_vars PROVE StockInv'
  OBVIOUS
<1>0. Core' /\ TablesOK /\ CountsOK
  BY NextCore, TypeParts DEF Core
<1>1. ASSUME NEW h \in Handler, Receive(h), UNCHANGED killed
      PROVE  StockInv'
  <2>1. /\ Grow /\ pc[h] = "idle" /\ pc'[h] \in {"pool", "items", "find"}
        /\ \A g \in Handler \ {h} : Same(g)
    BY <1>1, ReceiveCore
  <2>2. UNCHANGED <<tables, faults>>
    BY <1>1 DEF Receive
  <2>3. NoFault' => NoFault
    BY <1>1, <2>2 DEF NoFault
  <2> QED
    BY <1>0, <2>1, <2>2, <2>3, QuietStock DEF Adding, tables
<1>2. ASSUME NEW h \in Handler, Step(h), UNCHANGED killed
      PROVE  StockInv'
  BY <1>2, StepsStock
<1>3. ASSUME NEW h \in Handler, Fail(h), UNCHANGED killed
      PROVE  StockInv'
  <2>1. {h} \in SUBSET Handler /\ End({h}) /\ UNCHANGED tables
    BY <1>3 DEF Fail, Return
  <2>2. ~NoFault'
    <3>1. faults \in Nat /\ faults' = faults + 1
      BY <1>0, <1>3, VoucherAssumption DEF CountsOK, Fail, Fault
    <3> QED
      BY <3>1 DEF NoFault
  <2> QED
    BY <2>1, <2>2, DropStock
<1>4. ASSUME NEW user \in User, ListMyVouchers(user)
      PROVE  StockInv'
  <2>1. UNCHANGED <<tables, faults>>
    BY <1>4 DEF ListMyVouchers
  <2>2. PICK H \in SUBSET Handler :
           IF H = {} THEN UNCHANGED <<pc, call, pool, batch, unsaved, contested, killed>>
                     ELSE End(H) /\ killed'
    BY <1>4, ListMyVouchersCore
  <2>3. CASE H = {}
    <3>1. (NoFault' => NoFault) /\ \A g \in Handler : Same(g)
      BY <2>1, <2>2, <2>3 DEF NoFault, Same
    <3>2. Grow
      BY <2>1 DEF Grow, tables
    <3> QED
      BY <1>0, <2>1, <3>1, <3>2, QuietStock DEF tables
  <2>4. CASE H # {}
    <3>1. ~NoFault'
      BY <2>2, <2>4 DEF NoFault
    <3> QED
      BY <2>1, <2>2, <2>4, <3>1, DropStock
  <2> QED
    BY <2>3, <2>4
<1>5. CASE UNCHANGED vars
  <2>1. (NoFault' => NoFault) /\ \A g \in Handler : Same(g)
    BY <1>5 DEF vars, NoFault, Same
  <2>2. UNCHANGED tables /\ Grow
    BY <1>5 DEF vars, tables, Grow
  <2> QED
    BY <1>0, <2>1, <2>2, QuietStock DEF tables
<1>6. CASE IssueElsewhere
  <2>1. (NoFault' => NoFault) /\ \A g \in Handler : Same(g)
    BY <1>6 DEF IssueElsewhere, NoFault, Same
  <2>2. UNCHANGED <<pools, items, issuances>> /\ Grow
    BY <1>6 DEF IssueElsewhere, Grow
  <2> QED
    BY <1>0, <2>1, <2>2, QuietStock
<1> QED
  BY <1>1, <1>2, <1>3, <1>4, <1>5, <1>6 DEF Next, Rest

\* The counters of every pool are explained by the items and the vouchers.
THEOREM StockInvariant == Spec => []StockInv
  BY CoreInvariant, InitStock, NextStock, PTL DEF Spec

\* However handlers interleave, fail, die or panic, the stock counters never claim
\* an item that was not inserted.
THEOREM StockIsBacked == Spec => []StockBacked
<1>1. Core /\ StockInv => StockBacked
  <2> SUFFICES ASSUME Core, StockInv, NEW p \in DOMAIN pools
               PROVE  /\ pools[p].remaining <= pools[p].total
                      /\ pools[p].total <= Cardinality(ListVoucherPoolItems(p))
    BY DEF StockBacked
  <2>0. TablesOK
    BY TypeParts DEF Core
  <2>1. PICK o \in Waits(DOMAIN items), t \in Waits(DOMAIN issuances) : Explained(o, t)
    BY DEF StockInv
  <2>2. /\ pools[p].total <= Cardinality(Counted(o, p))
        /\ pools[p].remaining <= pools[p].total - Cardinality(Late(o, p))
    BY <2>1 DEF Explained, CounterOK, Balanced
  <2>3. /\ IsFiniteSet(ListVoucherPoolItems(p)) /\ Cardinality(Counted(o, p)) \in Nat
        /\ Cardinality(Late(o, p)) \in Nat
    BY <2>0, CountsFinite
  <2>4. Counted(o, p) \in SUBSET ListVoucherPoolItems(p)
    BY DEF Counted
  <2>5. /\ Cardinality(Counted(o, p)) <= Cardinality(ListVoucherPoolItems(p))
        /\ Cardinality(ListVoucherPoolItems(p)) \in Nat
    BY <2>3, <2>4, FS_Subset, FS_CardinalityType
  <2>6. pools[p].total \in Nat /\ pools[p].remaining \in Int
    BY <2>0, PoolType
  <2> QED
    BY <2>2, <2>3, <2>5, <2>6
<1> QED
  BY <1>1, CoreInvariant, StockInvariant, PTL

\* Once every handler has answered, without a fault or a panic, the counters account
\* for every item inserted and every issuance of IssueVoucher the index let in; what it
\* refuses, the stock still counts.
THEOREM StockIsBalanced == Spec => []StockBalances
<1>1. Core /\ StockInv => StockBalances
  <2> SUFFICES ASSUME Core, StockInv, NoFault, \A h \in Handler : pc[h] = "idle",
                      NEW p \in DOMAIN pools
               PROVE  /\ pools[p].total = Cardinality(ListVoucherPoolItems(p))
                      /\ pools[p].remaining = pools[p].total - Cardinality(IssuedFrom(p))
    BY DEF StockBalances, NoFault
  <2>0. TablesOK
    BY TypeParts DEF Core
  <2>1. PICK o \in Waits(DOMAIN items), t \in Waits(DOMAIN issuances) : Explained(o, t)
    BY DEF StockInv
  <2>2. \A h \in Handler : Own(o, h) = {} /\ Taken(t, h) = {}
    BY <2>1 DEF Explained, OwnerOK, TakerOK, Adding
  <2>3. /\ \A i \in DOMAIN items : o[i] = NoOne
        /\ \A k \in DOMAIN issuances : t[k] = NoOne
    BY <2>2 DEF Own, Taken, Waits
  <2>4. /\ Counted(o, p) = ListVoucherPoolItems(p) /\ Late(o, p) = {}
        /\ Gone(t, p) = IssuedFrom(p)
    BY <2>3, NoOneNew DEF Counted, New, Late, Gone, ListVoucherPoolItems, IssuedFrom
  <2>5. Cardinality(Late(o, p)) = 0
    BY <2>4, FS_EmptySet
  <2>6. /\ pools[p].total = Cardinality(Counted(o, p))
        /\ pools[p].remaining = pools[p].total - Cardinality(Late(o, p)) - Cardinality(Gone(t, p))
    BY <2>1 DEF Explained, CounterOK, Balanced
  <2>7. pools[p].total \in Nat /\ Cardinality(Gone(t, p)) \in Nat
    BY <2>0, PoolType, CountsFinite
  <2> QED
    BY <2>4, <2>5, <2>6, <2>7
<1> QED
  BY <1>1, CoreInvariant, StockInvariant, PTL
=============================================================================
