---------------------------- MODULE LedgerProofs ----------------------------
(***************************************************************************)
(* LedgerInv is an inductive invariant of Ledger, for any number of        *)
(* requests, any calls and any bound; the type invariant and the safety    *)
(* properties follow from it.  So does that the row locks cannot deadlock. *)
(***************************************************************************)
EXTENDS Ledger, FiniteSetTheorems, TLAPS

\* At the start no row exists and no transaction runs.
LEMMA InitInv == Init => LedgerInv
<1> SUFFICES ASSUME Init PROVE LedgerInv
  OBVIOUS
<1> USE DEF Init
<1>1. TypeOK
  BY LedgerAssumption DEF TypeOK, PC, CallRec, Kind, Idle, NothingSeen, Entry, Genesis
<1>2. RowsOK
  BY DEF RowsOK, EntryIds
<1>3. ASSUME NEW r \in Request
      PROVE  LocksOK(r) /\ BornOK(r) /\ CallOK(r)
  BY DEF LocksOK, BornOK, CallOK, EntryIds, NothingSeen, Idle
<1>4. LockOrder /\ ReadsStayCurrent
  BY DEF LockOrder, ReadsStayCurrent
<1>5. PoolsNeverOverdrawn /\ BalancesNeverOverdrawn
  BY DEF PoolsNeverOverdrawn, BalancesNeverOverdrawn
<1> QED
  BY <1>1, <1>2, <1>3, <1>4, <1>5 DEF LedgerInv

\* A step that leaves request q's session alone, and deletes no entry and no
\* balance row, keeps what LedgerInv says of q's locks and of its call.
LEMMA OthersKeep ==
  ASSUME NEW q \in Request, LocksOK(q), CallOK(q),
         EntryIds \subseteq EntryIds', balanceRows \subseteq balanceRows',
         pc'[q] = pc[q], call'[q] = call[q], tail'[q] = tail[q],
         want'[q] = want[q], held'[q] = held[q], seen'[q] = seen[q]
  PROVE  LocksOK(q)' /\ CallOK(q)'
<1>1. LocksOK(q)'
  BY DEF LocksOK
<1>2. CallOK(q)'
  <2>1. BalanceLocked(q)' = BalanceLocked(q)
    BY DEF BalanceLocked
  <2> QED
    BY <2>1 DEF CallOK, NoReverts
<1> QED
  BY <1>1, <1>2

\* ROLLBACK, whatever caused it, changes no row and releases the locks.
LEMMA RollbackInv ==
  ASSUME NEW r \in Request, LedgerInv, Rollback(r)
  PROVE  LedgerInv'
<1> USE DEF Rollback, EndTx, tables
<1>t. TypeOK /\ clock \in Int
  BY DEF LedgerInv, TypeOK
<1>1. TypeOK'
  BY <1>t, LedgerAssumption DEF TypeOK, PC, CallRec, Kind, Idle, NothingSeen, Genesis
<1>2. RowsOK'
  BY DEF LedgerInv, RowsOK, EntryIds
<1>3. ASSUME NEW q \in Request
      PROVE  (LocksOK(q) /\ BornOK(q) /\ CallOK(q))'
  <2>1. LocksOK(q) /\ BornOK(q) /\ CallOK(q) /\ RowsOK
    BY DEF LedgerInv
  <2>2. CASE q = r
    <3>1. LocksOK(q)'
      BY <1>t, <2>2 DEF LocksOK, NothingSeen, TypeOK
    <3>2. BornOK(q)'
      BY <1>t, <2>1, <2>2 DEF BornOK, RowsOK, EntryIds, TypeOK, Entry, Id
    <3>3. CallOK(q)'
      BY <1>t, <2>2 DEF CallOK, TypeOK, Idle, NoReverts
    <3> QED BY <3>1, <3>2, <3>3
  <2>3. CASE q # r
    <3>1. LocksOK(q)' /\ CallOK(q)'
      BY <1>t, <2>1, <2>3, OthersKeep DEF TypeOK, EntryIds
    <3>2. BornOK(q)'
      BY <1>t, <2>1, <2>3 DEF BornOK, TypeOK, EntryIds
    <3> QED BY <3>1, <3>2
  <2> QED BY <2>2, <2>3
<1>4. LockOrder'
  BY <1>t DEF LedgerInv, LockOrder, TypeOK
<1>5. ReadsStayCurrent'
  BY <1>t DEF LedgerInv, ReadsStayCurrent, TypeOK
<1>6. (PoolsNeverOverdrawn /\ BalancesNeverOverdrawn)'
  BY DEF LedgerInv, PoolsNeverOverdrawn, BalancesNeverOverdrawn, NoReverts
<1> QED
  BY <1>1, <1>2, <1>3, <1>4, <1>5, <1>6 DEF LedgerInv
\* A statement that changes no row, no lock and no id: it keeps everything that
\* is not about the request that issues it.
LEMMA StatementKeeps ==
  ASSUME NEW r \in Request, LedgerInv, UNCHANGED <<tables, clock, held, seen, born>>,
         TypeOK', LocksOK(r)', BornOK(r)', CallOK(r)',
         \A x \in held[r], y \in want'[r] : Before(x, y),
         \A q \in Request \ {r} :
            /\ pc'[q] = pc[q] /\ call'[q] = call[q] /\ tail'[q] = tail[q]
            /\ want'[q] = want[q]
  PROVE  LedgerInv'
<1> USE DEF tables
<1>1. RowsOK'
  BY DEF LedgerInv, RowsOK, EntryIds
<1>2. ASSUME NEW q \in Request \ {r}
      PROVE  (LocksOK(q) /\ BornOK(q) /\ CallOK(q))'
  <2>1. LocksOK(q) /\ BornOK(q) /\ CallOK(q)
    BY DEF LedgerInv
  <2>2. LocksOK(q)' /\ CallOK(q)'
    BY <2>1, OthersKeep DEF EntryIds
  <2>3. BornOK(q)'
    BY <2>1 DEF BornOK, EntryIds
  <2> QED BY <2>2, <2>3
<1>3. LockOrder'
  BY DEF LedgerInv, LockOrder
<1>4. ReadsStayCurrent'
  BY DEF LedgerInv, ReadsStayCurrent
<1>5. (PoolsNeverOverdrawn /\ BalancesNeverOverdrawn)'
  BY DEF LedgerInv, PoolsNeverOverdrawn, BalancesNeverOverdrawn, NoReverts
<1> QED
  BY <1>1, <1>2, <1>3, <1>4, <1>5 DEF LedgerInv

LEMMA ReceiveInv ==
  ASSUME NEW r \in Request, LedgerInv, Receive(r)
  PROVE  LedgerInv'
<1> USE DEF Receive, tables
<1>0. TypeOK /\ LocksOK(r) /\ BornOK(r)
  BY DEF LedgerInv
<1>1. PICK c \in Calls[r] : /\ call' = [call EXCEPT ![r] = c]
                            /\ unchecked' \in {unchecked, unchecked \cup {c.ref}}
  OBVIOUS
<1>2. c \in CallRec
  BY LedgerAssumption
<1>3. TypeOK'
  <2>1. c.ref \in STRING
    BY <1>2 DEF CallRec
  <2>2. unchecked' \subseteq STRING
    BY <1>0, <1>1, <2>1 DEF TypeOK
  <2> QED
    BY <1>0, <1>1, <1>2, <2>2 DEF TypeOK, PC
<1>4. LocksOK(r)'
  BY <1>0 DEF LocksOK, TypeOK, EntryIds
<1>5. BornOK(r)'
  BY <1>0 DEF BornOK, TypeOK, EntryIds
<1>6. CallOK(r)'
  BY <1>0, <1>1 DEF CallOK, TypeOK, NoReverts
<1>7. \A q \in Request \ {r} : pc'[q] = pc[q] /\ call'[q] = call[q]
  BY <1>0, <1>1 DEF TypeOK
<1>8. held[r] = {}
  BY <1>0 DEF LocksOK
<1> QED
  BY <1>3, <1>4, <1>5, <1>6, <1>7, <1>8, StatementKeeps

LEMMA GetLastEntryInv ==
  ASSUME NEW r \in Request, LedgerInv, GetLastEntry(r)
  PROVE  LedgerInv'
<1> USE DEF GetLastEntry, Select, tables
<1>0. TypeOK /\ LocksOK(r) /\ BornOK(r) /\ CallOK(r)
  BY DEF LedgerInv
<1> DEFINE next == IF call[r].kind = "debit" THEN "pools" ELSE "balance"
<1>1. \/ want' = [want EXCEPT ![r] = {}] /\ tail' = tail
      \/ \E i \in EntryIds : /\ want' = [want EXCEPT ![r] = {EntryRow(i)}]
                             /\ tail' = [tail EXCEPT ![r] = i]
  BY DEF EntryIds
<1>2. pc' = [pc EXCEPT ![r] = next] /\ next \in {"pools", "balance"}
  OBVIOUS
<1>3. EntryIds \subseteq Id
  BY <1>0 DEF EntryIds, TypeOK, Entry
<1>4. TypeOK'
  <2>1. pc' \in [Request -> PC]
    BY <1>0, <1>2 DEF TypeOK, PC
  <2>2. want' \in [Request -> SUBSET Row]
    <3>1. \A i \in EntryIds : EntryRow(i) \in Row
      BY <1>3 DEF EntryRow, Row
    <3>2. want \in [Request -> SUBSET Row]
      BY <1>0 DEF TypeOK
    <3>3. CASE want' = [want EXCEPT ![r] = {}]
      BY <3>2, <3>3
    <3>4. ASSUME NEW i \in EntryIds, want' = [want EXCEPT ![r] = {EntryRow(i)}]
          PROVE  want' \in [Request -> SUBSET Row]
      BY <3>1, <3>2, <3>4
    <3> QED
      BY <1>1, <3>3, <3>4
  <2>3. tail' \in [Request -> Id \cup {Genesis}]
    BY <1>0, <1>1, <1>3 DEF TypeOK
  <2> QED
    BY <1>0, <2>1, <2>2, <2>3 DEF TypeOK
<1>5. held[r] = {}
  BY <1>0 DEF LocksOK
<1>6. \A y \in want'[r] : y.table = "entry" /\ y.id \in EntryIds
  BY <1>0, <1>1 DEF TypeOK, EntryRow
<1>7. LocksOK(r)'
  BY <1>0, <1>2, <1>5, <1>6 DEF LocksOK, TypeOK, EntryIds
<1>8. BornOK(r)'
  BY <1>0, <1>2 DEF BornOK, TypeOK, EntryIds
<1>9. CallOK(r)'
  BY <1>0, <1>2 DEF CallOK, TypeOK, NoReverts
<1>10. \A q \in Request \ {r} :
          pc'[q] = pc[q] /\ tail'[q] = tail[q] /\ want'[q] = want[q]
  BY <1>0, <1>1, <1>2 DEF TypeOK
<1> QED
  BY <1>4, <1>5, <1>7, <1>8, <1>9, <1>10, StatementKeeps

LEMMA FindOriginalInv ==
  ASSUME NEW r \in Request, LedgerInv, FindOriginal(r)
  PROVE  LedgerInv'
<1>1. CASE Rollback(r)
  BY <1>1, RollbackInv
<1>2. CASE ~Rollback(r)
  <2> USE DEF FindOriginal, Select, tables
  <2>0. TypeOK /\ LocksOK(r) /\ BornOK(r) /\ CallOK(r)
    BY DEF LedgerInv
  <2>1. /\ call[r].id \in EntryIds
        /\ want' = [want EXCEPT ![r] = {EntryRow(call[r].id)}]
        /\ pc' = [pc EXCEPT ![r] = "balance"]
        /\ tail' = [tail EXCEPT ![r] = call[r].id]
        /\ UNCHANGED <<tables, clock, unchecked, call, held, seen, born>>
    BY <1>2
  <2>2. EntryIds \subseteq Id
    BY <2>0 DEF EntryIds, TypeOK, Entry
  <2>3. TypeOK'
    BY <2>0, <2>1, <2>2 DEF TypeOK, PC, EntryRow, Row
  <2>4. held[r] = {}
    BY <2>0 DEF LocksOK
  <2>5. \A y \in want'[r] : y.table = "entry" /\ y.id \in EntryIds
    BY <2>0, <2>1 DEF TypeOK, EntryRow
  <2>6. LocksOK(r)'
    BY <2>0, <2>1, <2>4, <2>5 DEF LocksOK, TypeOK, EntryIds
  <2>7. BornOK(r)'
    BY <2>0, <2>1 DEF BornOK, TypeOK, EntryIds
  <2>8. CallOK(r)'
    BY <2>0, <2>1 DEF CallOK, TypeOK, NoReverts, EntryIds
  <2>9. \A q \in Request \ {r} :
           pc'[q] = pc[q] /\ tail'[q] = tail[q] /\ want'[q] = want[q]
    BY <2>0, <2>1 DEF TypeOK
  <2> QED
    BY <2>1, <2>3, <2>4, <2>6, <2>7, <2>8, <2>9, StatementKeeps
<1> QED
  BY <1>1, <1>2

LEMMA FindPoolsInv ==
  ASSUME NEW r \in Request, LedgerInv, FindPools(r)
  PROVE  LedgerInv'
<1>1. CASE Rollback(r)
  BY <1>1, RollbackInv
<1>2. CASE ~Rollback(r)
  <2> USE DEF FindPools, Select, tables
  <2> DEFINE rows == {PoolRow(i) : i \in {j \in Id : remaining[j] > 0}}
  <2>0. TypeOK /\ RowsOK /\ LocksOK(r) /\ BornOK(r) /\ CallOK(r)
    BY DEF LedgerInv
  <2>1. /\ want' = [want EXCEPT ![r] = rows]
        /\ pc' = [pc EXCEPT ![r] = "balance"]
        /\ UNCHANGED <<tables, clock, unchecked, call, tail, held, seen, born>>
    BY <1>2
  <2>2. \A y \in rows : y \in Row /\ y.table = "pool" /\ y.id \in EntryIds
    BY <2>0 DEF PoolRow, Row, RowsOK, TypeOK
  <2>3. TypeOK'
    BY <2>0, <2>1, <2>2 DEF TypeOK, PC
  <2>4. \A x \in held[r] : x.table = "entry"
    BY <2>0 DEF LocksOK
  <2>5. want'[r] = rows
    BY <2>0, <2>1 DEF TypeOK
  <2>6. \A x \in held[r], y \in want'[r] : Before(x, y)
    BY <2>2, <2>4, <2>5 DEF Before, Tier
  <2>7. LocksOK(r)'
    BY <2>0, <2>1, <2>2, <2>4, <2>5 DEF LocksOK, TypeOK, EntryIds
  <2>8. BornOK(r)'
    BY <2>0, <2>1 DEF BornOK, TypeOK, EntryIds
  <2>9. CallOK(r)'
    BY <2>0, <2>1 DEF CallOK, TypeOK, NoReverts, EntryIds
  <2>10. \A q \in Request \ {r} : pc'[q] = pc[q] /\ want'[q] = want[q]
    BY <2>0, <2>1 DEF TypeOK
  <2> QED
    BY <2>1, <2>3, <2>6, <2>7, <2>8, <2>9, <2>10, StatementKeeps
<1> QED
  BY <1>1, <1>2
LEMMA FindBalanceInv ==
  ASSUME NEW r \in Request, LedgerInv, FindBalance(r)
  PROVE  LedgerInv'
<1>1. CASE Rollback(r)
  BY <1>1, RollbackInv
<1>2. CASE ~Rollback(r)
  <2> USE DEF FindBalance, Select, tables
  <2>0. TypeOK /\ RowsOK /\ LocksOK(r) /\ BornOK(r) /\ CallOK(r)
    BY DEF LedgerInv
  <2>1. PICK rows \in SUBSET {BalanceRow(i) : i \in balanceRows} :
           want' = [want EXCEPT ![r] = rows]
    <3>1. \/ want' = [want EXCEPT ![r] = {}]
          \/ \E i \in balanceRows : want' = [want EXCEPT ![r] = {BalanceRow(i)}]
      BY <1>2
    <3>2. \A i \in balanceRows : {BalanceRow(i)} \in SUBSET {BalanceRow(j) : j \in balanceRows}
      OBVIOUS
    <3>3. {} \in SUBSET {BalanceRow(j) : j \in balanceRows}
      OBVIOUS
    <3> QED
      BY <3>1, <3>2, <3>3
  <2>2. /\ pc[r] = "balance" /\ want[r] = {} /\ ~RefusedEarly(r)
        /\ pc' = [pc EXCEPT ![r] = "write"]
        /\ UNCHANGED <<tables, clock, unchecked, call, tail, held, seen, born>>
    BY <1>2
  <2>3. \A y \in rows : /\ y \in Row /\ y.table = "balance"
                        /\ y.id \in EntryIds /\ y.id \in balanceRows
    BY <2>0 DEF BalanceRow, Row, RowsOK, TypeOK
  <2>4. TypeOK'
    BY <2>0, <2>1, <2>2, <2>3 DEF TypeOK, PC
  <2>5. \A x \in held[r] : x.table \in {"entry", "pool"}
    BY <2>0, <2>2 DEF LocksOK, TypeOK, Row
  <2>6. want'[r] = rows
    BY <2>0, <2>1 DEF TypeOK
  <2>7. \A x \in held[r], y \in want'[r] : Before(x, y)
    BY <2>3, <2>5, <2>6 DEF Before, Tier
  <2>8. LocksOK(r)'
    BY <2>0, <2>2, <2>3, <2>6 DEF LocksOK, TypeOK, EntryIds
  <2>9. BornOK(r)'
    BY <2>0, <2>2 DEF BornOK, TypeOK, EntryIds
  <2>10. CallOK(r)'
    BY <2>0, <2>2 DEF CallOK, TypeOK, CallRec, NoReverts, EntryIds, RefusedEarly
  <2>11. \A q \in Request \ {r} : pc'[q] = pc[q] /\ want'[q] = want[q]
    BY <2>0, <2>1, <2>2 DEF TypeOK
  <2> QED
    BY <2>2, <2>4, <2>7, <2>8, <2>9, <2>10, <2>11, StatementKeeps
<1> QED
  BY <1>1, <1>2

LEMMA LockInv ==
  ASSUME NEW r \in Request, LedgerInv, Lock(r)
  PROVE  LedgerInv'
<1> USE DEF tables
<1>0. TypeOK /\ RowsOK /\ LockOrder /\ ReadsStayCurrent
  BY DEF LedgerInv
<1>1. PICK x \in want[r] :
         /\ \A y \in want[r] \ {x} : Before(x, y)
         /\ \A q \in Request \ {r} : x \notin held[q]
         /\ want' = [want EXCEPT ![r] = @ \ {x}]
         /\ held' = [held EXCEPT ![r] = @ \cup {x}]
         /\ seen' = [seen EXCEPT ![r][x] = Newest(x)]
         /\ UNCHANGED <<tables, clock, unchecked, pc, call, tail, born>>
  BY DEF Lock
<1>2. x \in Row /\ Newest(x) \in Int
  BY <1>0, <1>1 DEF TypeOK, Row, Newest
<1>3. TypeOK'
  <2>1. seen' \in [Request -> [Row -> Int]]
    BY <1>0, <1>1, <1>2 DEF TypeOK
  <2>2. want' \in [Request -> SUBSET Row] /\ held' \in [Request -> SUBSET Row]
    BY <1>0, <1>1, <1>2 DEF TypeOK
  <2> QED
    BY <1>0, <1>1, <2>1, <2>2 DEF TypeOK
<1>4. RowsOK'
  BY <1>0, <1>1 DEF RowsOK, EntryIds
<1>5. /\ held'[r] = held[r] \cup {x} /\ want'[r] = want[r] \ {x}
      /\ seen'[r] = [seen[r] EXCEPT ![x] = Newest(x)]
      /\ \A q \in Request \ {r} : /\ held'[q] = held[q] /\ want'[q] = want[q]
                                  /\ seen'[q] = seen[q]
  BY <1>0, <1>1 DEF TypeOK
<1>6. ASSUME NEW q \in Request
      PROVE  (LocksOK(q) /\ BornOK(q) /\ CallOK(q))'
  <2>0. LocksOK(q) /\ BornOK(q) /\ CallOK(q)
    BY DEF LedgerInv
  <2>1. BornOK(q)'
    BY <1>1, <2>0 DEF BornOK, EntryIds
  <2>2. CASE q = r
    <3>1. pc[r] \notin {"idle", "tail", "commit"}
      BY <1>1, <2>0, <2>2 DEF LocksOK
    <3>2. held'[r] \cup want'[r] = held[r] \cup want[r]
      BY <1>1, <1>5
    <3>3. LocksOK(r)'
      <4>1. \A y \in Row : seen'[r][y] # 0 => y \in held'[r]
        BY <1>0, <1>5, <2>0, <2>2 DEF LocksOK, TypeOK
      <4> QED
        BY <1>1, <2>0, <2>2, <3>1, <3>2, <4>1 DEF LocksOK, EntryIds
    <3>4. CallOK(r)'
      BY <1>1, <2>0, <2>2, <3>1 DEF CallOK, EntryIds, NoReverts
    <3> QED BY <2>1, <2>2, <3>3, <3>4
  <2>3. CASE q # r
    BY <1>1, <1>5, <2>0, <2>1, <2>3, OthersKeep DEF EntryIds
  <2> QED BY <2>2, <2>3
<1>7. LockOrder'
  BY <1>0, <1>1, <1>5 DEF LockOrder
<1>8. ReadsStayCurrent'
  <2> SUFFICES ASSUME NEW q \in Request, NEW y \in held'[q]
               PROVE  /\ \A p \in Request \ {q} : y \notin held'[p]
                      /\ y.table = "pool" => seen'[q][y] = remaining[y.id]
                      /\ y.table = "balance" => seen'[q][y] = balances[y.id]
    BY <1>1 DEF ReadsStayCurrent
  <2>1. \A p \in Request \ {q} : y \notin held'[p]
    BY <1>0, <1>1, <1>5 DEF ReadsStayCurrent
  <2>2. CASE q = r /\ y = x
    <3>1. seen'[r][x] = Newest(x)
      BY <1>0, <1>2, <1>5 DEF TypeOK
    <3> QED BY <1>1, <2>1, <2>2, <3>1 DEF Newest
  <2>3. CASE ~(q = r /\ y = x)
    <3>1. y \in held[q] /\ y \in Row
      BY <1>0, <1>5, <2>3 DEF TypeOK
    <3>2. seen'[q][y] = seen[q][y]
      BY <1>0, <1>5, <2>3, <3>1 DEF TypeOK
    <3> QED BY <1>0, <2>1, <3>1, <3>2 DEF ReadsStayCurrent
  <2> QED BY <2>2, <2>3
<1>9. (PoolsNeverOverdrawn /\ BalancesNeverOverdrawn)'
  BY <1>1 DEF LedgerInv, PoolsNeverOverdrawn, BalancesNeverOverdrawn, NoReverts
<1> QED
  BY <1>3, <1>4, <1>6, <1>7, <1>8, <1>9 DEF LedgerInv

LEMMA WriteInv ==
  ASSUME NEW r \in Request, LedgerInv, Write(r)
  PROVE  LedgerInv'
<1>1. CASE Rollback(r)
  BY <1>1, RollbackInv
<1>2. CASE ~Rollback(r)
  <2> USE DEF Write, tables
  <2>0. TypeOK /\ RowsOK /\ LockOrder /\ ReadsStayCurrent
    BY DEF LedgerInv
  <2>1. /\ pc[r] = "write" /\ want[r] = {} /\ clock < MaxCalls /\ Covered(r)
        /\ clock' = clock + 1 /\ born' = [born EXCEPT ![r] = clock + 1]
        /\ pc' = [pc EXCEPT ![r] = "commit"]
        /\ UNCHANGED <<tables, unchecked, call, tail, want, held, seen>>
    BY <1>2
  <2>2. clock \in Nat /\ clock + 1 \in Id /\ clock + 1 # 0 /\ MaxCalls \in Nat
    BY <2>0, <2>1, LedgerAssumption DEF TypeOK, Id
  <2>3. TypeOK'
    BY <2>0, <2>1, <2>2 DEF TypeOK, PC
  <2>4. EntryIds \subseteq Int
    BY <2>0 DEF EntryIds, TypeOK, Entry, Id
  <2>5. RowsOK'
    BY <2>0, <2>1, <2>2, <2>4 DEF RowsOK, EntryIds
  <2>6. ASSUME NEW q \in Request
        PROVE  (LocksOK(q) /\ BornOK(q) /\ CallOK(q))'
    <3>0. LocksOK(q) /\ BornOK(q) /\ CallOK(q) /\ BornOK(r)
      BY DEF LedgerInv
    <3>1. \A p \in Request : born[p] <= clock /\ born[p] \in Int
      BY <2>0 DEF LedgerInv, BornOK, TypeOK, Id
    <3>2. clock + 1 \notin EntryIds
      BY <2>0, <2>2, <2>4 DEF RowsOK
    <3>3. CASE q = r
      <4>1. LocksOK(q)'
        BY <2>0, <2>1, <3>0, <3>3 DEF LocksOK, TypeOK, EntryIds
      <4>2. BornOK(q)'
        BY <2>0, <2>1, <2>2, <3>1, <3>2, <3>3 DEF BornOK, TypeOK, EntryIds
      <4>3. CallOK(q)'
        BY <2>0, <2>1, <3>0, <3>3
           DEF CallOK, Covered, TypeOK, NoReverts, EntryIds, BalanceLocked
      <4> QED BY <4>1, <4>2, <4>3
    <3>4. CASE q # r
      <4>1. LocksOK(q)' /\ CallOK(q)'
        BY <2>0, <2>1, <3>0, <3>4, OthersKeep DEF TypeOK, EntryIds
      <4>2. BornOK(q)'
        BY <2>0, <2>1, <2>2, <3>0, <3>1, <3>4 DEF BornOK, TypeOK, EntryIds
      <4> QED BY <4>1, <4>2
    <3> QED BY <3>3, <3>4
  <2>7. LockOrder' /\ ReadsStayCurrent'
    BY <2>0, <2>1 DEF LockOrder, ReadsStayCurrent
  <2>8. (PoolsNeverOverdrawn /\ BalancesNeverOverdrawn)'
    BY <2>1 DEF LedgerInv, PoolsNeverOverdrawn, BalancesNeverOverdrawn, NoReverts
  <2> QED
    BY <2>3, <2>5, <2>6, <2>7, <2>8 DEF LedgerInv
<1> QED
  BY <1>1, <1>2
\* COMMIT of an entry: it may change the pools and balance rows the transaction
\* holds and the rows it inserts, and nobody else has read those.
LEMMA CommitKeeps ==
  ASSUME NEW r \in Request, LedgerInv, pc[r] = "commit", EndTx(r),
         clock' = clock, unchecked' = unchecked,
         NEW e \in Entry, e.id = born[r], entries' = entries \cup {e},
         remaining' \in [Id -> Int], balances' \in [Id -> Int],
         balanceRows' \in {balanceRows, balanceRows \cup {born[r]}},
         \A i \in Id : /\ remaining'[i] # remaining[i]
                         => PoolRow(i) \in held[r] \/ i = born[r]
                       /\ balances'[i] # balances[i]
                         => BalanceRow(i) \in held[r] \/ i = born[r]
                       /\ remaining'[i] >= 0
                       /\ NoReverts => balances'[i] >= 0
  PROVE  LedgerInv'
<1>0. TypeOK /\ RowsOK /\ LockOrder /\ ReadsStayCurrent /\ BornOK(r) /\ LocksOK(r)
  BY DEF LedgerInv
<1>1. /\ pc'[r] = "idle" /\ call'[r] = Idle /\ tail'[r] = Genesis /\ want'[r] = {}
      /\ held'[r] = {} /\ seen'[r] = NothingSeen /\ born'[r] = 0
      /\ \A q \in Request \ {r} :
            /\ pc'[q] = pc[q] /\ call'[q] = call[q] /\ tail'[q] = tail[q]
            /\ want'[q] = want[q] /\ held'[q] = held[q] /\ seen'[q] = seen[q]
            /\ born'[q] = born[q]
  BY <1>0 DEF EndTx, TypeOK
<1>2. born[r] \in Id /\ born[r] <= clock /\ born[r] \notin EntryIds
  BY <1>0 DEF BornOK, TypeOK
<1>3. EntryIds' = EntryIds \cup {born[r]}
  BY DEF EntryIds
<1>4. TypeOK'
  BY <1>0, <1>2, LedgerAssumption
     DEF TypeOK, EndTx, PC, CallRec, Kind, Idle, NothingSeen, Genesis
<1>5. RowsOK'
  <2>1. balanceRows' \subseteq EntryIds'
    BY <1>0, <1>3 DEF RowsOK
  <2>2. \A i \in EntryIds' : i <= clock'
    BY <1>0, <1>2, <1>3 DEF RowsOK
  <2>3. ASSUME NEW i \in Id, remaining'[i] # 0
        PROVE  i \in EntryIds'
    <3>1. CASE remaining'[i] = remaining[i]
      BY <1>0, <1>3, <2>3, <3>1 DEF RowsOK
    <3>2. CASE PoolRow(i) \in held[r]
      BY <1>0, <1>3, <3>2 DEF LocksOK, PoolRow
    <3> QED BY <1>3, <3>1, <3>2
  <2> QED BY <2>1, <2>2, <2>3 DEF RowsOK
<1>6. ASSUME NEW q \in Request
      PROVE  (LocksOK(q) /\ BornOK(q) /\ CallOK(q))'
  <2>0. LocksOK(q) /\ BornOK(q) /\ CallOK(q)
    BY DEF LedgerInv
  <2>1. CASE q = r
    <3>1. LocksOK(q)'
      BY <1>1, <2>1 DEF LocksOK, NothingSeen
    <3>2. BornOK(q)'
      BY <1>0, <1>1, <1>2, <1>3, <2>1 DEF BornOK, TypeOK, EntryIds, Entry, Id
    <3>3. CallOK(q)'
      BY <1>1, <2>1 DEF CallOK, Idle, NoReverts
    <3> QED BY <3>1, <3>2, <3>3
  <2>2. CASE q # r
    <3>1. LocksOK(q)' /\ CallOK(q)'
      BY <1>1, <1>3, <2>0, <2>2, OthersKeep
    <3>2. BornOK(q)'
      BY <1>0, <1>1, <1>2, <1>3, <2>0, <2>2 DEF BornOK, Id
    <3> QED BY <3>1, <3>2
  <2> QED BY <2>1, <2>2
<1>7. LockOrder'
  BY <1>0, <1>1 DEF LockOrder
<1>8. ReadsStayCurrent'
  <2> SUFFICES ASSUME NEW q \in Request, NEW x \in held'[q]
               PROVE  /\ \A p \in Request \ {q} : x \notin held'[p]
                      /\ x.table = "pool" => seen'[q][x] = remaining'[x.id]
                      /\ x.table = "balance" => seen'[q][x] = balances'[x.id]
    BY DEF ReadsStayCurrent
  <2>1. q # r /\ x \in held[q] /\ x \in Row /\ seen'[q][x] = seen[q][x]
    BY <1>0, <1>1 DEF TypeOK
  <2>2. x \notin held[r] /\ \A p \in Request \ {q} : x \notin held'[p]
    BY <1>0, <1>1, <2>1 DEF ReadsStayCurrent
  <2>3. x.id # born[r] /\ x.id \in Id
    BY <1>2, <2>1 DEF LedgerInv, LocksOK, Row
  <2>4. x.table = "pool" => x = PoolRow(x.id) /\ remaining'[x.id] = remaining[x.id]
    BY <2>1, <2>2, <2>3 DEF PoolRow, Row
  <2>5. x.table = "balance" => x = BalanceRow(x.id) /\ balances'[x.id] = balances[x.id]
    BY <2>1, <2>2, <2>3 DEF BalanceRow, Row
  <2> QED BY <1>0, <2>1, <2>2, <2>4, <2>5 DEF ReadsStayCurrent
<1>9. (PoolsNeverOverdrawn /\ BalancesNeverOverdrawn)'
  BY DEF PoolsNeverOverdrawn, BalancesNeverOverdrawn, NoReverts
<1> QED
  BY <1>4, <1>5, <1>6, <1>7, <1>8, <1>9 DEF LedgerInv

\* What a transaction has read of a row it holds is what the row still says.
LEMMA SeenIsCurrent ==
  ASSUME NEW r \in Request, LedgerInv, NEW i \in Id
  PROVE  /\ PoolRow(i) \in Row /\ BalanceRow(i) \in Row
         /\ i \in PoolsRead(r) => /\ PoolRow(i) \in held[r]
                                  /\ seen[r][PoolRow(i)] = remaining[i]
         /\ i \in BalanceLocked(r) => seen[r][BalanceRow(i)] = balances[i]
<1>1. PoolRow(i) \in Row /\ BalanceRow(i) \in Row
  BY DEF PoolRow, BalanceRow, Row
<1>2. ASSUME i \in PoolsRead(r)
      PROVE  PoolRow(i) \in held[r] /\ seen[r][PoolRow(i)] = remaining[i]
  <2>1. PoolRow(i) \in held[r]
    BY <1>1, <1>2 DEF LedgerInv, LocksOK, PoolsRead
  <2> QED
    BY <2>1 DEF LedgerInv, ReadsStayCurrent, PoolRow
<1>3. ASSUME i \in BalanceLocked(r)
      PROVE  seen[r][BalanceRow(i)] = balances[i]
  BY <1>3 DEF LedgerInv, ReadsStayCurrent, BalanceLocked, BalanceRow
<1> QED
  BY <1>1, <1>2, <1>3

LEMMA CommitCreditInv ==
  ASSUME NEW r \in Request, LedgerInv, CommitCredit(r)
  PROVE  LedgerInv'
<1> DEFINE amount == call[r].amount
           e == NewEntry(r, "credit", amount, call[r].ref, 0)
<1> USE DEF CommitCredit
<1>0. TypeOK /\ BornOK(r) /\ CallOK(r) /\ PoolsNeverOverdrawn /\ BalancesNeverOverdrawn
  BY DEF LedgerInv
<1>1. pc[r] = "commit" /\ EndTx(r)
      /\ clock' = clock /\ unchecked' = unchecked
  OBVIOUS
<1>2. amount \in Int /\ amount > 0 /\ call[r].ref \in STRING
  BY <1>0, <1>1 DEF TypeOK, CallRec, CallOK
<1>3. born[r] \in Id
  BY <1>0 DEF BornOK, TypeOK
<1>4. e \in Entry /\ e.id = born[r] /\ entries' = entries \cup {e}
  BY <1>0, <1>2, <1>3 DEF NewEntry, PreviousHash, Entry, TypeOK, ZeroTime, Genesis
<1>5. remaining' = [remaining EXCEPT ![born[r]] = amount]
  OBVIOUS
<1>6. balanceRows' \in {balanceRows, balanceRows \cup {born[r]}}
  OBVIOUS
<1>7. /\ balances' \in [Id -> Int]
      /\ \A i \in Id : /\ balances'[i] # balances[i]
                         => BalanceRow(i) \in held[r] \/ i = born[r]
                       /\ NoReverts => balances'[i] >= 0
  <2>1. CASE balances' = [balances EXCEPT ![born[r]] = amount]
    BY <1>0, <1>2, <1>3, <2>1 DEF TypeOK, BalancesNeverOverdrawn
  <2>2. CASE SetBalance(BalanceLocked(r), [i \in Id |-> seen[r][BalanceRow(i)] + amount])
    <3>1. ASSUME NEW i \in Id
          PROVE  seen[r][BalanceRow(i)] \in Int
      BY <1>0, SeenIsCurrent DEF TypeOK
    <3>2. ASSUME NEW i \in Id
          PROVE  balances'[i] = IF /\ i \in BalanceLocked(r)
                                   /\ seen[r][BalanceRow(i)] + amount # 0
                                THEN seen[r][BalanceRow(i)] + amount ELSE balances[i]
      BY <2>2 DEF SetBalance
    <3>3. balances' \in [Id -> Int]
      BY <1>0, <1>2, <2>2, <3>1 DEF SetBalance, TypeOK
    <3>4. ASSUME NEW i \in Id
          PROVE  /\ balances'[i] # balances[i] => BalanceRow(i) \in held[r]
                 /\ NoReverts => balances'[i] >= 0
      BY <1>0, <1>2, <3>1, <3>2, SeenIsCurrent
         DEF BalanceLocked, BalancesNeverOverdrawn, TypeOK
    <3> QED BY <3>3, <3>4
  <2> QED BY <2>1, <2>2
<1>8. /\ remaining' \in [Id -> Int]
      /\ \A i \in Id : /\ remaining'[i] # remaining[i] => i = born[r]
                       /\ remaining'[i] >= 0
  BY <1>0, <1>2, <1>3, <1>5 DEF TypeOK, PoolsNeverOverdrawn
<1> HIDE DEF CommitCredit, e
<1> QED
  BY <1>1, <1>4, <1>6, <1>7, <1>8, CommitKeeps

\* processDebit's loop takes at most what is left from each pool.
LEMMA AllocationBounds ==
  ASSUME NEW S, NEW avail, \A i \in S : avail[i] \in Int /\ avail[i] > 0,
         NEW amount \in Int, NEW f \in Allocations(avail, S, amount), NEW i \in S
  PROVE  f[i] \in Int /\ f[i] <= avail[i]
<1>1. CASE amount <= 0
  <2>1. f = [j \in S |-> IF \A k \in S \ {j} : OldestFirst(j, k) THEN amount ELSE 0]
    BY <1>1 DEF Allocations
  <2>2. f[i] \in {amount, 0}
    BY <2>1
  <2> QED
    BY <1>1, <2>2
<1>2. CASE ~(amount <= 0)
  BY <1>2 DEF Allocations
<1> QED
  BY <1>1, <1>2

LEMMA CommitDebitInv ==
  ASSUME NEW r \in Request, LedgerInv, CommitDebit(r)
  PROVE  LedgerInv'
<1> DEFINE amount == call[r].amount
           e == NewEntry(r, "debit", amount, call[r].ref, 0)
           avail == [i \in Id |-> seen[r][PoolRow(i)]]
<1>0. TypeOK /\ BornOK(r) /\ CallOK(r) /\ PoolsNeverOverdrawn /\ BalancesNeverOverdrawn
  BY DEF LedgerInv
<1>1. /\ pc[r] = "commit" /\ call[r].kind = "debit" /\ EndTx(r)
      /\ clock' = clock /\ unchecked' = unchecked
      /\ balanceRows' = balanceRows /\ entries' = entries \cup {e}
  BY DEF CommitDebit
<1>2. amount \in Int /\ call[r].ref \in STRING
  BY <1>0 DEF TypeOK, CallRec
<1>3. e \in Entry /\ e.id = born[r]
  BY <1>0, <1>1, <1>2
     DEF NewEntry, PreviousHash, Entry, TypeOK, ZeroTime, Genesis, BornOK
<1>4. ASSUME NEW i \in Id
      PROVE  /\ avail[i] \in Int /\ seen[r][BalanceRow(i)] \in Int
             /\ remaining[i] \in Int /\ remaining[i] >= 0
  BY <1>0, SeenIsCurrent DEF TypeOK, PoolsNeverOverdrawn
<1>5. PICK f \in Allocations(avail, PoolsRead(r), amount) :
         remaining' = [i \in Id |-> IF i \in PoolsRead(r) THEN remaining[i] - f[i]
                                    ELSE remaining[i]]
  BY DEF CommitDebit
<1>6. ASSUME NEW i \in PoolsRead(r)
      PROVE  f[i] \in Int /\ f[i] <= remaining[i] /\ PoolRow(i) \in held[r] /\ i \in Id
  <2>1. \A j \in PoolsRead(r) : avail[j] \in Int /\ avail[j] > 0
    BY <1>4 DEF PoolsRead
  <2>2. f[i] \in Int /\ f[i] <= avail[i]
    BY <1>2, <2>1, AllocationBounds
  <2> QED
    BY <2>2, SeenIsCurrent DEF PoolsRead
<1>7. /\ remaining' \in [Id -> Int]
      /\ \A i \in Id : /\ remaining'[i] # remaining[i] => PoolRow(i) \in held[r]
                       /\ remaining'[i] >= 0
  BY <1>4, <1>5, <1>6
<1>8. balances' = [i \in Id |-> IF i \in BalanceLocked(r)
                                THEN balances[i] - amount ELSE balances[i]]
  BY DEF CommitDebit
<1>9. ASSUME NEW i \in BalanceLocked(r)
      PROVE  BalanceRow(i) \in held[r] /\ i \in Id /\ balances[i] >= amount
  BY <1>0, <1>1, <1>9, SeenIsCurrent DEF BalanceLocked, CallOK
<1>10. /\ balances' \in [Id -> Int]
       /\ \A i \in Id : /\ balances'[i] # balances[i] => BalanceRow(i) \in held[r]
                        /\ NoReverts => balances'[i] >= 0
  BY <1>0, <1>2, <1>8, <1>9 DEF TypeOK, BalancesNeverOverdrawn
<1> HIDE DEF e
<1> QED
  BY <1>1, <1>3, <1>7, <1>10, CommitKeeps

LEMMA CommitRevertInv ==
  ASSUME NEW r \in Request, LedgerInv, CommitRevert(r)
  PROVE  LedgerInv'
<1> DEFINE original == EntryOf(tail[r])
           e == NewEntry(r, original.kind, original.amount, TransactionID[tail[r]], tail[r])
           value == [i \in Id |-> seen[r][BalanceRow(i)] - original.amount]
<1>0. TypeOK /\ BornOK(r) /\ CallOK(r) /\ PoolsNeverOverdrawn
  BY DEF LedgerInv
<1>1. /\ pc[r] = "commit" /\ call[r].kind = "revert" /\ EndTx(r)
      /\ clock' = clock /\ unchecked' = unchecked
      /\ balanceRows' = balanceRows /\ remaining' = remaining
      /\ entries' = entries \cup {e} /\ SetBalance(BalanceLocked(r), value)
  BY DEF CommitRevert
<1>2. original \in entries /\ tail[r] \in Id
  BY <1>0, <1>1 DEF CallOK, EntryOf, EntryIds, TypeOK, Entry
<1>3. original \in Entry
  BY <1>0, <1>2 DEF TypeOK
<1>4. e \in Entry /\ e.id = born[r]
  <2>1. original.kind \in {"credit", "debit"} /\ original.amount \in Int
    BY <1>3 DEF Entry
  <2>2. born[r] \in Id
    BY <1>0, <1>1 DEF BornOK, TypeOK
  <2> HIDE DEF original
  <2> QED
    BY <1>2, <2>1, <2>2, LedgerAssumption
       DEF NewEntry, PreviousHash, Entry, ZeroTime, Genesis, Id
<1>5. ~NoReverts
  BY <1>0, <1>1 DEF CallOK
<1>6. \A i \in Id : value[i] \in Int
  <2>1. original.amount \in Int
    BY <1>3 DEF Entry
  <2> HIDE DEF original
  <2> QED
    BY <1>0, <2>1, SeenIsCurrent DEF TypeOK
<1> HIDE DEF value, e
<1>7. /\ balances' \in [Id -> Int]
      /\ \A i \in Id : balances'[i] # balances[i] => BalanceRow(i) \in held[r]
  BY <1>0, <1>1, <1>6 DEF SetBalance, BalanceLocked, TypeOK
<1>8. remaining' \in [Id -> Int] /\ \A i \in Id : remaining'[i] >= 0
  BY <1>0, <1>1 DEF TypeOK, PoolsNeverOverdrawn
<1> QED
  BY <1>1, <1>4, <1>5, <1>7, <1>8, CommitKeeps

\* No operation is left out, so every step keeps the invariant.
LEMMA NextInv == LedgerInv /\ [Next]_vars => LedgerInv'
<1>1. ASSUME LedgerInv, NEW r \in Request, Receive(r) \/ Step(r) \/ Abort(r)
      PROVE  LedgerInv'
  BY <1>1, ReceiveInv, LockInv, GetLastEntryInv, FindOriginalInv, FindPoolsInv,
     FindBalanceInv, WriteInv, CommitCreditInv, CommitDebitInv, CommitRevertInv,
     RollbackInv DEF Step, Abort
<1>2. ASSUME LedgerInv, UNCHANGED vars
      PROVE  LedgerInv'
  <2> USE <1>2 DEF vars, tables, session
  <2>1. TypeOK' /\ RowsOK'
    BY DEF LedgerInv, TypeOK, RowsOK, EntryIds
  <2>2. \A r \in Request : (LocksOK(r) /\ BornOK(r) /\ CallOK(r))'
    BY DEF LedgerInv, LocksOK, BornOK, CallOK, EntryIds, BalanceLocked, NoReverts
  <2>3. LockOrder' /\ ReadsStayCurrent'
    BY DEF LedgerInv, LockOrder, ReadsStayCurrent
  <2>4. (PoolsNeverOverdrawn /\ BalancesNeverOverdrawn)'
    BY DEF LedgerInv, PoolsNeverOverdrawn, BalancesNeverOverdrawn, NoReverts
  <2> QED
    BY <2>1, <2>2, <2>3, <2>4 DEF LedgerInv
<1> QED
  BY <1>1, <1>2 DEF Next, Refuse, Rest

\* LedgerInv holds in every reachable state.
THEOREM LedgerInvariant == Spec => []LedgerInv
  BY InitInv, NextInv, PTL DEF Spec

\* The tables and every transaction are well typed, whatever the interleaving.
THEOREM TypeCorrect == Spec => []TypeOK
<1>1. LedgerInv => TypeOK
  BY DEF LedgerInv
<1> QED
  BY <1>1, LedgerInvariant, PTL

\* No interleaving of AddEntry and ReverEntry draws a credit pool below zero.
THEOREM NoPoolOverdraft == Spec => []PoolsNeverOverdrawn
<1>1. LedgerInv => PoolsNeverOverdrawn
  BY DEF LedgerInv
<1> QED
  BY <1>1, LedgerInvariant, PTL

\* Unless entries are reverted, no balance row ever goes below zero.
THEOREM NoBalanceOverdraft == Spec => []BalancesNeverOverdrawn
<1>1. LedgerInv => BalancesNeverOverdrawn
  BY DEF LedgerInv
<1> QED
  BY <1>1, LedgerInvariant, PTL

\* Row locks exclude each other, and a value read under one is current when it
\* is used.
THEOREM NoLostUpdate == Spec => []ReadsStayCurrent
<1>1. LedgerInv => ReadsStayCurrent
  BY DEF LedgerInv
<1> QED
  BY <1>1, LedgerInvariant, PTL

\* Every transaction asks for locks in one order.
THEOREM LocksAreOrdered == Spec => []LockOrder
<1>1. LedgerInv => LockOrder
  BY DEF LedgerInv
<1> QED
  BY <1>1, LedgerInvariant, PTL

----------------------------------------------------------------------------
(* No deadlock: the order of the locks, and that there are finitely many rows. *)

\* Of finitely many different sets one contains no other.
LEMMA MinimalSet ==
  ASSUME NEW U, IsFiniteSet(U), NEW S, S # {}, NEW f \in [S -> SUBSET U]
  PROVE  \E x \in S : \A y \in S : f[y] \subseteq f[x] => f[y] = f[x]
<1> DEFINE T == {f[x] : x \in S}
<1>1. T \subseteq SUBSET U /\ T # {}
  OBVIOUS
<1>2. IsWellFoundedOn(StrictSubsetOrdering(U), SUBSET U)
  BY FS_StrictSubsetOrderingWellFounded, FS_FiniteSubsetsOfFinite
<1> HIDE DEF T
<1>3. PICK A \in T : \A B \in T : ~(<<B, A>> \in StrictSubsetOrdering(U))
  BY <1>1, <1>2, WFMin
<1>4. PICK x \in S : A = f[x]
  BY DEF T
<1>5. ASSUME NEW y \in S, f[y] \subseteq f[x]
      PROVE  f[y] = f[x]
  <2>1. f[y] \in T
    BY DEF T
  <2> QED
    BY <1>1, <1>3, <1>4, <1>5, <2>1 DEF StrictSubsetOrdering
<1> QED
  BY <1>5

LEMMA RowsFinite == IsFiniteSet(Row)
<1> DEFINE P == {"entry", "pool", "balance"} \X Id
           f == [p \in P |-> [table |-> p[1], id |-> p[2]]]
<1>1. f \in Surjection(P, Row)
  <2>1. f \in [P -> Row]
    BY DEF Row
  <2>2. ASSUME NEW x \in Row PROVE \E p \in P : f[p] = x
    <3>1. <<x.table, x.id>> \in P
      BY DEF Row
    <3>2. f[<<x.table, x.id>>] = x
      BY <3>1 DEF Row
    <3> QED
      BY <3>1, <3>2
  <2> QED
    BY <2>1, <2>2 DEF Surjection
<1>2. IsFiniteSet(P)
  <2>1. IsFiniteSet({"entry"} \cup {"pool"} \cup {"balance"})
    BY FS_Singleton, FS_Union
  <2>2. {"entry"} \cup {"pool"} \cup {"balance"} = {"entry", "pool", "balance"}
    OBVIOUS
  <2>3. 1 \in Int /\ MaxCalls \in Int
    BY LedgerAssumption
  <2>4. IsFiniteSet(Id)
    BY <2>3, FS_Interval DEF Id
  <2> QED
    BY <2>1, <2>2, <2>4, FS_Product
<1> QED
  BY <1>1, <1>2, FS_Surjection

LEMMA RowOrder ==
  ASSUME NEW x \in Row, NEW y \in Row
  PROVE  /\ ~Before(x, x) /\ (x = y \/ Before(x, y) \/ Before(y, x))
         /\ \A z \in Row : Before(x, y) /\ Before(y, z) => Before(x, z)
<1>1. \A t \in {"entry", "pool", "balance"} : Tier[t] \in Int
  BY DEF Tier
<1>2. \A s, t \in {"entry", "pool", "balance"} : Tier[s] = Tier[t] => s = t
  BY DEF Tier
<1>3. \A z \in Row : z.table \in {"entry", "pool", "balance"} /\ z.id \in Int
  BY LedgerAssumption DEF Row, Id
<1>4. x.table = y.table /\ x.id = y.id => x = y
  BY DEF Row
<1> QED
  BY <1>1, <1>2, <1>3, <1>4 DEF Before

LEMMA FirstAndLast ==
  ASSUME NEW S \in SUBSET Row, S # {}
  PROVE  /\ \E x \in S : \A y \in S \ {x} : Before(x, y)
         /\ \E x \in S : \A y \in S \ {x} : Before(y, x)
<1>1. PICK f : f = [x \in S |-> {z \in Row : Before(z, x)}]
  OBVIOUS
<1>2. PICK x \in S : \A y \in S : f[y] \subseteq f[x] => f[y] = f[x]
  <2>1. f \in [S -> SUBSET Row]
    BY <1>1
  <2> QED
    BY <2>1, RowsFinite, MinimalSet
<1>3. ASSUME NEW y \in S, y # x PROVE Before(x, y)
  <2>1. SUFFICES ASSUME Before(y, x) PROVE FALSE
    BY <1>3, RowOrder
  <2>2. f[y] \subseteq f[x] /\ y \in f[x] /\ y \notin f[y]
    BY <1>1, <2>1, RowOrder
  <2> QED
    BY <1>2, <2>2
<1>4. PICK g : g = [y \in S |-> {z \in Row : Before(y, z)}]
  OBVIOUS
<1>5. PICK l \in S : \A y \in S : g[y] \subseteq g[l] => g[y] = g[l]
  <2>1. g \in [S -> SUBSET Row]
    BY <1>4
  <2> QED
    BY <2>1, RowsFinite, MinimalSet
<1>6. ASSUME NEW y \in S, y # l PROVE Before(y, l)
  <2>1. SUFFICES ASSUME Before(l, y) PROVE FALSE
    BY <1>6, RowOrder
  <2>2. g[y] \subseteq g[l] /\ y \in g[l] /\ y \notin g[y]
    BY <1>4, <2>1, RowOrder
  <2> QED
    BY <1>5, <2>2
<1> QED
  BY <1>3, <1>6

\* The row r asks for next, and that another transaction makes it wait.
Asks(r, x) == x \in want[r] /\ \A y \in want[r] \ {x} : Before(x, y)
WaitsFor(r, q) == \E x \in want[r] : Asks(r, x) /\ x \in held[q]

\* Among any handlers is one that waits for none of them; and while one waits,
\* one can lock its next row or holds what it has asked for and may go on.
NobodyStuck ==
    /\ \A S \in SUBSET Request : S # {} => \E r \in S : \A q \in S : ~WaitsFor(r, q)
    /\ (\E r \in Request : want[r] # {}) =>
          \E r \in Request :
             \/ want[r] = {} /\ pc[r] # "idle"
             \/ \E x \in want[r] : Asks(r, x) /\ \A q \in Request \ {r} : x \notin held[q]

LEMMA OrderPreventsDeadlock == LedgerInv => NobodyStuck
<1> SUFFICES ASSUME LedgerInv PROVE NobodyStuck
  OBVIOUS
<1>1. /\ \A r \in Request : want[r] \in SUBSET Row
      /\ \A r \in Request : pc[r] = "idle" => held[r] = {}
      /\ LockOrder
  BY DEF LedgerInv, TypeOK, LocksOK
<1>2. ASSUME NEW S \in SUBSET Request, S # {}
      PROVE  \E r \in S : \A q \in S : ~WaitsFor(r, q)
  <2> SUFFICES ASSUME \A r \in S : \E q \in S : WaitsFor(r, q) PROVE FALSE
    OBVIOUS
  <2> DEFINE X == {x \in Row : \E r \in S : Asks(r, x)}
  <2>1. X # {}
    BY <1>1, <1>2 DEF WaitsFor
  <2>2. PICK x \in X : \A y \in X \ {x} : Before(y, x)
    BY <2>1, FirstAndLast, ZenonT(40)
  <2>3. PICK r \in S : Asks(r, x)
    OBVIOUS
  <2>4. PICK q \in S, z \in want[r] : Asks(r, z) /\ z \in held[q]
    BY DEF WaitsFor
  <2>5. z = x
    <3>1. x \in Row /\ z \in Row
      BY <1>1, <2>4
    <3>2. z # x => Before(x, z) /\ Before(z, x)
      BY <2>3, <2>4 DEF Asks
    <3> QED
      BY <3>1, <3>2, RowOrder
  <2>6. PICK y \in want[q] : Asks(q, y)
    BY DEF WaitsFor
  <2>7. y \in X /\ y \in Row /\ x \in Row /\ Before(x, y)
    BY <1>1, <2>4, <2>5, <2>6 DEF LockOrder
  <2>8. y = x \/ Before(y, x)
    BY <2>2, <2>7
  <2> QED
    BY <2>7, <2>8, RowOrder
<1>3. ASSUME NEW p \in Request, want[p] # {}
      PROVE  \E r \in Request :
                \/ want[r] = {} /\ pc[r] # "idle"
                \/ \E x \in want[r] : Asks(r, x) /\ \A q \in Request \ {r} : x \notin held[q]
  <2> DEFINE S == {r \in Request : want[r] # {}}
  <2>1. PICK r \in S : \A q \in S : ~WaitsFor(r, q)
    BY <1>2, <1>3
  <2>2. PICK x \in want[r] : Asks(r, x)
    BY <1>1, FirstAndLast DEF Asks
  <2>3. CASE \A q \in Request \ {r} : x \notin held[q]
    BY <2>2, <2>3
  <2>4. CASE \E q \in Request \ {r} : x \in held[q]
    <3>1. PICK q \in Request : x \in held[q]
      BY <2>4
    <3>2. want[q] = {}
      BY <2>1, <2>2, <3>1 DEF WaitsFor
    <3>3. pc[q] # "idle"
      BY <1>1, <3>1
    <3> QED
      BY <3>2, <3>3
  <2> QED
    BY <2>3, <2>4
<1> QED
  BY <1>2, <1>3 DEF NobodyStuck

\* The row locks of AddEntry and ReverEntry cannot deadlock: no handlers wait
\* for each other in a cycle, and while one waits, one can go on.
THEOREM LocksNeverDeadlock == Spec => []NobodyStuck
  BY OrderPreventsDeadlock, LedgerInvariant, PTL
=============================================================================
