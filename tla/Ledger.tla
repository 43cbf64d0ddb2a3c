------------------------------- MODULE Ledger -------------------------------
(***************************************************************************)
(* The points ledger (services/ledger) of one member of one tenant.        *)
(*                                                                         *)
(* A Request is a gRPC handler of some replica of the service.  It runs    *)
(* AddEntry or ReverEntry as one Postgres transaction at READ COMMITTED:   *)
(* every SELECT of the transaction is a FOR UPDATE (option.LockingUpdate), *)
(* sees the rows committed when the statement started, then waits for the  *)
(* row locks and re-reads the rows it waited for - but never sees a row    *)
(* inserted meanwhile.  Writes become visible, and locks are released, at  *)
(* COMMIT.  Rows of other members are never read or locked by these        *)
(* queries, so one member stands for all of them.                          *)
(***************************************************************************)
EXTENDS Integers, SequencesExt

CONSTANTS
    Request,   \* the handlers that may run at the same time
    Calls,     \* Calls[r]: the calls request r may receive, again and again
    MaxCalls,  \* bound: how many calls may insert rows
    NoRef,     \* reference_id ""
    FreshRef,  \* a reference no other call uses (a client-side UUID)
    TransactionID  \* TransactionID[i]: what GenerateTransactionID gave entry i

Kind == {"credit", "debit", "revert"}
CallRec == [kind : Kind, amount : Int, ref : STRING, id : Nat]

ASSUME LedgerAssumption ==
    /\ MaxCalls \in Nat
    /\ NoRef \in STRING /\ FreshRef \in STRING
    /\ TransactionID \in [1..MaxCalls -> STRING]
    /\ \A r \in Request : \A c \in Calls[r] : c \in CallRec

\* A row's id is the time it was inserted: created_at and the snowflake id grow
\* together.  The credit pool and the balance row a credit creates carry its id.
Id == 1..MaxCalls
Genesis == 0   \* PreviousHash "GENESIS", and "no row" for getLastEntry
EmptyHash == -1  \* the empty string VerifyChain starts from
ZeroTime == 0  \* time.Time{}, the CreatedAt a LedgerEntry has when it is hashed

Row == [table : {"entry", "pool", "balance"}, id : Id]
EntryRow(i) == [table |-> "entry", id |-> i]
PoolRow(i) == [table |-> "pool", id |-> i]
BalanceRow(i) == [table |-> "balance", id |-> i]

\* The order in which the transactions ask for row locks.
Tier == [entry |-> 1, pool |-> 2, balance |-> 3]
Before(x, y) == \/ Tier[x.table] < Tier[y.table]
                \/ x.table = y.table /\ x.id < y.id

\* A hash covers CreatedAt, PreviousHash and the entry's other fields, so it
\* stands for the entry: prev names the entry whose hash was copied, hashedAt
\* is the CreatedAt the entry's own hash was made with.
Entry == [id : Id, kind : {"credit", "debit"}, amount : Int, ref : STRING,
          prev : Id \cup {Genesis}, hashedAt : Id \cup {ZeroTime},
          revertOf : Id \cup {0}]

VARIABLES
    entries,      \* ledger_entries: the committed rows
    remaining,    \* credit_pools.remaining by id, 0 where there is no row
    balanceRows,  \* balances: ids of the committed rows
    balances,     \* balances.balance by id, 0 where there is no row
    clock,        \* the id given last
    unchecked,    \* history: used references a failed look-up let through
    pc,           \* the next statement of each transaction
    call,         \* the request it serves
    tail,         \* id of the entry getLastEntry (ReverEntry: FindOne) returned
    want,         \* rows the running SELECT ... FOR UPDATE still has to lock
    held,         \* the row locks of the transaction
    seen,         \* pool and balance values as read under the lock
    born          \* id of the rows it inserts

tables == <<entries, remaining, balanceRows, balances>>
session == <<pc, call, tail, want, held, seen, born>>
vars == <<tables, clock, unchecked, session>>

PC == {"idle", "tail", "pools", "balance", "write", "commit"}
Idle == [kind |-> "credit", amount |-> 0, ref |-> NoRef, id |-> 0]
NothingSeen == [x \in Row |-> 0]

Init ==
    /\ entries = {} /\ balanceRows = {}
    /\ remaining = [i \in Id |-> 0] /\ balances = [i \in Id |-> 0]
    /\ clock = 0 /\ unchecked = {}
    /\ pc = [r \in Request |-> "idle"]
    /\ call = [r \in Request |-> Idle]
    /\ tail = [r \in Request |-> Genesis]
    /\ want = [r \in Request |-> {}]
    /\ held = [r \in Request |-> {}]
    /\ seen = [r \in Request |-> NothingSeen]
    /\ born = [r \in Request |-> 0]

----------------------------------------------------------------------------
\* Mutation: the transaction's connection is returned without ending it.
LeakLocks(r) ==
    /\ pc' = [pc EXCEPT ![r] = "idle"]
    /\ call' = [call EXCEPT ![r] = Idle]
    /\ tail' = [tail EXCEPT ![r] = Genesis]
    /\ want' = [want EXCEPT ![r] = {}]
    /\ UNCHANGED held
    /\ seen' = [seen EXCEPT ![r] = NothingSeen]
    /\ born' = [born EXCEPT ![r] = 0]

\* The end of a transaction, COMMIT or ROLLBACK, releases every lock.
EndTx(r) ==
    /\ pc' = [pc EXCEPT ![r] = "idle"]
    /\ call' = [call EXCEPT ![r] = Idle]
    /\ tail' = [tail EXCEPT ![r] = Genesis]
    /\ want' = [want EXCEPT ![r] = {}]
    /\ held' = [held EXCEPT ![r] = {}]
    /\ seen' = [seen EXCEPT ![r] = NothingSeen]
    /\ born' = [born EXCEPT ![r] = 0]

\* An error returned by the transaction function, or a panic in it (gorm rolls
\* back and panics again): no write survives.
Rollback(r) == EndTx(r) /\ UNCHANGED <<tables, clock, unchecked>>

\* Issue a SELECT ... FOR UPDATE over rows; the next statement is next.
Select(r, rows, next) ==
    /\ want' = [want EXCEPT ![r] = rows]
    /\ pc' = [pc EXCEPT ![r] = next]

\* MaxCalls is not exhausted by the calls that have not inserted yet.
Room == clock + Cardinality({q \in Request : pc[q] \notin {"idle", "commit"}})
        < MaxCalls

\* Mutation: the look-up by reference is left out.
ReferenceUnchecked(ref) == ref = NoRef /\ entries # {}

\* AddEntry's look-up by reference: gorm drops a zero-valued field from the
\* filter, so an empty reference matches every entry of the tenant.
ReferenceUsed(ref) ==
    \E e \in entries : ref = NoRef \/ (ref # FreshRef /\ e.ref = ref)

\* A request arrives.  AddEntry first looks the reference up, outside the
\* transaction, and goes on when it finds no entry - and when the look-up fails,
\* for its error is dropped.  ReverEntry has no such check.
Receive(r) ==
    /\ pc[r] = "idle" /\ Room
    /\ \E c \in Calls[r] :
          /\ call' = [call EXCEPT ![r] = c]
          /\ \/ /\ c.kind = "revert" \/ ~ReferenceUsed(c.ref)
                /\ UNCHANGED unchecked
             \/ /\ c.kind # "revert" /\ ReferenceUsed(c.ref)   \* the look-up fails
                /\ unchecked' = unchecked \cup {c.ref}
    /\ pc' = [pc EXCEPT ![r] = "tail"]
    /\ UNCHANGED <<tables, clock, tail, want, held, seen, born>>

\* AddEntry answers BadRequest: the reference is used.
Refuse(r) ==
    /\ pc[r] = "idle"
    /\ \E c \in Calls[r] : c.kind # "revert" /\ ReferenceUsed(c.ref)
    /\ UNCHANGED vars

\* A row's newest committed value (nothing is read of a locked entry but its id).
Newest(x) == CASE x.table = "pool" -> remaining[x.id]
               [] x.table = "balance" -> balances[x.id]
               [] OTHER -> 0

\* Mutation: a SELECT without FOR UPDATE reads at once and takes no lock.
ReadUnlocked(r) ==
    \E x \in want[r] :
        /\ want' = [want EXCEPT ![r] = @ \ {x}]
        /\ seen' = [seen EXCEPT ![r][x] =
                       Newest(x)]
        /\ UNCHANGED <<tables, clock, unchecked, pc, call, tail, held, born>>

\* Mutation: the rows are locked in any order, not sorted by created_at.
LockUnsorted(r) ==
    \E x \in want[r] :
        /\ \A q \in Request \ {r} : x \notin held[q]
        /\ want' = [want EXCEPT ![r] = @ \ {x}]
        /\ held' = [held EXCEPT ![r] = @ \cup {x}]
        /\ seen' = [seen EXCEPT ![r][x] =
                       Newest(x)]
        /\ UNCHANGED <<tables, clock, unchecked, pc, call, tail, born>>

\* The running SELECT locks its next row, in the order it sorts them, once no
\* other transaction holds it, and reads the row's newest committed value.
Lock(r) ==
    \E x \in want[r] :
        /\ \A y \in want[r] \ {x} : Before(x, y)
        /\ \A q \in Request \ {r} : x \notin held[q]
        /\ want' = [want EXCEPT ![r] = @ \ {x}]
        /\ held' = [held EXCEPT ![r] = @ \cup {x}]
        /\ seen' = [seen EXCEPT ![r][x] =
                       Newest(x)]
        /\ UNCHANGED <<tables, clock, unchecked, pc, call, tail, born>>

----------------------------------------------------------------------------
EntryIds == {e.id : e \in entries}
EntryOf(i) == CHOOSE e \in entries : e.id = i

\* getLastEntry: ORDER BY created_at DESC, id LIMIT 1.  Without any entry there
\* is nothing to lock.
GetLastEntry(r) ==
    /\ pc[r] = "tail" /\ call[r].kind # "revert"
    /\ LET next == IF call[r].kind = "debit" THEN "pools" ELSE "balance"
       IN  \/ /\ entries = {}
              /\ Select(r, {}, next)
              /\ UNCHANGED tail
           \/ \E i \in EntryIds :
                 /\ \A j \in EntryIds : j <= i
                 /\ Select(r, {EntryRow(i)}, next)
                 /\ tail' = [tail EXCEPT ![r] = i]
    /\ UNCHANGED <<tables, clock, unchecked, call, held, seen, born>>

\* ReverEntry reads the original entry; processRevertCredit dereferences it
\* without a check.
FindOriginal(r) ==
    /\ pc[r] = "tail" /\ call[r].kind = "revert"
    /\ \/ /\ call[r].id \notin EntryIds
          /\ Rollback(r)
       \/ /\ call[r].id \in EntryIds
          /\ Select(r, {EntryRow(call[r].id)}, "balance")
          /\ tail' = [tail EXCEPT ![r] = call[r].id]
          /\ UNCHANGED <<tables, clock, unchecked, call, held, seen, born>>

\* processDebit: the pools with remaining > 0, oldest first.
FindPools(r) ==
    /\ pc[r] = "pools" /\ want[r] = {}
    /\ LET rows == {PoolRow(i) : i \in {j \in Id : remaining[j] > 0}}
       IN  \/ rows = {} /\ Rollback(r)
           \/ /\ rows # {}
              /\ Select(r, rows, "balance")
              /\ UNCHANGED <<tables, clock, unchecked, call, tail, held, seen, born>>

\* The pools processDebit got: a row that was drained while the SELECT waited
\* for it no longer matches remaining > 0.
PoolsRead(r) == {i \in Id : seen[r][PoolRow(i)] > 0}
Available(r) == MapThenSumSet(LAMBDA i : seen[r][PoolRow(i)], PoolsRead(r))

\* Refused before the balance is read: a CREDIT of 0 or less, a DEBIT that
\* found no pool.
RefusedEarly(r) ==
    \/ call[r].kind = "credit" /\ call[r].amount <= 0
    \/ call[r].kind = "debit" /\ PoolsRead(r) = {}

\* balanceTx.FindOne: the row with the lowest id.
FindBalance(r) ==
    /\ pc[r] = "balance" /\ want[r] = {}
    /\ \/ /\ RefusedEarly(r) \/ (balanceRows = {} /\ call[r].kind # "credit")
          /\ Rollback(r)
       \/ /\ ~RefusedEarly(r)
          /\ \/ balanceRows = {} /\ call[r].kind = "credit" /\ Select(r, {}, "write")
             \/ \E i \in balanceRows :
                   /\ \A j \in balanceRows : i <= j
                   /\ Select(r, {BalanceRow(i)}, "write")
          /\ UNCHANGED <<tables, clock, unchecked, call, tail, held, seen, born>>

\* Mutation: FindOne's not-found result, nil, is not told from a row.
BalanceNeverFound(r) == {i \in Id : BalanceRow(i) \in held[r] /\ i < 0}

\* The balance row the transaction read and locked, if there is one.
BalanceLocked(r) == {i \in Id : BalanceRow(i) \in held[r]}

\* Mutation: the balance is not compared with the amount.
PoolsCover(r) ==
    call[r].kind = "debit" => Available(r) >= call[r].amount /\ tail[r] # Genesis

\* processDebit's checks: the pools and the balance cover the amount, and
\* lastEntry.Hash does not dereference nil.
Covered(r) ==
    call[r].kind = "debit" =>
        /\ Available(r) >= call[r].amount
        /\ tail[r] # Genesis
        /\ \A i \in BalanceLocked(r) : seen[r][BalanceRow(i)] >= call[r].amount

\* The INSERT of the entry (and, for a credit, of its pool and first balance
\* row) takes the current time; the UPDATEs touch rows already locked.
Write(r) ==
    /\ pc[r] = "write" /\ want[r] = {} /\ clock < MaxCalls
    /\ \/ ~Covered(r) /\ Rollback(r)
       \/ /\ Covered(r)
          /\ clock' = clock + 1
          /\ born' = [born EXCEPT ![r] = clock + 1]
          /\ pc' = [pc EXCEPT ![r] = "commit"]
          /\ UNCHANGED <<tables, unchecked, call, tail, want, held, seen>>

----------------------------------------------------------------------------
\* Mutation: the newest pool is drawn from first.
NewestFirst(i, j) == j < i
OldestFirst(i, j) == i < j

\* Mutation: every pool read is allocated whole.
WholePools(avail, S, amount) == {[i \in S |-> IF amount > 0 THEN avail[i] ELSE 0]}

\* processDebit's allocation loop: min(remaining, what is left) from each pool
\* in turn.  The loop runs while the rest is not 0, so a negative amount is
\* "allocated" to the first pool, which grows.
Allocations(avail, S, amount) ==
    IF amount <= 0
    THEN {[i \in S |-> IF \A j \in S \ {i} : OldestFirst(i, j) THEN amount ELSE 0]}
    ELSE {f \in [S -> 0..amount] :
            /\ \A i \in S : f[i] <= avail[i]
            /\ \A i, j \in S : OldestFirst(j, i) /\ f[i] > 0 => f[j] = avail[j]
            /\ MapThenSumSet(LAMBDA i : f[i], S) = amount}

\* Mutation: the hash of the entry just read is not copied.
RestartChain(r) == Genesis

\* Mutation: the first entry's PreviousHash stays "", as VerifyChain expects.
EmptyFirstHash(r) == IF tail[r] = Genesis THEN EmptyHash ELSE tail[r]

PreviousHash(r) == tail[r]

NewEntry(r, kind, amount, ref, original) ==
    [id |-> born[r], kind |-> kind, amount |-> amount, ref |-> ref,
     prev |-> PreviousHash(r), hashedAt |-> ZeroTime, revertOf |-> original]

\* balanceTx.Update with a *Balance: gorm's Updates skips a zero-valued field,
\* so a balance of 0 is not written.
SetBalance(rows, value) ==
    balances' = [i \in Id |-> IF i \in rows /\ value[i] # 0
                              THEN value[i] ELSE balances[i]]

CommitCredit(r) ==
    LET amount == call[r].amount
        locked == BalanceLocked(r)
    IN  /\ pc[r] = "commit" /\ call[r].kind = "credit"
        /\ entries' = entries \cup {NewEntry(r, "credit", amount, call[r].ref, 0)}
        /\ remaining' = [remaining EXCEPT ![born[r]] = amount]
        /\ \/ /\ locked = {}
              /\ balanceRows' = balanceRows \cup {born[r]}
              /\ balances' = [balances EXCEPT ![born[r]] = amount]
           \/ /\ locked # {}
              /\ SetBalance(locked, [i \in Id |-> seen[r][BalanceRow(i)] + amount])
              /\ UNCHANGED balanceRows
        /\ EndTx(r) /\ UNCHANGED <<clock, unchecked>>

\* remaining = remaining - ? and balance = balance - ? are relative updates.
CommitDebit(r) ==
    LET amount == call[r].amount
        pools == PoolsRead(r)
    IN  /\ pc[r] = "commit" /\ call[r].kind = "debit"
        /\ entries' = entries \cup {NewEntry(r, "debit", amount, call[r].ref, 0)}
        /\ \E f \in Allocations([i \in Id |-> seen[r][PoolRow(i)]], pools, amount) :
              remaining' = [i \in Id |-> IF i \in pools THEN remaining[i] - f[i]
                                         ELSE remaining[i]]
        /\ balances' = [i \in Id |-> IF i \in BalanceLocked(r)
                                     THEN balances[i] - amount ELSE balances[i]]
        /\ EndTx(r) /\ UNCHANGED <<balanceRows, clock, unchecked>>

\* processRevertCredit: copies the original's type and amount whatever its
\* type, gives the new entry the original's transaction id for reference,
\* lowers the balance and leaves the pools alone.
CommitRevert(r) ==
    LET original == EntryOf(tail[r])
    IN  /\ pc[r] = "commit" /\ call[r].kind = "revert"
        /\ entries' = entries \cup
              {NewEntry(r, original.kind, original.amount,
                        TransactionID[tail[r]], tail[r])}
        /\ SetBalance(BalanceLocked(r),
              [i \in Id |-> seen[r][BalanceRow(i)] - original.amount])
        /\ EndTx(r) /\ UNCHANGED <<remaining, balanceRows, clock, unchecked>>

\* The handler dies - its replica crashes, or a nil dereference in another
\* handler takes the process down - and Postgres rolls its transaction back.
Abort(r) == pc[r] # "idle" /\ Rollback(r)

Step(r) ==
    \/ Lock(r) \/ GetLastEntry(r) \/ FindOriginal(r) \/ FindPools(r)
    \/ FindBalance(r) \/ Write(r)
    \/ CommitCredit(r) \/ CommitDebit(r) \/ CommitRevert(r)

\* The account's entries as ListEntries and VerifyChain find them: in no order
\* the query asks for, here in the order they were written.
ListEntries == SetToSortSeq(entries, LAMBDA e, f : e.id < f.id)

\* VerifyChain: each stored hash is the GenerateHash() of its row, and
\* PreviousHash is the hash of the row before, the empty string for the first.
VerifyChain ==
    \A k \in DOMAIN ListEntries :
        LET e == ListEntries[k]
        IN  e.hashedAt = e.id /\ e.prev = IF k = 1 THEN EmptyHash ELSE ListEntries[k - 1].id

\* Every call the bound admits has been served.
Rest == ~Room /\ (\A r \in Request : pc[r] = "idle") /\ UNCHANGED vars

Next ==
    \/ \E r \in Request : Receive(r) \/ Refuse(r) \/ Step(r) \/ Abort(r)
    \/ Rest

Spec == Init /\ [][Next]_vars

\* Handlers are goroutines, so a statement that can run does; Postgres grants a
\* row lock to its waiters in the order they came, so a waiter is not passed
\* over for ever by requests that arrive after it.
FairSpec == Spec /\ \A r \in Request : WF_vars(Step(r)) /\ SF_vars(Lock(r))
----------------------------------------------------------------------------
(***************************************************************************)
(* Properties.                                                             *)
(***************************************************************************)

\* Every variable has its type: rows have the columns services/ledger/model.go
\* declares, a transaction is between two statements of the code.
TypeOK ==
    /\ entries \subseteq Entry
    /\ remaining \in [Id -> Int]
    /\ balanceRows \subseteq Id
    /\ balances \in [Id -> Int]
    /\ clock \in 0..MaxCalls /\ unchecked \subseteq STRING
    /\ pc \in [Request -> PC]
    /\ call \in [Request -> CallRec]
    /\ tail \in [Request -> Id \cup {Genesis}]
    /\ want \in [Request -> SUBSET Row]
    /\ held \in [Request -> SUBSET Row]
    /\ seen \in [Request -> [Row -> Int]]
    /\ born \in [Request -> Id \cup {0}]

\* No interleaving of debits spends points of a credit pool twice: the amounts
\* processDebit subtracts were read under the pools' row locks.
PoolsNeverOverdrawn == \A i \in Id : remaining[i] >= 0

\* ReverEntry may take a balance below zero; AddEntry alone never does,
\* whichever balance row its transactions read.
NoReverts == \A r \in Request : \A c \in Calls[r] : c.kind # "revert"
BalancesNeverOverdrawn == NoReverts => \A i \in Id : balances[i] >= 0

\* The lock discipline: a transaction asks only for rows that come after every
\* row it holds (last entry, then pools by age, then balance).  So the requests
\* that wait for each other form no cycle and Postgres never has to pick a
\* deadlock victim.
LockOrder ==
    \A r \in Request : \A x \in held[r], y \in want[r] : Before(x, y)

\* A row lock has one holder, and what a transaction read under it is still
\* what the table holds when it writes: no lost update.
ReadsStayCurrent ==
    \A r \in Request : \A x \in held[r] :
        /\ \A q \in Request \ {r} : x \notin held[q]
        /\ x.table = "pool" => seen[r][x] = remaining[x.id]
        /\ x.table = "balance" => seen[r][x] = balances[x.id]

\* What every table row and every transaction satisfies between two statements.
RowsOK ==
    /\ balanceRows \subseteq EntryIds
    /\ \A i \in EntryIds : i <= clock
    /\ \A i \in Id : remaining[i] # 0 => i \in EntryIds

LocksOK(r) ==
    /\ pc[r] \in {"idle", "tail"} => held[r] = {} /\ want[r] = {}
    /\ pc[r] = "pools" => \A x \in held[r] \cup want[r] : x.table = "entry"
    /\ pc[r] = "balance" => \A x \in held[r] \cup want[r] : x.table # "balance"
    /\ pc[r] = "commit" => want[r] = {}
    /\ \A x \in held[r] \cup want[r] :
          x.id \in EntryIds /\ (x.table = "balance" => x.id \in balanceRows)
    /\ \A x \in Row : seen[r][x] # 0 => x \in held[r]

BornOK(r) ==
    /\ pc[r] = "commit" <=> born[r] # 0
    /\ born[r] <= clock /\ born[r] \notin EntryIds
    /\ \A q \in Request \ {r} : born[q] = born[r] => born[r] = 0

CallOK(r) ==
    /\ pc[r] = "pools" => call[r].kind = "debit"
    /\ call[r].kind = "revert" /\ pc[r] \in {"balance", "write", "commit"}
          => tail[r] \in EntryIds
    /\ call[r].kind = "credit" /\ pc[r] \in {"write", "commit"} => call[r].amount > 0
    /\ call[r].kind = "debit" /\ pc[r] = "commit"
          => \A i \in BalanceLocked(r) : seen[r][BalanceRow(i)] >= call[r].amount
    /\ NoReverts => call[r].kind # "revert"

\* The strengthening that makes the safety properties above inductive: where
\* each statement of processAddEntry and processRevertCredit leaves the locks,
\* the values read under them and the ids handed out.
LedgerInv ==
    /\ TypeOK /\ RowsOK
    /\ \A r \in Request : LocksOK(r) /\ BornOK(r) /\ CallOK(r)
    /\ LockOrder /\ ReadsStayCurrent
    /\ PoolsNeverOverdrawn /\ BalancesNeverOverdrawn

Total(f) == MapThenSumSet(LAMBDA i : f[i], Id)
Signed(e) == IF e.kind = "credit" THEN e.amount ELSE -e.amount
Booked(E) == MapThenSumSet(Signed, E)

\* What is left in the pools is exactly what the entries AddEntry wrote say was
\* earned less what was spent, even when two first credits race.
EntriesExplainPools ==
    Total(remaining) = Booked({e \in entries : e.revertOf = 0})

\* Without reverts the balance rows hold what the pools hold: the two books
\* processDebit consults never drift apart.
BooksAgree == NoReverts => Total(balances) = Total(remaining)

\* AddEntry books a reference that an entry has already only when its look-up
\* failed: a client may send its call again.  (A revert looks nothing up, and its
\* entry repeats the transaction id of the original as its reference.)
ReferenceOnce ==
    \A e, f \in entries :
        e.ref = f.ref /\ e.id < f.id
            => e.ref = FreshRef \/ f.revertOf # 0 \/ f.ref \in unchecked

\* An account has one balance row.
OneBalanceRow == Cardinality(balanceRows) <= 1

\* The hash chain does not fork: each entry carries the hash of an earlier one,
\* the first GENESIS, and an entry of AddEntry that of the entry just before it,
\* were it a revert (whose own hash continues the entry it reverts).
ChainLinear ==
    \A e \in entries :
        /\ e.prev \in EntryIds \cup {Genesis} /\ e.prev < e.id
        /\ e.revertOf = 0 => \A f \in entries : ~(e.prev < f.id /\ f.id < e.id)

\* Points are spent oldest first: a pool is drawn from only when every older
\* pool is drained by the same debit.
OldestPointsFirst ==
    [][\A i, j \in Id :
          j < i /\ remaining'[i] < remaining[i] => remaining'[j] = 0]_vars

\* Every call is answered, or its replica dies: no request waits for row locks
\* for ever.
EveryCallEnds == \A r \in Request : pc[r] # "idle" ~> pc[r] = "idle"

\* VerifyChain reports the ledger valid, as TestVerifyChainValid has it for a
\* credit followed by a debit.
ChainVerifies == VerifyChain

\* The account all of this implements, seen through the pools.
Account == INSTANCE PointsAccount WITH
    points <- Total(remaining),
    Amount <- UNION {{c.amount : c \in Calls[r]} : r \in Request}
AccountSpec == Account!Spec
=============================================================================
