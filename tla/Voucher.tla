------------------------------ MODULE Voucher ------------------------------
(***************************************************************************)
(* Voucher stock (services/voucher) of one campaign.                       *)
(*                                                                         *)
(* A Handler is a gRPC handler of some replica.  Unlike the ledger it opens *)
(* no transaction: each statement commits by itself, without row locks, so *)
(* handlers interleave between any two statements.  Some statements' errors *)
(* are returned to the caller, others are ignored.                         *)
(***************************************************************************)
EXTENDS Integers, FiniteSets, SequencesExt

CONSTANTS
    Handler,    \* the handlers that may run at the same time
    User, Nobody,
    Code,       \* voucher codes
    Calls,      \* the requests a handler may receive
    MaxCalls,   \* bound: how many requests are served
    MaxFaults   \* bound: how many statements fail or handlers die

Call == [op : {"create", "import", "issue", "redeem"}, user : User \cup {Nobody},
         codes : Seq(Code), count : Nat]

\* IssueVoucher and RedeemVoucher refuse a request that names no user.
ASSUME VoucherAssumption ==
    /\ Nobody \notin User
    /\ Calls \subseteq Call
    /\ \A c \in Calls : c.op \in {"issue", "redeem"} => c.user \in User
    /\ MaxCalls \in Nat /\ MaxFaults \in Nat

VARIABLES
    pools,      \* voucher_pools by age: the stock counters of each row
    items,      \* voucher_pool_items by item_id: pool, code and issued_to
    issuances,  \* voucher_issuances: the campaign's rows
    keyUsed,    \* a voucher_issuances row, of any campaign, has an empty key
    pc,         \* the next statement of each handler
    call,       \* the request it serves
    pool,       \* the pool row it read or created
    batch,      \* the item rows it read, by position in items
    unsaved,    \* those of them it has not written back yet
    served,     \* how many requests arrived
    faults,     \* how many faults happened
    contested,  \* history: items two handlers had read and not yet written back
    killed      \* history: a handler died with a panic of another

tables == <<pools, items, issuances, keyUsed>>
vars == <<tables, pc, call, pool, batch, unsaved, served, faults, contested, killed>>

PC == {"idle", "pool", "items", "total", "remaining", "stock", "find",
       "save", "issuance", "take"}
NoCall == [op |-> "issue", user |-> Nobody, codes |-> <<>>, count |-> 0]

Init ==
    /\ pools = <<>> /\ items = <<>> /\ issuances = <<>> /\ keyUsed = FALSE
    /\ pc = [h \in Handler |-> "idle"]
    /\ call = [h \in Handler |-> NoCall]
    /\ pool = [h \in Handler |-> 0]
    /\ batch = [h \in Handler |-> {}]
    /\ unsaved = [h \in Handler |-> {}]
    /\ served = 0 /\ faults = 0 /\ contested = {} /\ killed = FALSE

----------------------------------------------------------------------------
Goto(h, next) == pc' = [pc EXCEPT ![h] = next]

\* Nothing is left of what the handlers of H were doing.
End(H) ==
    /\ pc' = [h \in Handler |-> IF h \in H THEN "idle" ELSE pc[h]]
    /\ call' = [h \in Handler |-> IF h \in H THEN NoCall ELSE call[h]]
    /\ pool' = [h \in Handler |-> IF h \in H THEN 0 ELSE pool[h]]
    /\ batch' = [h \in Handler |-> IF h \in H THEN {} ELSE batch[h]]
    /\ unsaved' = [h \in Handler |-> IF h \in H THEN {} ELSE unsaved[h]]
    /\ UNCHANGED contested

\* The handler answers, with a result or with an error.
Return(h) == End({h})

\* The handler goes on with the item rows of S, and with pool p.
Select(h, S, p) ==
    /\ batch' = [batch EXCEPT ![h] = S]
    /\ unsaved' = [unsaved EXCEPT ![h] = S]
    /\ pool' = [pool EXCEPT ![h] = p]
    /\ contested' = contested \cup {i \in S : \E q \in Handler \ {h} : i \in unsaved[q]}
    /\ Goto(h, "save") /\ UNCHANGED call

Fault == faults < MaxFaults /\ faults' = faults + 1

\* A statement failed whose error is returned, or after which there is nothing
\* left to do, or the replica died.
Fail(h) ==
    /\ pc[h] # "idle" /\ Fault
    /\ Return(h) /\ UNCHANGED <<tables, served>>

FirstStatement == [create |-> "pool", import |-> "items", issue |-> "find",
                   redeem |-> "find"]

\* ImportVoucherPoolItems is given the id of a pool that exists.
Receive(h) ==
    /\ pc[h] = "idle" /\ served < MaxCalls
    /\ \E c \in Calls :
          /\ call' = [call EXCEPT ![h] = c]
          /\ Goto(h, FirstStatement[c.op])
          /\ IF c.op = "import"
             THEN \E p \in DOMAIN pools : pool' = [pool EXCEPT ![h] = p]
             ELSE UNCHANGED pool
    /\ served' = served + 1
    /\ UNCHANGED <<tables, batch, unsaved, faults, contested>>

\* Mutation: the new pool's id is not handed on to generateVoucherPoolItems.
CreateNamelessPool(h) ==
    /\ pc[h] = "pool"
    /\ pools' = Append(pools, [total |-> 0, remaining |-> 0])
    /\ IF call[h].codes = <<>>
       THEN Return(h)
       ELSE Goto(h, "items") /\ UNCHANGED <<call, pool, batch, unsaved, contested>>
    /\ UNCHANGED <<items, issuances, keyUsed, served, faults>>

\* CreateVoucherPool, its campaign checked: the pool row, without stock.  In
\* mode GENERATED the items follow.
CreatePool(h) ==
    /\ pc[h] = "pool"
    /\ pools' = Append(pools, [total |-> 0, remaining |-> 0])
    /\ IF call[h].codes = <<>>
       THEN Return(h)
       ELSE /\ Goto(h, "items")
            /\ pool' = [pool EXCEPT ![h] = Len(pools) + 1]
            /\ UNCHANGED <<call, batch, unsaved, contested>>
    /\ UNCHANGED <<items, issuances, keyUsed, served, faults>>

\* Mutation: the codes are inserted one by one, and the first that fails ends
\* the loop without an error.
InsertSome(h) ==
    /\ pc[h] = "items"
    /\ \E n \in 0..Len(call[h].codes) :
          items' = items \o [k \in 1..n |->
             [pool |-> pool[h], code |-> call[h].codes[k], to |-> Nobody]]
    /\ Goto(h, IF call[h].op = "create" THEN "stock" ELSE "total")
    /\ UNCHANGED <<pools, issuances, keyUsed, call, pool, batch, unsaved>>
    /\ UNCHANGED <<served, faults, contested>>

\* generateVoucherPoolItems and ImportVoucherPoolItems insert the item rows in
\* one statement.
InsertItems(h) ==
    /\ pc[h] = "items"
    /\ items' = items \o [k \in 1..Len(call[h].codes) |->
          [pool |-> pool[h], code |-> call[h].codes[k], to |-> Nobody]]
    /\ Goto(h, IF call[h].op = "create" THEN "stock" ELSE "total")
    /\ UNCHANGED <<pools, issuances, keyUsed, call, pool, batch, unsaved>>
    /\ UNCHANGED <<served, faults, contested>>

Added(h) == Len(call[h].codes)

\* generateVoucherPoolItems raises both counters in one UPDATE.
AddStock(h) ==
    /\ pc[h] = "stock"
    /\ pools' = [pools EXCEPT ![pool[h]] = [total |-> @.total + Added(h),
                                            remaining |-> @.remaining + Added(h)]]
    /\ Return(h)
    /\ UNCHANGED <<items, issuances, keyUsed, served, faults>>

\* ImportVoucherPoolItems chains two Updates, hence two UPDATEs.
AddTotal(h) ==
    /\ pc[h] = "total"
    /\ pools' = [pools EXCEPT ![pool[h]].total = @ + Added(h)]
    /\ Goto(h, "remaining")
    /\ UNCHANGED <<items, issuances, keyUsed, call, pool, batch, unsaved>>
    /\ UNCHANGED <<served, faults, contested>>

AddRemaining(h) ==
    /\ pc[h] = "remaining"
    /\ pools' = [pools EXCEPT ![pool[h]].remaining = @ + Added(h)]
    /\ Return(h)
    /\ UNCHANGED <<items, issuances, keyUsed, served, faults>>

----------------------------------------------------------------------------
\* The items of a pool, with a limit it does not reach.  Mutation of Unissued:
\* is_issued is left out of the query.
ListVoucherPoolItems(p) == {i \in DOMAIN items : items[i].pool = p}
Unissued(p) == {i \in ListVoucherPoolItems(p) : items[i].to = Nobody}

\* What a query for at most n of the pool's unissued items may return.
Stock(p, n) ==
    LET found == IF n < Cardinality(Unissued(p)) THEN n ELSE Cardinality(Unissued(p))
    IN  kSubset(found, Unissued(p))

\* IssueVoucher takes from the campaign's first pool.
FindStock(h) ==
    /\ pc[h] = "find" /\ call[h].op = "issue"
    /\ \E S \in Stock(1, call[h].count) :
          IF S = {} THEN Return(h) ELSE Select(h, S, 1)
    /\ UNCHANGED <<tables, served, faults>>

\* Mutation: the owner of the voucher is not compared with the caller.
AnyoneMay(i, user) == i \in DOMAIN items
MayRedeem(i, user) == items[i].to \in {Nobody, user}

\* The first item with the code's hash, unless it was issued to another user.
Redeemable(c, user) ==
    {i \in DOMAIN items :
        /\ items[i].code = c /\ MayRedeem(i, user)
        /\ \A j \in DOMAIN items : items[j].code = c => i <= j}

\* RedeemVoucher: nothing asks whether the item was issued, or redeemed, before.
FindVoucher(h) ==
    LET found == Redeemable(call[h].codes[1], call[h].user)
    IN  /\ pc[h] = "find" /\ call[h].op = "redeem"
        /\ IF found = {} THEN Return(h) ELSE Select(h, found, 0)
        /\ UNCHANGED <<tables, served, faults>>

\* db.Save writes the whole row, whatever it has become since it was read; its
\* error is ignored.
SaveItem(h) ==
    /\ pc[h] = "save"
    /\ \E i \in unsaved[h] :
          /\ \/ items' = [items EXCEPT ![i].to = call[h].user] /\ UNCHANGED faults
             \/ Fault /\ UNCHANGED items
          /\ unsaved' = [unsaved EXCEPT ![h] = @ \ {i}]
          /\ IF unsaved[h] = {i} THEN Goto(h, "issuance") ELSE UNCHANGED pc
    /\ UNCHANGED <<pools, issuances, keyUsed, call, pool, batch, served, contested>>

Issuance(h, i) ==
    [item |-> i, user |-> call[h].user,
     status |-> IF call[h].op = "issue" THEN "ISSUED" ELSE "REDEEMED"]

\* The issuances are inserted in one statement, with an empty idempotency_key,
\* which nobody sets and of which the unique index ux_tenant_idempotent, on that
\* column alone, admits one in the table: only the first issuance, by itself,
\* goes in.  Refused, IssueVoucher answers an error and RedeemVoucher, which
\* ignores it, that the voucher is redeemed; the items stay as they were saved.
CreateIssuances(h) ==
    /\ pc[h] = "issuance"
    /\ \/ /\ ~keyUsed /\ keyUsed' = TRUE
          /\ \E i \in batch[h] :
                batch[h] = {i} /\ issuances' = Append(issuances, Issuance(h, i))
          /\ IF call[h].op = "issue"
             THEN Goto(h, "take") /\ UNCHANGED <<call, pool, batch, unsaved, contested>>
             ELSE Return(h)
       \/ /\ keyUsed \/ Cardinality(batch[h]) # 1
          /\ Return(h) /\ UNCHANGED <<issuances, keyUsed>>
    /\ UNCHANGED <<pools, items, served, faults>>

\* Another campaign's voucher, of whichever tenant, takes the empty key.
IssueElsewhere ==
    /\ ~keyUsed /\ keyUsed' = TRUE
    /\ UNCHANGED <<pools, items, issuances, pc, call, pool, batch, unsaved>>
    /\ UNCHANGED <<served, faults, contested, killed>>

\* Mutation: the stock is lowered by what was asked for, not by what was found.
TakeRequested(h) ==
    /\ pc[h] = "take"
    /\ pools' = [pools EXCEPT ![pool[h]].remaining = @ - call[h].count]
    /\ Return(h)
    /\ UNCHANGED <<items, issuances, keyUsed, served, faults>>

\* remaining_stock = remaining_stock - len(items); the error is ignored, which
\* leaves what Fail leaves.
TakeStock(h) ==
    /\ pc[h] = "take"
    /\ pools' = [pools EXCEPT ![pool[h]].remaining = @ - Cardinality(batch[h])]
    /\ Return(h)
    /\ UNCHANGED <<items, issuances, keyUsed, served, faults>>

----------------------------------------------------------------------------
\* ListMyVouchers reads the redemption time of every voucher of the user, and an
\* issued one has none: the panic, which nothing recovers, ends the process and
\* with it the handlers that run there, any of those that run.
ListMyVouchers(user) ==
    /\ served < MaxCalls /\ served' = served + 1
    /\ IF \E k \in DOMAIN issuances :
             issuances[k].user = user /\ issuances[k].status = "ISSUED"
       THEN \E H \in SUBSET {h \in Handler : pc[h] # "idle"} :
                End(H) /\ killed' = (killed \/ H # {})
       ELSE UNCHANGED <<pc, call, pool, batch, unsaved, contested, killed>>
    /\ UNCHANGED <<tables, faults>>

Step(h) ==
    \/ CreatePool(h) \/ InsertItems(h) \/ AddStock(h) \/ AddTotal(h)
    \/ AddRemaining(h) \/ FindStock(h) \/ FindVoucher(h) \/ SaveItem(h)
    \/ CreateIssuances(h) \/ TakeStock(h)

\* Every request the bound admits has been served.
Rest ==
    /\ \A h \in Handler : pc[h] = "idle"
    /\ served = MaxCalls /\ UNCHANGED vars

Next ==
    \/ \E h \in Handler : (Receive(h) \/ Step(h) \/ Fail(h)) /\ UNCHANGED killed
    \/ IssueElsewhere
    \/ \E user \in User : ListMyVouchers(user)
    \/ Rest

Spec == Init /\ [][Next]_vars
----------------------------------------------------------------------------
(***************************************************************************)
(* Properties.                                                             *)
(***************************************************************************)

\* Every variable has its type: rows as services/voucher/model.go declares.
TypeOK ==
    /\ pools \in Seq([total : Nat, remaining : Int])
    /\ items \in Seq([pool : DOMAIN pools, code : Code, to : User \cup {Nobody}])
    /\ issuances \in Seq([item : DOMAIN items, user : User,
                          status : {"ISSUED", "REDEEMED"}])
    /\ pc \in [Handler -> PC]
    /\ call \in [Handler -> Calls \cup {NoCall}]
    /\ pool \in [Handler -> {0} \cup DOMAIN pools]
    /\ batch \in [Handler -> SUBSET DOMAIN items]
    /\ unsaved \in [Handler -> SUBSET DOMAIN items]
    /\ served \in 0..MaxCalls /\ faults \in 0..MaxFaults
    /\ contested \in SUBSET DOMAIN items
    /\ {keyUsed, killed} \subseteq BOOLEAN

\* However handlers interleave, fail, die or panic, the stock counters never
\* claim an item that was not inserted: they are raised after the items, total
\* first.
StockBacked ==
    \A p \in DOMAIN pools :
        /\ pools[p].remaining <= pools[p].total
        /\ pools[p].total <= Cardinality(ListVoucherPoolItems(p))

IssuedFrom(p) == {k \in DOMAIN issuances :
                     issuances[k].status = "ISSUED" /\ items[issuances[k].item].pool = p}

\* Once every handler has answered, without a fault or a panic, the counters
\* account for every item inserted and every issuance of IssueVoucher recorded.
\* A voucher taken whose issuance the index refused is not among them: its item
\* is marked as issued, and the stock still counts it.
StockBalances ==
    faults = 0 /\ ~killed /\ (\A h \in Handler : pc[h] = "idle") =>
        \A p \in DOMAIN pools :
            /\ pools[p].total = Cardinality(ListVoucherPoolItems(p))
            /\ pools[p].remaining = pools[p].total - Cardinality(IssuedFrom(p))

\* A voucher that belongs to a user is given to another one only when both calls
\* had read it before either wrote it back, whatever fails or dies meanwhile:
\* IssueVoucher and RedeemVoucher check the owner they read, and write the row
\* later.
OwnerKept ==
    [][\A i \in DOMAIN items :
          items[i].to # Nobody /\ items'[i].to # items[i].to => i \in contested]_vars

\* Unless a write was lost or two calls had the voucher at once, an issuance
\* names the user its item belongs to, for as long as both rows are there.
IssuanceTellsOwner ==
    \A k \in DOMAIN issuances :
        faults = 0 /\ issuances[k].item \notin contested
            => items[issuances[k].item].to = issuances[k].user
=============================================================================
