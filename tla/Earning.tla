------------------------------ MODULE Earning ------------------------------
(***************************************************************************)
(* Earning and redeeming points: the orchestrator's ProcessEarning and the *)
(* loyalty service's AddPoint and Redemption, for one member, over the     *)
(* ledger that PointsAccount specifies and Ledger implements.              *)
(*                                                                         *)
(* A Handler is one request and the chain of gRPC calls made for it:       *)
(* orchestrator -> loyalty -> ledger.  Each service has a database of its  *)
(* own, so a request is a saga without compensation: what was booked stays *)
(* booked when a later step fails.  A client may send a request again.     *)
(*                                                                         *)
(* A caller that dies, or loses its connection, does not take the chain    *)
(* with it: the services it called go on, and answer nobody.               *)
(***************************************************************************)
EXTENDS Integers, Sequences

CONSTANTS
    Handler,    \* the requests that may run at the same time
    Calls,      \* what a request may ask for
    NoRef,      \* reference_id ""
    MaxCalls,   \* bound: how many requests arrive
    MaxFaults   \* bound: how many calls or statements fail

RewardType == {"POINT", "VOUCHER", "NOTIFY"}
Reward == [type : RewardType, points : Int]

\* An earning event with the actions of the rules it matched, or a redemption.
Call == [op : {"earn", "redeem"}, ref : STRING, rewards : Seq(Reward)]

ASSUME EarningAssumption ==
    /\ NoRef \in STRING
    /\ Calls \subseteq Call
    /\ MaxCalls \in Nat /\ MaxFaults \in Nat

Required == 100   \* what a redemption costs

VARIABLES
    points,     \* the ledger's account
    entries,    \* ledger_entries, by id
    txns,       \* point_transactions, oldest first
    pc,         \* the next step of each request
    call,       \* the request
    next,       \* the reward ProcessEarning's loop is at
    entry,      \* the ledger entry AddEntry booked for it
    balance,    \* the balance read after the credit
    granted,    \* no call failed so far
    gone,       \* its caller is gone: nobody waits for the end of the chain
    answers,    \* what clients were told
    served,     \* how many requests arrived
    faults,     \* how many faults happened
    overlap,    \* history: two requests were at work at the same time
    doubtful    \* history: references that two of them had, or whose look-up failed

tables == <<points, entries, txns>>
local == <<call, next, entry, balance, granted, gone>>
history == <<overlap, doubtful>>
vars == <<tables, pc, local, answers, served, faults, history>>

\* "nil": GetBalance found no row and is about to dereference it.
PC == {"idle", "reward", "check", "nil", "lookup", "book", "reply", "balance",
       "record", "total", "answer"}

\* A service further down is at work for the request.
Calling == PC \ {"idle", "reward", "answer"}
InLedger == {"check", "nil", "lookup", "book", "reply", "balance", "total"}
InAddPoint == {"lookup", "book", "reply", "balance", "record"}

NoCall == [op |-> "redeem", ref |-> NoRef, rewards |-> <<>>]

Account == INSTANCE PointsAccount WITH Amount <- Int

Init ==
    /\ Account!Init /\ entries = <<>> /\ txns = <<>>
    /\ pc = [h \in Handler |-> "idle"]
    /\ call = [h \in Handler |-> NoCall]
    /\ next = [h \in Handler |-> 1]
    /\ entry = [h \in Handler |-> 0]
    /\ balance = [h \in Handler |-> 0]
    /\ granted = [h \in Handler |-> TRUE]
    /\ gone = [h \in Handler |-> FALSE]
    /\ answers = <<>>
    /\ served = 0 /\ faults = 0
    /\ overlap = FALSE /\ doubtful = {}

----------------------------------------------------------------------------
Goto(h, step) == pc' = [pc EXCEPT ![h] = step]
Fault == faults < MaxFaults /\ faults' = faults + 1

\* The requests of H end; nothing of them is left in memory.
Clear(H) ==
    /\ call' = [h \in Handler |-> IF h \in H THEN NoCall ELSE call[h]]
    /\ next' = [h \in Handler |-> IF h \in H THEN 1 ELSE next[h]]
    /\ entry' = [h \in Handler |-> IF h \in H THEN 0 ELSE entry[h]]
    /\ balance' = [h \in Handler |-> IF h \in H THEN 0 ELSE balance[h]]
    /\ granted' = [h \in Handler |-> IF h \in H THEN TRUE ELSE granted[h]]

Drop(H) ==
    /\ pc' = [h \in Handler |-> IF h \in H THEN "idle" ELSE pc[h]]
    /\ Clear(H)

\* The callers of H die.  Where a service further down is at work, it goes on.
Abandon(H) ==
    /\ Drop({h \in H : pc[h] \notin Calling})
    /\ gone' = [h \in Handler |-> (h \in H /\ pc[h] \in Calling) \/ (h \notin H /\ gone[h])]

Running == {h \in Handler : pc[h] # "idle"}

Receive(h) ==
    /\ pc[h] = "idle" /\ served < MaxCalls
    /\ \E c \in Calls :
          /\ call' = [call EXCEPT ![h] = c]
          /\ Goto(h, IF c.op = "earn" THEN "reward" ELSE "check")
          /\ doubtful' = doubtful \cup ({c.ref} \cap {call[q].ref : q \in Running})
    /\ served' = served + 1
    /\ overlap' = (overlap \/ Running # {})
    /\ UNCHANGED <<tables, next, entry, balance, granted, gone, answers, faults>>

CurrentReward(h) == call[h].rewards[next[h]]
Amount(h) == IF call[h].op = "earn" THEN CurrentReward(h).points ELSE Required

\* A failure that is reported: ProcessEarning marks the reward FAILED and goes on
\* with the next, Redemption returns the error.  AddPoint does without a balance,
\* and ProcessEarning only logs it.
Reported(h) == call[h].op = "redeem" \/ pc[h] \in InAddPoint \ {"balance"}

AfterFailure(h) ==
    IF pc[h] = "balance" THEN "record"
    ELSE IF call[h].op = "earn" /\ Reported(h) THEN "reward" ELSE "answer"

\* The calls of H fail.
FailCalls(H) ==
    /\ pc' = [h \in Handler |-> IF h \in H THEN AfterFailure(h) ELSE pc[h]]
    /\ granted' = [h \in Handler |-> granted[h] /\ ~(h \in H /\ Reported(h))]
    /\ next' = [h \in Handler |-> IF h \in H /\ Reported(h) /\ call[h].op = "earn"
                                  THEN next[h] + 1 ELSE next[h]]
    /\ balance' = [h \in Handler |-> IF h \in H THEN 0 ELSE balance[h]]
    /\ UNCHANGED <<call, entry, gone>>

\* ProcessEarning's loop over the actions of the matched rules.
AtReward(h, type) ==
    /\ pc[h] = "reward" /\ ~gone[h] /\ next[h] <= Len(call[h].rewards)
    /\ CurrentReward(h).type = type

RewardPoint(h) ==
    /\ AtReward(h, "POINT")
    /\ Goto(h, "lookup")
    /\ UNCHANGED <<tables, local, answers, served, faults>>

\* NOTIFY is only reported, as PENDING.
Notify(h) ==
    /\ AtReward(h, "NOTIFY")
    /\ next' = [next EXCEPT ![h] = @ + 1]
    /\ UNCHANGED <<tables, pc, call, entry, balance, granted, gone, answers, served,
                   faults>>

\* cmd/orchestrator provides no voucher client: the call on the nil interface
\* panics, and every event the orchestrator process is at work on dies with it.
RewardVoucher(h) ==
    /\ AtReward(h, "VOUCHER")
    /\ Abandon({q \in Handler : call[q].op = "earn"})
    /\ UNCHANGED <<tables, answers, served, faults>>

EndOfRewards(h) ==
    /\ pc[h] = "reward" /\ ~gone[h] /\ next[h] > Len(call[h].rewards)
    /\ Goto(h, "total")
    /\ UNCHANGED <<tables, local, answers, served, faults>>

----------------------------------------------------------------------------
\* GetBalance's SELECT finds no balance row before the account's first entry.
NoBalanceRow == entries = <<>>

\* Redemption asks for the balance first.
CheckBalance(h) ==
    /\ pc[h] = "check"
    /\ \/ NoBalanceRow /\ Goto(h, "nil") /\ UNCHANGED local
       \/ ~NoBalanceRow /\ points < Required /\ FailCalls({h})
       \/ /\ ~NoBalanceRow /\ points >= Required
          /\ Goto(h, "lookup") /\ UNCHANGED local
    /\ UNCHANGED <<tables, answers, served, faults>>

\* ProcessEarning logs the balance before it answers.
LogBalance(h) ==
    /\ pc[h] = "total"
    /\ Goto(h, IF NoBalanceRow THEN "nil" ELSE "answer")
    /\ UNCHANGED <<tables, local, answers, served, faults>>

\* GetBalance dereferences the row it did not find.  The panic ends this ledger
\* process, and with it every call this process - one of the replicas - is at
\* work on, wherever it is by now.
Panic(h) ==
    /\ pc[h] = "nil"
    /\ \E H \in SUBSET {q \in Handler : pc[q] \in InLedger} : FailCalls(H \cup {h})
    /\ UNCHANGED <<tables, answers, served, faults>>

\* Mutation: the look-up by reference is left out.
ReferenceUnchecked(ref) == ref = NoRef /\ entries # <<>>

\* AddEntry's look-up, before its transaction.
ReferenceUsed(ref) ==
    \E i \in DOMAIN entries : ref = NoRef \/ entries[i].ref = ref

\* Mutation: a reference that is used counts as booked by this very request.
LookUpIdempotent(h) ==
    /\ pc[h] = "lookup"
    /\ IF \E i \in DOMAIN entries : entries[i].ref = call[h].ref
       THEN /\ entry' = [entry EXCEPT ![h] =
                   CHOOSE i \in DOMAIN entries : entries[i].ref = call[h].ref]
            /\ Goto(h, "record") /\ UNCHANGED <<call, next, balance, granted, gone>>
       ELSE Goto(h, "book") /\ UNCHANGED local
    /\ UNCHANGED <<tables, answers, served, faults>>

LookUp(h) ==
    /\ pc[h] = "lookup"
    /\ IF ReferenceUsed(call[h].ref) THEN FailCalls({h})
       ELSE Goto(h, "book") /\ UNCHANGED local
    /\ UNCHANGED <<tables, answers, served, faults>>

\* The look-up's error is ignored: a reference that is used goes through.
LookUpFails(h) ==
    /\ pc[h] = "lookup" /\ ReferenceUsed(call[h].ref) /\ Fault
    /\ Goto(h, "book")
    /\ doubtful' = doubtful \cup {call[h].ref}
    /\ UNCHANGED <<tables, local, answers, served, overlap>>

Kind(h) == IF call[h].op = "earn" THEN "CREDIT" ELSE "DEBIT"

\* Mutation: the debit relies on Redemption's own look at the balance.
AddEntryUncovered(h) ==
    /\ IF call[h].op = "earn" THEN Account!Credit(Amount(h))
       ELSE points' = points - Amount(h)
    /\ entries' = Append(entries, [kind |-> Kind(h), ref |-> call[h].ref,
                                   amount |-> Amount(h)])

\* AddEntry's transaction, as the account's specification has it.
AddEntry(h) ==
    /\ IF call[h].op = "earn" THEN Account!Credit(Amount(h))
       ELSE Account!Debit(Amount(h))
    /\ entries' = Append(entries, [kind |-> Kind(h), ref |-> call[h].ref,
                                   amount |-> Amount(h)])

EntryRefused(h) ==
    IF call[h].op = "earn" THEN Amount(h) <= 0
    ELSE points <= 0 \/ points < Amount(h)

Book(h) ==
    /\ pc[h] = "book"
    /\ \/ /\ AddEntry(h)
          /\ entry' = [entry EXCEPT ![h] = Len(entries) + 1]
          /\ Goto(h, "reply")
          /\ UNCHANGED <<call, next, balance, granted, gone>>
       \/ EntryRefused(h) /\ FailCalls({h}) /\ UNCHANGED <<points, entries>>
    /\ UNCHANGED <<txns, answers, served, faults>>

\* AddEntry's reply.  (The id in it, which AddPoint stores as the reward's, is
\* read back by reference alone; nothing reads it from there.)
Reply(h) ==
    /\ pc[h] = "reply"
    /\ Goto(h, IF call[h].op = "earn" THEN "balance" ELSE "record")
    /\ UNCHANGED <<tables, local, answers, served, faults>>

\* Mutation: the balance is read before the credit is booked.
BalanceBefore(h) == points - Amount(h)
BalanceNow(h) == points

\* AddPoint reads the balance of the account.
ReadBalance(h) ==
    /\ pc[h] = "balance"
    /\ balance' = [balance EXCEPT ![h] = BalanceNow(h)]
    /\ Goto(h, "record")
    /\ UNCHANGED <<tables, call, next, entry, granted, gone, answers, served, faults>>

\* The row of point_transactions.  A redemption's PointDelta is positive too.
Transaction(h) ==
    [entry |-> entry[h], kind |-> Kind(h), ref |-> call[h].ref,
     amount |-> Amount(h), balanceAfter |-> balance[h]]

\* AddPoint goes back to ProcessEarning's loop, Redemption answers.
Proceed(h) ==
    IF call[h].op = "earn"
    THEN /\ Goto(h, "reward") /\ next' = [next EXCEPT ![h] = @ + 1]
         /\ UNCHANGED <<call, entry, balance, granted, gone>>
    ELSE Goto(h, "answer") /\ UNCHANGED local

\* Mutation: a redemption leaves no row.
RecordCredits(h) ==
    /\ pc[h] = "record"
    /\ txns' = IF call[h].op = "earn" THEN Append(txns, Transaction(h)) ELSE txns
    /\ Proceed(h)
    /\ UNCHANGED <<points, entries, answers, served, faults>>

\* The transaction's row is inserted and committed; only the reply to COMMIT may
\* be lost.
Record(h) ==
    /\ pc[h] = "record"
    /\ txns' = Append(txns, Transaction(h))
    /\ \/ Proceed(h) /\ UNCHANGED faults
       \/ Fault /\ FailCalls({h})
    /\ UNCHANGED <<points, entries, answers, served>>

\* ProcessEarning answers OverallStatus SUCCESS whatever became of the rewards.
Answer(h) ==
    /\ pc[h] = "answer" /\ ~gone[h]
    /\ answers' = Append(answers,
          [call |-> call[h], success |-> call[h].op = "earn" \/ granted[h],
           granted |-> granted[h]])
    /\ Drop({h})
    /\ UNCHANGED <<tables, gone, served, faults>>

----------------------------------------------------------------------------
\* A call or a statement fails and does nothing, or its reply is lost.
CallFails(h) ==
    /\ pc[h] \in Calling /\ Fault
    /\ FailCalls({h})
    /\ UNCHANGED <<tables, answers, served>>

\* A call fails for its caller alone: the service it called goes on, here as q.
\* (At "balance" this is what it is at "reply", just before.)
Orphan(h, q) ==
    /\ pc[h] \in Calling \ {"balance"} /\ pc[q] = "idle" /\ Fault
    /\ pc' = [pc EXCEPT ![h] = AfterFailure(h), ![q] = pc[h]]
    /\ call' = [call EXCEPT ![q] = call[h]]
    /\ next' = [next EXCEPT ![q] = next[h],
                   ![h] = IF Reported(h) /\ call[h].op = "earn" THEN @ + 1 ELSE @]
    /\ entry' = [entry EXCEPT ![q] = entry[h]]
    /\ balance' = [balance EXCEPT ![q] = balance[h]]
    /\ granted' = [granted EXCEPT ![q] = FALSE, ![h] = @ /\ ~Reported(h)]
    /\ gone' = [gone EXCEPT ![q] = TRUE]
    /\ overlap' = TRUE /\ doubtful' = doubtful \cup {call[h].ref}
    /\ UNCHANGED <<tables, answers, served>>

\* A replica dies with the request; its client gets no answer.
Die(h) ==
    /\ pc[h] # "idle" /\ ~gone[h] /\ Fault
    /\ Abandon({h})
    /\ UNCHANGED <<tables, answers, served>>

\* What goes on for nobody ends, at the latest where its caller would go on.
Vanish(h) ==
    /\ gone[h]
    /\ Drop({h}) /\ gone' = [gone EXCEPT ![h] = FALSE]
    /\ UNCHANGED <<tables, answers, served, faults>>

Step(h) ==
    \/ RewardPoint(h) \/ Notify(h) \/ RewardVoucher(h) \/ EndOfRewards(h)
    \/ CheckBalance(h) \/ LogBalance(h) \/ Panic(h) \/ LookUp(h) \/ Book(h)
    \/ Reply(h) \/ ReadBalance(h) \/ Record(h) \/ Answer(h)
    \/ CallFails(h) \/ Die(h) \/ Vanish(h)

\* Every request the bound admits has been answered.
Rest ==
    /\ \A h \in Handler : pc[h] = "idle"
    /\ served = MaxCalls /\ UNCHANGED vars

Next ==
    \/ \E h \in Handler : \/ Receive(h) \/ LookUpFails(h)
                          \/ Step(h) /\ UNCHANGED history
                          \/ \E q \in Handler : Orphan(h, q)
    \/ Rest

Spec == Init /\ [][Next]_vars
----------------------------------------------------------------------------
(***************************************************************************)
(* Properties.                                                             *)
(***************************************************************************)

LedgerEntry == [kind : {"CREDIT", "DEBIT"}, ref : STRING, amount : Int]
PointTransaction == [entry : Nat, kind : {"CREDIT", "DEBIT"}, ref : STRING,
                     amount : Int, balanceAfter : Nat]
Response == [call : Call, success : BOOLEAN, granted : BOOLEAN]

\* Every variable of the program has its type (histories are none): rows as
\* model.go of the two services declares, and no balance below zero, however
\* redemptions race for it.
TypeOK ==
    /\ points \in Nat
    /\ entries \in Seq(LedgerEntry)
    /\ txns \in Seq(PointTransaction)
    /\ pc \in [Handler -> PC]
    /\ call \in [Handler -> Call]
    /\ next \in [Handler -> Nat]
    /\ entry \in [Handler -> Nat]
    /\ balance \in [Handler -> Nat]
    /\ granted \in [Handler -> BOOLEAN]
    /\ gone \in [Handler -> BOOLEAN]
    /\ answers \in Seq(Response)
    /\ served \in Nat /\ faults \in Nat

\* What the row and the entry it records have in common.
Records(t, e) == t.kind = e.kind /\ t.ref = e.ref /\ t.amount = e.amount

\* However requests interleave, fail or die, a point transaction records a
\* movement the ledger has booked, and each movement at most once.
TransactionsBooked ==
    /\ \A k \in DOMAIN txns :
          txns[k].entry \in DOMAIN entries /\ Records(txns[k], entries[txns[k].entry])
    /\ \A k, l \in DOMAIN txns : txns[k].entry = txns[l].entry => k = l

\* Once every request has been answered, each entry of the ledger is on record, or
\* a client was told that a reward or redemption under its reference failed -
\* whatever was lost, refused or orphaned, and whoever's panic it died with.
EverythingRecorded ==
    Len(answers) = served =>
        \A i \in DOMAIN entries :
            \/ \E k \in DOMAIN txns : txns[k].entry = i
            \/ \E k \in DOMAIN answers :
                   answers[k].call.ref = entries[i].ref /\ ~answers[k].granted

Recorded(kind, ref, amount) ==
    \E k \in DOMAIN txns :
        txns[k].kind = kind /\ txns[k].ref = ref /\ txns[k].amount = amount

\* The first n rewards of a call are on record, those that are points.
RewardsRecorded(c, n) ==
    \A i \in 1..n : c.rewards[i].type = "POINT" =>
                       Recorded("CREDIT", c.ref, c.rewards[i].points)

\* A request none of whose rewards was reported FAILED has each of its points,
\* or its debit, on record.
GrantRecorded(c) ==
    IF c.op = "earn" THEN RewardsRecorded(c, Len(c.rewards))
    ELSE Recorded("DEBIT", c.ref, Required)

GrantsRecorded ==
    \A k \in DOMAIN answers : answers[k].granted => GrantRecorded(answers[k].call)

\* Where each step of a request leaves it.
ControlOK(h) ==
    /\ pc[h] \in {"reward", "balance", "total"} => call[h].op = "earn"
    /\ pc[h] = "check" => call[h].op = "redeem"
    /\ next[h] >= 1 /\ (pc[h] = "idle" => next[h] = 1 /\ ~gone[h])
    /\ call[h].op = "earn" /\ pc[h] \in InAddPoint =>
          next[h] <= Len(call[h].rewards) /\ CurrentReward(h).type = "POINT"
    /\ call[h].op = "earn" /\ pc[h] \in {"reward", "total", "nil", "answer"} =>
          /\ next[h] <= Len(call[h].rewards) + 1
          /\ pc[h] # "reward" => next[h] = Len(call[h].rewards) + 1

\* Between booking and recording, the entry is the request's own.
Booked == {h \in Handler : pc[h] \in {"reply", "balance", "record"}}
BookedOK(h) ==
    h \in Booked =>
        /\ entry[h] \in DOMAIN entries
        /\ entries[entry[h]] =
              [kind |-> Kind(h), ref |-> call[h].ref, amount |-> Amount(h)]
        /\ \A k \in DOMAIN txns : txns[k].entry # entry[h]
        /\ \A q \in Booked \ {h} : entry[q] # entry[h]

\* What was granted so far is on record.
GrantedOK(h) ==
    granted[h] =>
        /\ call[h].op = "earn" => RewardsRecorded(call[h], next[h] - 1)
        /\ pc[h] = "answer" => GrantRecorded(call[h])

\* The strengthening that makes the properties above inductive.
EarningInv ==
    /\ TypeOK
    /\ \A h \in Handler : ControlOK(h) /\ BookedOK(h) /\ GrantedOK(h)
    /\ TransactionsBooked /\ GrantsRecorded

\* An event that is sent again is credited once, whatever became of the attempts
\* before and whatever else runs - unless two attempts were at work at the same
\* time, or AddEntry's look-up failed and its error was ignored.
CreditedOnce ==
    \A i, j \in DOMAIN entries :
        entries[i].ref = entries[j].ref /\ i # j => entries[i].ref \in doubtful

\* The ledger's balance after its first n entries.
Signed(e) == IF e.kind = "CREDIT" THEN e.amount ELSE -e.amount
BalanceAt(n) ==
    LET at[i \in 0..Len(entries)] == IF i = 0 THEN 0 ELSE at[i - 1] + Signed(entries[i])
    IN  at[n]

\* b is what a balance read after the n-th entry may be: the balance then, or one
\* that a request at work at the same time left; or 0, where it could not be read.
BalanceRead(n, b) ==
    \/ \E m \in n..Len(entries) : b = BalanceAt(m) /\ (overlap \/ m = n)
    \/ b = 0 /\ (overlap \/ faults > 0)

\* BalanceAfter is a balance the member had once the credit on record was booked:
\* the one it left, if no requests overlapped, and else that or a later one.
BalanceAfterTrue ==
    \A k \in DOMAIN txns :
        txns[k].kind = "CREDIT" => BalanceRead(txns[k].entry, txns[k].balanceAfter)
=============================================================================
