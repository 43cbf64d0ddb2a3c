---------------------------- MODULE EarningProofs ----------------------------
(***************************************************************************)
(* EarningInv is an inductive invariant of Earning, for any number of      *)
(* requests, any calls and any bounds; what is booked, recorded and        *)
(* reported never disagrees.                                               *)
(*                                                                         *)
(* RecordedInv adds to it how requests end: what the ledger booked is on   *)
(* record, in hand, or reported as failed.  CreditInv says which reference *)
(* a request that books can share, and SerialInv which balance it can read.*)
(***************************************************************************)
EXTENDS Earning, FiniteSetTheorems, TLAPS

\* At the start nothing is booked and no request runs.
LEMMA InitInv == Init => EarningInv
<1> SUFFICES ASSUME Init PROVE EarningInv
  OBVIOUS
<1> USE DEF Init, Account!Init
<1>1. NoCall \in Call
  BY EarningAssumption DEF NoCall, Call
<1>2. TypeOK
  BY <1>1 DEF TypeOK, PC
<1>3. ASSUME NEW h \in Handler
      PROVE  ControlOK(h) /\ BookedOK(h) /\ GrantedOK(h)
  BY DEF ControlOK, BookedOK, GrantedOK, Booked, NoCall, InAddPoint
<1>4. TransactionsBooked /\ GrantsRecorded
  BY DEF TransactionsBooked, GrantsRecorded
<1> QED
  BY <1>2, <1>3, <1>4 DEF EarningInv

\* The tables only grow.
Grows(s, t) == DOMAIN s \subseteq DOMAIN t /\ \A i \in DOMAIN s : t[i] = s[i]

LEMMA AppendGrows ==
  ASSUME NEW S, NEW s \in Seq(S), NEW e \in S
  PROVE  /\ Append(s, e) \in Seq(S)
         /\ Grows(s, Append(s, e))
         /\ DOMAIN Append(s, e) = DOMAIN s \cup {Len(s) + 1}
         /\ Append(s, e)[Len(s) + 1] = e
         /\ Len(s) + 1 \notin DOMAIN s
  BY DEF Grows

\* What is on record stays on record, so request q keeps what it has.
LEMMA OthersKeep ==
  ASSUME NEW q \in Handler, EarningInv, Grows(txns, txns'),
         pc'[q] = pc[q], call'[q] = call[q], next'[q] = next[q],
         granted'[q] = granted[q], gone'[q] = gone[q]
  PROVE  ControlOK(q)' /\ GrantedOK(q)'
<1>1. ControlOK(q) /\ GrantedOK(q)
  BY DEF EarningInv
<1>2. ControlOK(q)'
  BY <1>1 DEF ControlOK, CurrentReward
<1>3. GrantedOK(q)'
  BY <1>1 DEF GrantedOK, GrantRecorded, RewardsRecorded, Recorded, Grows
<1> QED
  BY <1>2, <1>3

\* A step after which no request has an entry to record that it did not have: it
\* deletes no row.
LEMMA Unbooked ==
  ASSUME EarningInv, TypeOK', Grows(entries, entries'), UNCHANGED <<txns, answers>>,
         \A q \in Handler : ControlOK(q)' /\ GrantedOK(q)',
         \A q \in Booked' :
            /\ q \in Booked /\ call'[q] = call[q]
            /\ next'[q] = next[q] /\ entry'[q] = entry[q]
  PROVE  EarningInv'
<1>1. ASSUME NEW q \in Handler
      PROVE  BookedOK(q)'
  <2>1. BookedOK(q)
    BY DEF EarningInv
  <2> QED
    BY <2>1 DEF BookedOK, Grows, Kind, Amount, CurrentReward
<1>2. TransactionsBooked'
  BY DEF EarningInv, TransactionsBooked, Records, Grows
<1>3. GrantsRecorded'
  BY DEF EarningInv, GrantsRecorded, GrantRecorded, RewardsRecorded, Recorded
<1> QED
  BY <1>1, <1>2, <1>3 DEF EarningInv

\* The same for a step of one request.
LEMMA UnbookedOne ==
  ASSUME NEW h \in Handler, EarningInv, TypeOK',
         Grows(entries, entries'), UNCHANGED <<txns, answers>>,
         ControlOK(h)', GrantedOK(h)', h \notin Booked',
         \A q \in Handler \ {h} :
            /\ pc'[q] = pc[q] /\ call'[q] = call[q] /\ next'[q] = next[q]
            /\ entry'[q] = entry[q] /\ granted'[q] = granted[q] /\ gone'[q] = gone[q]
  PROVE  EarningInv'
<1>1. \A q \in Handler : ControlOK(q)' /\ GrantedOK(q)'
  BY OthersKeep DEF Grows
<1>2. \A q \in Booked' :
         /\ q \in Booked /\ call'[q] = call[q]
         /\ next'[q] = next[q] /\ entry'[q] = entry[q]
  BY DEF Booked
<1> QED
  BY <1>1, <1>2, Unbooked

\* Where a failing call leaves a request.
LEMMA FailCallsMoves ==
  ASSUME TypeOK, NEW H \in SUBSET Handler, FailCalls(H)
  PROVE  /\ \A q \in H :
               /\ pc'[q] = AfterFailure(q) /\ balance'[q] = 0
               /\ Reported(q) => ~granted'[q]
               /\ ~Reported(q) => granted'[q] = granted[q]
               /\ next'[q] = IF Reported(q) /\ call[q].op = "earn"
                             THEN next[q] + 1 ELSE next[q]
         /\ \A q \in Handler \ H :
               /\ pc'[q] = pc[q] /\ next'[q] = next[q]
               /\ granted'[q] = granted[q] /\ balance'[q] = balance[q]
         /\ UNCHANGED <<call, entry, gone>>
  BY DEF FailCalls, TypeOK

LEMMA FailCallsTyped ==
  ASSUME TypeOK, NEW H \in SUBSET Handler, FailCalls(H),
         points' \in Nat, entries' \in Seq(LedgerEntry), txns' \in Seq(PointTransaction),
         served' \in Nat, faults' \in Nat, UNCHANGED answers
  PROVE  TypeOK'
  BY DEF FailCalls, TypeOK, AfterFailure, PC

\* The request itself is where it may be.
LEMMA FailCallsControl ==
  ASSUME EarningInv, NEW H \in SUBSET Handler, FailCalls(H), NEW q \in H,
         pc[q] \in Calling, Grows(txns, txns')
  PROVE  ControlOK(q)' /\ GrantedOK(q)'
<1>1. TypeOK /\ ControlOK(q) /\ GrantedOK(q) /\ q \in Handler
  BY DEF EarningInv
<1>a. call[q] \in Call /\ next[q] \in Nat /\ Len(call[q].rewards) \in Nat
  BY <1>1 DEF TypeOK, Call
<1>b. /\ call' = call /\ gone' = gone /\ pc'[q] = AfterFailure(q)
      /\ Reported(q) => ~granted'[q]
      /\ ~Reported(q) => granted'[q] = granted[q]
      /\ next'[q] = IF Reported(q) /\ call[q].op = "earn" THEN next[q] + 1 ELSE next[q]
  BY <1>1, FailCallsMoves
<1>2. /\ call'[q] = call[q] /\ gone'[q] = gone[q] /\ pc'[q] = AfterFailure(q)
      /\ Reported(q) => ~granted'[q]
      /\ ~Reported(q) => granted'[q] = granted[q]
      /\ next'[q] = IF Reported(q) /\ call[q].op = "earn" THEN next[q] + 1 ELSE next[q]
      /\ call[q] \in Call /\ next[q] \in Nat /\ Len(call[q].rewards) \in Nat
  BY <1>a, <1>b
<1>3. CASE call[q].op = "earn"
  <2>1. CASE pc[q] = "balance"
    <3>1. pc'[q] = "record" /\ next'[q] = next[q] /\ granted'[q] = granted[q]
      BY <1>2, <1>3, <2>1 DEF AfterFailure, Reported
    <3>2. ControlOK(q)'
      BY <1>1, <1>2, <1>3, <2>1, <3>1 DEF ControlOK, InAddPoint, CurrentReward
    <3>3. granted[q] => RewardsRecorded(call[q], next[q] - 1)
      BY <1>1, <1>3 DEF GrantedOK
    <3>4. GrantedOK(q)'
      BY <1>2, <1>3, <3>1, <3>3 DEF GrantedOK, RewardsRecorded, Recorded, Grows
    <3> QED
      BY <3>2, <3>4
  <2>2. CASE pc[q] \in InAddPoint \ {"balance"}
    <3>1. pc'[q] = "reward" /\ next'[q] = next[q] + 1 /\ ~granted'[q]
      BY <1>2, <1>3, <2>2 DEF AfterFailure, Reported, InAddPoint
    <3> QED
      BY <1>1, <1>2, <1>3, <2>2, <3>1 DEF ControlOK, GrantedOK, InAddPoint
  <2>3. CASE pc[q] \notin InAddPoint
    <3>1. pc[q] \in {"total", "nil"}
      BY <1>1, <1>3, <2>3 DEF ControlOK, Calling, InAddPoint, PC
    <3>2. pc'[q] = "answer" /\ next'[q] = next[q] /\ granted'[q] = granted[q]
      BY <1>2, <1>3, <3>1 DEF AfterFailure, Reported, InAddPoint
    <3>3. ControlOK(q)' /\ next[q] = Len(call[q].rewards) + 1
      BY <1>1, <1>2, <1>3, <3>1, <3>2 DEF ControlOK, InAddPoint
    <3>4. granted[q] => RewardsRecorded(call[q], next[q] - 1)
      BY <1>1, <1>3 DEF GrantedOK
    <3> QED
      BY <1>2, <1>3, <3>2, <3>3, <3>4
         DEF GrantedOK, GrantRecorded, RewardsRecorded, Recorded, Grows
  <2> QED
    BY <2>1, <2>2, <2>3
<1>4. CASE call[q].op = "redeem"
  <2>1. pc[q] # "balance" /\ next'[q] = next[q] /\ ~granted'[q] /\ pc'[q] = "answer"
    BY <1>1, <1>2, <1>4 DEF ControlOK, Reported, AfterFailure
  <2> QED
    BY <1>1, <1>2, <1>4, <2>1 DEF ControlOK, GrantedOK, InAddPoint
<1> QED
  BY <1>2, <1>3, <1>4 DEF Call

\* Requests whose calls fail lose their grant, or do without the balance.
LEMMA FailCallsInv ==
  ASSUME NEW H \in SUBSET Handler, EarningInv, FailCalls(H),
         \A h \in H : pc[h] \in Calling,
         UNCHANGED <<tables, answers, served>>, faults' \in Nat
  PROVE  EarningInv'
<1> USE DEF tables
<1>1. TypeOK
  BY DEF EarningInv
<1>2. TypeOK'
  BY <1>1, FailCallsTyped DEF TypeOK
<1>3. Grows(txns, txns') /\ Grows(entries, entries')
  BY DEF Grows
<1>4. ASSUME NEW q \in Handler
      PROVE  ControlOK(q)' /\ GrantedOK(q)'
  <2>1. CASE q \in H
    BY <1>3, <2>1, FailCallsControl
  <2>2. CASE q \notin H
    <3>1. /\ pc'[q] = pc[q] /\ next'[q] = next[q] /\ granted'[q] = granted[q]
          /\ call'[q] = call[q] /\ gone'[q] = gone[q]
      BY <1>1, <2>2, FailCallsMoves
    <3> QED
      BY <1>3, <3>1, OthersKeep
  <2> QED
    BY <2>1, <2>2
<1>5. ASSUME NEW q \in Booked'
      PROVE  /\ q \in Booked /\ call'[q] = call[q]
             /\ next'[q] = next[q] /\ entry'[q] = entry[q]
  <2>1. q \in Handler /\ pc'[q] \in {"reply", "balance", "record"}
    BY <1>5 DEF Booked
  <2>2. CASE q \in H
    <3>1. pc[q] = "balance" /\ ControlOK(q)
      BY <1>1, <2>1, <2>2, FailCallsMoves DEF AfterFailure, EarningInv
    <3> QED
      BY <1>1, <2>1, <2>2, <3>1, FailCallsMoves DEF ControlOK, Reported, InAddPoint, Booked
  <2>3. CASE q \notin H
    BY <1>1, <2>1, <2>3, FailCallsMoves DEF Booked
  <2> QED
    BY <2>2, <2>3
<1> QED
  BY <1>2, <1>3, <1>4, <1>5, Unbooked

\* Requests that are dropped, or go on for nobody, leave the tables to the others.
LEMMA DropInv ==
  ASSUME NEW H \in SUBSET Handler, EarningInv, Drop(H), UNCHANGED tables,
         gone' \in [Handler -> BOOLEAN], \A h \in H : ~gone'[h],
         \A q \in Handler \ H : pc[q] = "idle" => ~gone'[q],
         served' \in Nat, faults' \in Nat, UNCHANGED answers
  PROVE  EarningInv'
<1> USE DEF Drop, Clear, tables
<1>1. TypeOK /\ NoCall \in Call
  BY EarningAssumption DEF EarningInv, NoCall, Call
<1>2. TypeOK'
  BY <1>1 DEF TypeOK, PC
<1>3. ASSUME NEW h \in Handler
      PROVE  ControlOK(h)' /\ GrantedOK(h)'
  <2>1. CASE h \in H
    BY <2>1 DEF ControlOK, GrantedOK, NoCall, InAddPoint
  <2>2. CASE h \notin H
    <3>1. ControlOK(h) /\ GrantedOK(h)
      BY DEF EarningInv
    <3> QED
      BY <2>2, <3>1 DEF ControlOK, CurrentReward, GrantedOK, GrantRecorded,
                        RewardsRecorded, Recorded
  <2> QED
    BY <2>1, <2>2
<1>4. \A q \in Booked' :
         /\ q \in Booked /\ call'[q] = call[q]
         /\ next'[q] = next[q] /\ entry'[q] = entry[q]
  BY DEF Booked
<1> QED
  BY <1>2, <1>3, <1>4, Unbooked DEF Grows

LEMMA AbandonInv ==
  ASSUME NEW H \in SUBSET Handler, EarningInv, Abandon(H),
         UNCHANGED <<tables, answers, served>>, faults' \in Nat
  PROVE  EarningInv'
<1>1. TypeOK
  BY DEF EarningInv
<1>2. PICK D \in SUBSET Handler : D = {h \in H : pc[h] \notin Calling}
  OBVIOUS
<1>a. gone' \in [Handler -> BOOLEAN]
  BY <1>1 DEF Abandon, TypeOK
<1>3. /\ gone' \in [Handler -> BOOLEAN] /\ \A h \in D : ~gone'[h]
      /\ Drop(D) /\ served' \in Nat
  BY <1>1, <1>2, <1>a DEF Abandon, TypeOK
<1>4. \A q \in Handler : pc[q] = "idle" => ~gone[q] /\ pc[q] \notin Calling
  BY DEF EarningInv, ControlOK, Calling
<1>5. \A q \in Handler \ D : pc[q] = "idle" => ~gone'[q]
  BY <1>4 DEF Abandon
<1> QED
  BY <1>3, <1>5, DropInv

\* A step that only moves request h on, to a step before its booking or after
\* its recording.
LEMMA MoveInv ==
  ASSUME NEW h \in Handler, EarningInv, NEW step \in PC \ {"reply", "balance", "record"},
         Goto(h, step), UNCHANGED <<tables, local, answers, served>>, faults' \in Nat,
         ControlOK(h)', GrantedOK(h)'
  PROVE  EarningInv'
<1> USE DEF Goto, tables, local
<1>1. TypeOK
  BY DEF EarningInv
<1>2. TypeOK'
  BY <1>1 DEF TypeOK
<1>3. h \notin Booked'
  BY <1>1 DEF Booked, TypeOK
<1>4. \A q \in Handler \ {h} :
         /\ pc'[q] = pc[q] /\ call'[q] = call[q] /\ next'[q] = next[q]
         /\ entry'[q] = entry[q] /\ granted'[q] = granted[q] /\ gone'[q] = gone[q]
  BY <1>1 DEF TypeOK
<1>5. Grows(entries, entries')
  BY DEF Grows
<1> QED
  BY <1>2, <1>3, <1>4, <1>5, UnbookedOne

LEMMA ReceiveInv ==
  ASSUME NEW h \in Handler, EarningInv, Receive(h)
  PROVE  EarningInv'
<1> USE DEF Receive, Goto, tables
<1>1. TypeOK /\ ControlOK(h) /\ GrantedOK(h)
  BY DEF EarningInv
<1>2. PICK c \in Calls : /\ call' = [call EXCEPT ![h] = c]
                         /\ Goto(h, IF c.op = "earn" THEN "reward" ELSE "check")
  OBVIOUS
<1>3. c \in Call
  BY EarningAssumption
<1>4. TypeOK'
  BY <1>1, <1>2, <1>3 DEF TypeOK, PC
<1>5. ControlOK(h)' /\ GrantedOK(h)' /\ h \notin Booked'
  <2>1. next[h] = 1 /\ call'[h] = c /\ pc'[h] = IF c.op = "earn" THEN "reward" ELSE "check"
    BY <1>1, <1>2 DEF ControlOK, TypeOK
  <2>2. ControlOK(h)' /\ h \notin Booked'
    BY <1>1, <1>3, <2>1 DEF ControlOK, Booked, Call, TypeOK, CurrentReward, InAddPoint
  <2>3. GrantedOK(h)'
    BY <1>1, <2>1 DEF GrantedOK, RewardsRecorded
  <2> QED
    BY <2>2, <2>3
<1>6. \A q \in Handler \ {h} :
         /\ pc'[q] = pc[q] /\ call'[q] = call[q] /\ next'[q] = next[q]
         /\ entry'[q] = entry[q] /\ granted'[q] = granted[q] /\ gone'[q] = gone[q]
  BY <1>1, <1>2 DEF TypeOK
<1>7. Grows(entries, entries')
  BY DEF Grows
<1> QED
  BY <1>4, <1>5, <1>6, <1>7, UnbookedOne

LEMMA RewardPointInv ==
  ASSUME NEW h \in Handler, EarningInv, RewardPoint(h)
  PROVE  EarningInv'
<1> USE DEF RewardPoint, AtReward
<1>1. TypeOK /\ ControlOK(h) /\ GrantedOK(h)
  BY DEF EarningInv
<1>2. /\ pc' = [pc EXCEPT ![h] = "lookup"] /\ pc'[h] = "lookup"
      /\ UNCHANGED <<txns, call, next, granted, gone>> /\ faults' \in Nat
  BY <1>1 DEF Goto, local, tables, TypeOK
<1>3. ControlOK(h)'
  BY <1>1, <1>2 DEF ControlOK, CurrentReward, InAddPoint
<1>4. GrantedOK(h)'
  BY <1>1, <1>2 DEF GrantedOK, RewardsRecorded, Recorded
<1> QED
  BY <1>2, <1>3, <1>4, MoveInv DEF PC

LEMMA EndOfRewardsInv ==
  ASSUME NEW h \in Handler, EarningInv, EndOfRewards(h)
  PROVE  EarningInv'
<1> USE DEF EndOfRewards
<1>1. TypeOK /\ ControlOK(h) /\ GrantedOK(h)
  BY DEF EarningInv
<1>2. /\ pc' = [pc EXCEPT ![h] = "total"] /\ pc'[h] = "total"
      /\ UNCHANGED <<txns, call, next, granted, gone>> /\ faults' \in Nat
  BY <1>1 DEF Goto, local, tables, TypeOK
<1>3. ControlOK(h)'
  BY <1>1, <1>2 DEF ControlOK, CurrentReward, TypeOK, Call, InAddPoint
<1>4. GrantedOK(h)'
  BY <1>1, <1>2 DEF GrantedOK, RewardsRecorded, Recorded
<1> QED
  BY <1>2, <1>3, <1>4, MoveInv DEF PC

LEMMA NotifyInv ==
  ASSUME NEW h \in Handler, EarningInv, Notify(h)
  PROVE  EarningInv'
<1> USE DEF Notify, AtReward, tables
<1>1. TypeOK /\ ControlOK(h) /\ GrantedOK(h)
  BY DEF EarningInv
<1>2. TypeOK'
  BY <1>1 DEF TypeOK
<1>3. next'[h] = next[h] + 1 /\ call[h] \in Call /\ next[h] \in Nat
  BY <1>1 DEF TypeOK
<1>4. ControlOK(h)'
  BY <1>1, <1>3 DEF ControlOK, CurrentReward, Call, InAddPoint
<1>5. GrantedOK(h)'
  BY <1>1, <1>3 DEF GrantedOK, RewardsRecorded, Recorded, CurrentReward
<1>6. h \notin Booked'
  BY DEF Booked
<1>7. \A q \in Handler \ {h} : next'[q] = next[q]
  BY <1>1 DEF TypeOK
<1>8. Grows(entries, entries')
  BY DEF Grows
<1> QED
  BY <1>2, <1>4, <1>5, <1>6, <1>7, <1>8, UnbookedOne

LEMMA RewardVoucherInv ==
  ASSUME NEW h \in Handler, EarningInv, RewardVoucher(h)
  PROVE  EarningInv'
<1>1. TypeOK
  BY DEF EarningInv
<1> QED
  BY <1>1, AbandonInv DEF RewardVoucher, TypeOK

LEMMA DieInv ==
  ASSUME NEW h \in Handler, EarningInv, Die(h)
  PROVE  EarningInv'
<1>1. TypeOK /\ {h} \in SUBSET Handler
  BY DEF EarningInv
<1> QED
  BY <1>1, AbandonInv DEF Die, Fault, TypeOK

LEMMA VanishInv ==
  ASSUME NEW h \in Handler, EarningInv, Vanish(h)
  PROVE  EarningInv'
<1>1. TypeOK /\ {h} \in SUBSET Handler /\ \A q \in Handler : ControlOK(q)
  BY DEF EarningInv
<1>2. /\ gone' \in [Handler -> BOOLEAN] /\ \A q \in {h} : ~gone'[q]
      /\ \A q \in Handler \ {h} : gone'[q] = gone[q]
      /\ Drop({h}) /\ UNCHANGED <<tables, answers>> /\ served' \in Nat /\ faults' \in Nat
  BY <1>1 DEF Vanish, TypeOK
<1>3. \A q \in Handler \ {h} : pc[q] = "idle" => ~gone'[q]
  BY <1>1, <1>2 DEF ControlOK
<1> QED
  BY <1>1, <1>2, <1>3, DropInv

LEMMA CallFailsInv ==
  ASSUME NEW h \in Handler, EarningInv, CallFails(h)
  PROVE  EarningInv'
<1>1. TypeOK /\ {h} \in SUBSET Handler
  BY DEF EarningInv
<1>2. faults' \in Nat
  BY <1>1 DEF CallFails, Fault, TypeOK
<1> QED
  BY <1>1, <1>2, FailCallsInv DEF CallFails

LEMMA PanicInv ==
  ASSUME NEW h \in Handler, EarningInv, Panic(h)
  PROVE  EarningInv'
<1>1. TypeOK
  BY DEF EarningInv
<1>2. PICK H \in SUBSET {q \in Handler : pc[q] \in InLedger} : FailCalls(H \cup {h})
  BY DEF Panic
<1>3. PICK G \in SUBSET Handler : G = H \cup {h}
  OBVIOUS
<1>4. \A q \in G : pc[q] \in Calling
  BY <1>3 DEF Panic, InLedger, Calling, PC
<1>5. UNCHANGED <<tables, answers, served>> /\ faults' \in Nat /\ FailCalls(G)
  BY <1>1, <1>2, <1>3 DEF Panic, TypeOK
<1> QED
  BY <1>4, <1>5, FailCallsInv

LEMMA CheckBalanceInv ==
  ASSUME NEW h \in Handler, EarningInv, CheckBalance(h)
  PROVE  EarningInv'
<1>1. /\ TypeOK /\ ControlOK(h) /\ GrantedOK(h) /\ pc[h] = "check"
      /\ UNCHANGED <<tables, answers, served, faults>> /\ faults' \in Nat
  BY DEF EarningInv, CheckBalance, TypeOK
<1>2. CASE FailCalls({h})
  BY <1>1, <1>2, FailCallsInv DEF Calling, PC
<1>3. ASSUME NEW step \in {"nil", "lookup"}, Goto(h, step), UNCHANGED local
      PROVE  EarningInv'
  <2>1. /\ pc'[h] = step /\ call[h].op = "redeem"
        /\ UNCHANGED <<txns, call, next, granted, gone>>
    BY <1>1, <1>3 DEF Goto, local, tables, TypeOK, ControlOK, Call
  <2>2. ControlOK(h)'
    BY <1>1, <2>1 DEF ControlOK, InAddPoint
  <2>3. GrantedOK(h)'
    BY <1>1, <2>1 DEF GrantedOK
  <2> QED
    BY <1>1, <1>3, <2>2, <2>3, MoveInv DEF PC
<1> QED
  BY <1>2, <1>3 DEF CheckBalance

LEMMA LookUpInv ==
  ASSUME NEW h \in Handler, EarningInv, LookUp(h) \/ LookUpFails(h)
  PROVE  EarningInv'
<1>1. /\ TypeOK /\ ControlOK(h) /\ GrantedOK(h) /\ pc[h] = "lookup"
      /\ UNCHANGED <<tables, answers, served>> /\ faults' \in Nat
  BY DEF EarningInv, LookUp, LookUpFails, TypeOK, Fault
<1>2. CASE FailCalls({h})
  BY <1>1, <1>2, FailCallsInv DEF Calling, PC
<1>3. CASE Goto(h, "book") /\ UNCHANGED local
  <2>1. pc'[h] = "book" /\ UNCHANGED <<txns, call, next, granted, gone>>
    BY <1>1, <1>3 DEF Goto, local, tables, TypeOK
  <2>2. ControlOK(h)'
    BY <1>1, <2>1 DEF ControlOK, CurrentReward, InAddPoint
  <2>3. GrantedOK(h)'
    BY <1>1, <2>1 DEF GrantedOK, RewardsRecorded, Recorded
  <2> QED
    BY <1>1, <1>3, <2>2, <2>3, MoveInv DEF PC
<1> QED
  BY <1>2, <1>3 DEF LookUp, LookUpFails

\* The answer of an event is on its way, whatever the log says.
LEMMA LogBalanceInv ==
  ASSUME NEW h \in Handler, EarningInv, LogBalance(h)
  PROVE  EarningInv'
<1>1. /\ TypeOK /\ ControlOK(h) /\ GrantedOK(h) /\ pc[h] = "total"
      /\ UNCHANGED <<tables, local, answers, served>> /\ faults' \in Nat
  BY DEF EarningInv, LogBalance, TypeOK
<1>2. PICK step \in {"nil", "answer"} : Goto(h, step)
  BY DEF LogBalance
<1>3. /\ call[h].op = "earn" /\ next[h] = Len(call[h].rewards) + 1
      /\ call[h] \in Call /\ next[h] \in Nat
  BY <1>1 DEF ControlOK, TypeOK
<1>4. granted[h] => GrantRecorded(call[h])
  BY <1>1, <1>3 DEF GrantedOK, GrantRecorded, RewardsRecorded, Call
<1>5. pc'[h] = step /\ UNCHANGED <<txns, call, next, granted, gone>>
  BY <1>1, <1>2 DEF Goto, local, tables, TypeOK
<1>6. ControlOK(h)'
  BY <1>1, <1>3, <1>5 DEF ControlOK, InAddPoint
<1>7. GrantedOK(h)'
  BY <1>1, <1>4, <1>5 DEF GrantedOK, GrantRecorded, RewardsRecorded, Recorded
<1> QED
  BY <1>1, <1>2, <1>6, <1>7, MoveInv DEF PC

\* The entry AddEntry appends, and the account it leaves.
LEMMA AddEntryAppends ==
  ASSUME NEW h \in Handler, TypeOK, ControlOK(h), pc[h] = "book", AddEntry(h)
  PROVE  /\ points' \in Nat
         /\ entries' \in Seq(LedgerEntry)
         /\ Grows(entries, entries')
         /\ DOMAIN entries' = DOMAIN entries \cup {Len(entries) + 1}
         /\ entries'[Len(entries) + 1] =
               [kind |-> Kind(h), ref |-> call[h].ref, amount |-> Amount(h)]
         /\ Len(entries) + 1 \in Nat \ DOMAIN entries
<1>1. call[h] \in Call /\ points \in Nat /\ entries \in Seq(LedgerEntry)
  BY DEF TypeOK
<1>2. Amount(h) \in Int
  <2>1. CASE call[h].op = "earn"
    <3>1. next[h] \in 1..Len(call[h].rewards) /\ call[h].rewards \in Seq(Reward)
      BY <1>1, <2>1 DEF ControlOK, TypeOK, Call, InAddPoint
    <3>2. call[h].rewards[next[h]] \in Reward
      BY <3>1
    <3> QED
      BY <2>1, <3>2 DEF Amount, CurrentReward, Reward
  <2>2. CASE call[h].op # "earn"
    BY <2>2 DEF Amount, Required
  <2> QED
    BY <2>1, <2>2
<1>3. points' \in Nat
  BY <1>1, <1>2 DEF AddEntry, Account!Credit, Account!Debit
<1> DEFINE e == [kind |-> Kind(h), ref |-> call[h].ref, amount |-> Amount(h)]
<1>4. e \in LedgerEntry
  BY <1>1, <1>2 DEF LedgerEntry, Kind, Call
<1>5. entries' = Append(entries, e)
  BY DEF AddEntry
<1> HIDE DEF e
<1>6. Len(entries) + 1 \in Nat
  BY <1>1
<1>7. e = [kind |-> Kind(h), ref |-> call[h].ref, amount |-> Amount(h)]
  BY DEF e
<1> QED
  BY <1>1, <1>3, <1>4, <1>5, <1>6, <1>7, AppendGrows

LEMMA BookInv ==
  ASSUME NEW h \in Handler, EarningInv, Book(h)
  PROVE  EarningInv'
<1>1. TypeOK /\ ControlOK(h) /\ GrantedOK(h) /\ pc[h] = "book"
  BY DEF EarningInv, Book
<1>2. UNCHANGED <<txns, answers, served, faults>>
  BY DEF Book
<1>3. CASE FailCalls({h}) /\ UNCHANGED <<points, entries>>
  <2>1. UNCHANGED tables /\ faults' \in Nat
    BY <1>1, <1>2, <1>3 DEF TypeOK, tables
  <2> QED
    BY <1>1, <1>2, <1>3, <2>1, FailCallsInv DEF Calling, PC
<1>6. CASE /\ AddEntry(h)
           /\ entry' = [entry EXCEPT ![h] = Len(entries) + 1]
           /\ Goto(h, "reply")
           /\ UNCHANGED <<call, next, balance, granted, gone>>
  <2> DEFINE n == Len(entries) + 1
  <2>1. /\ points' \in Nat /\ entries' \in Seq(LedgerEntry)
        /\ Grows(entries, entries') /\ DOMAIN entries' = DOMAIN entries \cup {n}
        /\ entries'[n] = [kind |-> Kind(h), ref |-> call[h].ref, amount |-> Amount(h)]
        /\ n \in Nat \ DOMAIN entries
    BY <1>1, <1>6, AddEntryAppends
  <2> HIDE DEF n
  <2>2. /\ entry' = [entry EXCEPT ![h] = n] /\ entry'[h] = n
        /\ pc'[h] = "reply"
        /\ \A q \in Handler \ {h} : pc'[q] = pc[q] /\ entry'[q] = entry[q]
    BY <1>1, <1>6 DEF n, Goto, TypeOK
  <2>3. TypeOK'
    BY <1>1, <1>2, <1>6, <2>1, <2>2 DEF TypeOK, PC, Goto
  <2>4. ASSUME NEW q \in Handler
        PROVE  (ControlOK(q) /\ GrantedOK(q))'
    <3>1. CASE q # h
      BY <1>2, <1>6, <2>2, <3>1, OthersKeep DEF Grows
    <3>2. CASE q = h
      BY <1>1, <1>2, <1>6, <2>2, <3>2
         DEF ControlOK, GrantedOK, CurrentReward, RewardsRecorded, Recorded, InAddPoint
    <3> QED BY <3>1, <3>2
  <2>5. TransactionsBooked
    BY DEF EarningInv
  <2>6. ASSUME NEW q \in Handler
        PROVE  BookedOK(q)'
    <3>1. CASE q # h
      <4>1. BookedOK(q)
        BY DEF EarningInv
      <4> QED
        BY <1>2, <1>6, <2>1, <2>2, <3>1, <4>1
           DEF BookedOK, Booked, Grows, Kind, Amount, CurrentReward
    <3>2. CASE q = h
      <4>1. \A g \in Booked : entry[g] \in DOMAIN entries
        BY DEF EarningInv, BookedOK, Booked
      <4>2. \A k \in DOMAIN txns' : txns'[k].entry # n
        BY <1>2, <2>1, <2>5 DEF TransactionsBooked
      <4> QED
        BY <1>2, <1>6, <2>1, <2>2, <3>2, <4>1, <4>2
           DEF BookedOK, Booked, Kind, Amount, CurrentReward
    <3> QED BY <3>1, <3>2
  <2>7. TransactionsBooked'
    BY <1>2, <2>1, <2>5 DEF TransactionsBooked, Records, Grows
  <2>8. GrantsRecorded'
    BY <1>2 DEF EarningInv, GrantsRecorded, GrantRecorded, RewardsRecorded, Recorded
  <2> QED
    BY <2>3, <2>4, <2>6, <2>7, <2>8 DEF EarningInv
<1> QED
  BY <1>3, <1>6 DEF Book

\* A step from AddEntry's reply to the recording.
LEMMA AfterBookingInv ==
  ASSUME NEW h \in Handler, EarningInv, Reply(h) \/ ReadBalance(h)
  PROVE  EarningInv'
<1>1. /\ TypeOK /\ ControlOK(h) /\ TransactionsBooked /\ GrantsRecorded
      /\ UNCHANGED <<points, entries, txns, call, next, entry, granted, gone, answers,
                     served, faults>>
      /\ balance' \in [Handler -> Nat] /\ pc[h] \in {"reply", "balance"}
  BY DEF EarningInv, Reply, ReadBalance, tables, local, TypeOK, BalanceNow
<1>2. /\ pc'[h] \in {"balance", "record"} /\ (pc'[h] = "balance" => call[h].op = "earn")
      /\ \A q \in Handler \ {h} : pc'[q] = pc[q]
      /\ pc' \in [Handler -> PC]
  BY <1>1 DEF Reply, ReadBalance, TypeOK, Goto, PC
<1>3. TypeOK'
  BY <1>1, <1>2 DEF TypeOK
<1>4. ASSUME NEW q \in Handler
      PROVE  (ControlOK(q) /\ GrantedOK(q) /\ BookedOK(q))'
  <2>1. ControlOK(q) /\ GrantedOK(q) /\ BookedOK(q)
    BY DEF EarningInv
  <2>2. ControlOK(q)'
    BY <1>1, <1>2, <2>1 DEF ControlOK, CurrentReward, InAddPoint
  <2>3. GrantedOK(q)'
    BY <1>1, <1>2, <2>1 DEF GrantedOK, GrantRecorded, RewardsRecorded, Recorded
  <2>4. BookedOK(q)'
    BY <1>1, <1>2, <2>1 DEF BookedOK, Booked, Kind, Amount, CurrentReward
  <2> QED BY <2>2, <2>3, <2>4
<1>5. (TransactionsBooked /\ GrantsRecorded)'
  BY <1>1 DEF TransactionsBooked, Records, GrantsRecorded, GrantRecorded,
              RewardsRecorded, Recorded
<1> QED
  BY <1>3, <1>4, <1>5 DEF EarningInv

\* A row of point_transactions for the entry request h booked, after which h no
\* longer has an entry to record.
LEMMA RecordKeeps ==
  ASSUME NEW h \in Handler, EarningInv, pc[h] = "record",
         txns' = Append(txns, Transaction(h)), UNCHANGED <<entries, answers>>,
         TypeOK', ControlOK(h)', GrantedOK(h)', h \notin Booked',
         \A q \in Handler \ {h} :
            /\ pc'[q] = pc[q] /\ call'[q] = call[q] /\ next'[q] = next[q]
            /\ entry'[q] = entry[q] /\ granted'[q] = granted[q] /\ gone'[q] = gone[q]
  PROVE  EarningInv'
<1> DEFINE t == Transaction(h)
           n == Len(txns) + 1
<1>1. TypeOK /\ BookedOK(h) /\ h \in Booked /\ TransactionsBooked /\ GrantsRecorded
  BY DEF EarningInv, Booked
<1>2. /\ entry[h] \in DOMAIN entries /\ t.entry = entry[h]
      /\ Records(t, entries[entry[h]])
      /\ \A k \in DOMAIN txns : txns[k].entry # entry[h]
      /\ \A q \in Booked \ {h} : entry[q] # entry[h]
  BY <1>1 DEF BookedOK, Records, Transaction
<1>3. /\ Grows(txns, txns') /\ DOMAIN txns' = DOMAIN txns \cup {n}
      /\ txns'[n] = t /\ n \notin DOMAIN txns
  <2>1. txns \in Seq(PointTransaction)
    BY <1>1 DEF TypeOK
  <2>2. txns' = Append(txns, t) /\ txns' \in Seq(PointTransaction)
    BY DEF TypeOK
  <2> HIDE DEF t
  <2> QED
    BY <2>1, <2>2 DEF Grows
<1> HIDE DEF t, n
<1>4. ASSUME NEW q \in Handler
      PROVE  (ControlOK(q) /\ GrantedOK(q))'
  BY <1>3, OthersKeep
<1>5. ASSUME NEW q \in Handler
      PROVE  BookedOK(q)'
  <2>1. BookedOK(q)
    BY DEF EarningInv
  <2> QED
    BY <1>2, <1>3, <2>1, SMTT(20) DEF BookedOK, Booked, Kind, Amount, CurrentReward, Grows
<1>6. TransactionsBooked'
  BY <1>1, <1>2, <1>3 DEF TransactionsBooked, Grows, Records
<1>7. GrantsRecorded'
  BY <1>1, <1>3 DEF GrantsRecorded, GrantRecorded, RewardsRecorded, Recorded, Grows
<1> QED
  BY <1>4, <1>5, <1>6, <1>7 DEF EarningInv

LEMMA TransactionTyped ==
  ASSUME NEW h \in Handler, EarningInv, pc[h] = "record"
  PROVE  Append(txns, Transaction(h)) \in Seq(PointTransaction)
<1>1. TypeOK /\ BookedOK(h) /\ h \in Booked
  BY DEF EarningInv, Booked
<1>2. [kind |-> Kind(h), ref |-> call[h].ref, amount |-> Amount(h)] \in LedgerEntry
  BY <1>1 DEF BookedOK, TypeOK
<1>3. Transaction(h) \in PointTransaction
  BY <1>1, <1>2 DEF Transaction, PointTransaction, LedgerEntry, TypeOK
<1> QED
  BY <1>1, <1>3 DEF TypeOK

LEMMA RecordInv ==
  ASSUME NEW h \in Handler, EarningInv, Record(h)
  PROVE  EarningInv'
<1>1. /\ TypeOK /\ ControlOK(h) /\ GrantedOK(h) /\ pc[h] = "record"
      /\ call[h] \in Call
  BY DEF EarningInv, Record, TypeOK
<1>2. /\ UNCHANGED <<points, entries, answers, served>>
      /\ served' \in Nat /\ points' \in Nat /\ entries' \in Seq(LedgerEntry)
      /\ Grows(entries, entries')
  BY <1>1 DEF Record, TypeOK, Grows
<1>3. Append(txns, Transaction(h)) \in Seq(PointTransaction)
  BY <1>1, TransactionTyped
<1>4. Grows(txns, txns')
  <2> DEFINE t == Transaction(h)
  <2>1. txns \in Seq(PointTransaction) /\ txns' = Append(txns, t)
    BY <1>1 DEF TypeOK, Record
  <2> HIDE DEF t
  <2> QED
    BY <2>1 DEF Grows
<1>5. CASE Fault /\ FailCalls({h}) /\ txns' = Append(txns, Transaction(h))
  <2>1. {h} \in SUBSET Handler /\ faults' \in Nat /\ h \in {h}
        /\ \A q \in Handler \ {h} : q \notin {h}
    BY <1>1, <1>5 DEF Fault, TypeOK
  <2>2. /\ pc'[h] = AfterFailure(h) /\ UNCHANGED <<call, entry, gone>>
        /\ \A q \in Handler \ {h} :
              /\ pc'[q] = pc[q] /\ next'[q] = next[q] /\ granted'[q] = granted[q]
    BY <1>1, <1>5, <2>1, FailCallsMoves
  <2>3. TypeOK'
    BY <1>1, <1>2, <1>3, <1>5, <2>1, FailCallsTyped
  <2>4. ControlOK(h)' /\ GrantedOK(h)'
    BY <1>1, <1>4, <1>5, <2>1, FailCallsControl DEF Calling, PC
  <2>5. h \notin Booked'
    BY <1>1, <2>2 DEF Booked, AfterFailure
  <2> QED
    BY <1>1, <1>2, <1>5, <2>2, <2>3, <2>4, <2>5, RecordKeeps
<1>6. CASE /\ txns' = Append(txns, Transaction(h)) /\ Proceed(h)
           /\ UNCHANGED faults
  <2>1. /\ UNCHANGED <<call, entry, balance, granted, gone>>
        /\ pc' = [pc EXCEPT ![h] = AfterFailure(h)]
        /\ next' = [next EXCEPT ![h] = IF call[h].op = "earn" THEN @ + 1 ELSE @]
    BY <1>1, <1>6 DEF Proceed, Goto, local, AfterFailure, Reported, InAddPoint, TypeOK
  <2>2. TypeOK'
    BY <1>1, <1>2, <1>3, <1>6, <2>1 DEF TypeOK, AfterFailure, PC
  <2>3. /\ pc'[h] = AfterFailure(h)
        /\ next'[h] = IF call[h].op = "earn" THEN next[h] + 1 ELSE next[h]
        /\ \A q \in Handler \ {h} : pc'[q] = pc[q] /\ next'[q] = next[q]
    BY <1>1, <2>1 DEF TypeOK
  <2>4. ControlOK(h)' /\ h \notin Booked'
    BY <1>1, <2>1, <2>3 DEF ControlOK, AfterFailure, Reported, TypeOK, Call, CurrentReward,
                            Booked, InAddPoint
  <2>5. /\ Grows(txns, txns')
        /\ \E k \in DOMAIN txns' :
              /\ txns'[k].kind = Kind(h) /\ txns'[k].ref = call[h].ref
              /\ txns'[k].amount = Amount(h)
    <3> DEFINE t == Transaction(h)
    <3>1. txns \in Seq(PointTransaction) /\ txns' = Append(txns, t)
      BY <1>1, <1>6 DEF TypeOK
    <3>2. t.kind = Kind(h) /\ t.ref = call[h].ref /\ t.amount = Amount(h)
      BY DEF Transaction
    <3> HIDE DEF t
    <3>3. Len(txns) + 1 \in DOMAIN txns' /\ txns'[Len(txns) + 1] = t
      BY <3>1
    <3> QED
      BY <3>1, <3>2, <3>3 DEF Grows
  <2>6. GrantedOK(h)'
    <3> SUFFICES ASSUME granted[h]
                 PROVE  /\ call[h].op = "earn" => RewardsRecorded(call[h], next[h] - 1)'
                        /\ call[h].op # "earn" => GrantRecorded(call[h])'
      BY <1>1, <2>1, <2>3 DEF GrantedOK, AfterFailure, Reported, InAddPoint, Call
    <3>1. CASE call[h].op = "earn"
      <4>1. /\ next[h] \in Nat /\ next'[h] - 1 = next[h]
            /\ CurrentReward(h).points = Amount(h) /\ Kind(h) = "CREDIT"
        BY <1>1, <2>3, <3>1 DEF TypeOK, Amount, Kind
      <4>2. RewardsRecorded(call[h], next[h] - 1)
        BY <1>1, <3>1 DEF GrantedOK
      <4> QED
        BY <2>1, <2>5, <3>1, <4>1, <4>2
           DEF RewardsRecorded, Recorded, Grows, CurrentReward
    <3>2. CASE call[h].op # "earn"
      BY <2>1, <2>5, <3>2 DEF GrantRecorded, Recorded, Kind, Amount
    <3> QED
      BY <3>1, <3>2
  <2> QED
    BY <1>1, <1>2, <1>6, <2>1, <2>2, <2>3, <2>4, <2>6, RecordKeeps
<1> QED
  BY <1>5, <1>6 DEF Record

LEMMA AnswerInv ==
  ASSUME NEW h \in Handler, EarningInv, Answer(h)
  PROVE  EarningInv'
<1> USE DEF Answer, Drop, Clear, tables
<1>1. TypeOK /\ GrantedOK(h) /\ TransactionsBooked /\ GrantsRecorded /\ pc[h] = "answer"
  BY DEF EarningInv
<1> DEFINE a == [call |-> call[h], success |-> call[h].op = "earn" \/ granted[h],
                 granted |-> granted[h]]
<1>2. a \in Response /\ NoCall \in Call
  BY <1>1, EarningAssumption DEF Response, TypeOK, NoCall, Call
<1>3. answers' = Append(answers, a) /\ answers \in Seq(Response)
  BY <1>1 DEF TypeOK
<1>a. a.call = call[h] /\ a.granted = granted[h]
  OBVIOUS
<1> HIDE DEF a
<1>4. /\ answers' \in Seq(Response)
      /\ \A k \in DOMAIN answers' :
            answers'[k] = a \/ (k \in DOMAIN answers /\ answers'[k] = answers[k])
  BY <1>2, <1>3
<1>5. TypeOK'
  BY <1>1, <1>2, <1>4 DEF TypeOK, PC
<1>6. ASSUME NEW q \in Handler
      PROVE  (ControlOK(q) /\ GrantedOK(q))'
  <2>1. CASE q # h
    BY <2>1, OthersKeep DEF Grows
  <2>2. CASE q = h
    BY <2>2 DEF ControlOK, GrantedOK, NoCall, RewardsRecorded, InAddPoint
  <2> QED BY <2>1, <2>2
<1>7. ASSUME NEW q \in Handler
      PROVE  BookedOK(q)'
  <2>1. BookedOK(q)
    BY DEF EarningInv
  <2> QED
    BY <2>1 DEF BookedOK, Booked, Kind, Amount, CurrentReward
<1>8. TransactionsBooked'
  BY <1>1 DEF TransactionsBooked, Records
<1>9. GrantsRecorded'
  <2>1. a.granted => GrantRecorded(a.call)
    BY <1>1, <1>a DEF GrantedOK
  <2>2. ASSUME NEW k \in DOMAIN answers', answers'[k].granted
        PROVE  GrantRecorded(answers'[k].call)
    BY <1>1, <1>4, <2>1, <2>2 DEF GrantsRecorded
  <2> QED
    BY <2>2, SMTT(20) DEF GrantsRecorded, GrantRecorded, RewardsRecorded, Recorded
<1> QED
  BY <1>5, <1>6, <1>7, <1>8, <1>9 DEF EarningInv

\* The chain that goes on as q takes the entry over with it.
LEMMA OrphanInv ==
  ASSUME NEW h \in Handler, NEW q \in Handler, EarningInv, Orphan(h, q)
  PROVE  EarningInv'
<1>1. /\ TypeOK /\ ControlOK(h) /\ GrantedOK(h) /\ TransactionsBooked /\ GrantsRecorded
      /\ pc[h] \in Calling \ {"balance"} /\ pc[q] = "idle" /\ h # q
      /\ UNCHANGED <<points, entries, txns, answers, served>> /\ faults' \in Nat
      /\ call[h] \in Call /\ next[h] \in Nat
  BY DEF EarningInv, Orphan, Calling, tables, Fault, TypeOK
<1>2. /\ pc'[h] = AfterFailure(h) /\ pc'[q] = pc[h]
      /\ call'[h] = call[h] /\ call'[q] = call[h]
      /\ next'[h] = IF Reported(h) /\ call[h].op = "earn" THEN next[h] + 1 ELSE next[h]
      /\ next'[q] = next[h] /\ entry'[h] = entry[h] /\ entry'[q] = entry[h]
      /\ granted'[h] = (granted[h] /\ ~Reported(h)) /\ ~granted'[q]
      /\ gone'[h] = gone[h] /\ gone'[q]
      /\ \A g \in Handler \ {h, q} :
            /\ pc'[g] = pc[g] /\ call'[g] = call[g] /\ next'[g] = next[g]
            /\ entry'[g] = entry[g] /\ granted'[g] = granted[g] /\ gone'[g] = gone[g]
  BY <1>1 DEF Orphan, TypeOK
<1>3. TypeOK'
  <2>1. /\ pc \in [Handler -> PC] /\ call \in [Handler -> Call] /\ next \in [Handler -> Nat]
        /\ entry \in [Handler -> Nat] /\ balance \in [Handler -> Nat]
        /\ granted \in [Handler -> BOOLEAN] /\ gone \in [Handler -> BOOLEAN]
    BY <1>1 DEF TypeOK
  <2>2. /\ pc' = [pc EXCEPT ![h] = AfterFailure(h), ![q] = pc[h]]
        /\ call' = [call EXCEPT ![q] = call[h]]
        /\ next' = [next EXCEPT ![q] = next[h],
                       ![h] = IF Reported(h) /\ call[h].op = "earn" THEN @ + 1 ELSE @]
        /\ entry' = [entry EXCEPT ![q] = entry[h]]
        /\ balance' = [balance EXCEPT ![q] = balance[h]]
        /\ granted' = [granted EXCEPT ![q] = FALSE, ![h] = @ /\ ~Reported(h)]
        /\ gone' = [gone EXCEPT ![q] = TRUE]
    BY DEF Orphan
  <2>3. AfterFailure(h) \in PC
    BY DEF AfterFailure, PC
  <2>4. pc' \in [Handler -> PC]
    BY <2>1, <2>2, <2>3
  <2>5. call' \in [Handler -> Call]
    BY <2>1, <2>2
  <2>6. /\ next' \in [Handler -> Nat] /\ entry' \in [Handler -> Nat]
        /\ balance' \in [Handler -> Nat]
    BY <2>1, <2>2
  <2>7. granted' \in [Handler -> BOOLEAN] /\ gone' \in [Handler -> BOOLEAN]
    BY <2>1, <2>2
  <2> QED
    BY <1>1, <2>4, <2>5, <2>6, <2>7 DEF TypeOK
<1>4. ControlOK(q)' /\ GrantedOK(q)'
  BY <1>1, <1>2 DEF ControlOK, GrantedOK, Calling, CurrentReward
<1>5. ControlOK(h)'
  BY <1>1, <1>2 DEF ControlOK, AfterFailure, Reported, Calling, PC, InAddPoint, Call,
                    CurrentReward
<1>6. GrantedOK(h)'
  <2>1. CASE Reported(h)
    BY <1>1, <1>2, <2>1 DEF GrantedOK
  <2>2. CASE ~Reported(h)
    <3>1. call[h].op = "earn" /\ pc[h] \in {"total", "nil"} /\ pc'[h] = "answer"
          /\ next'[h] = next[h]
      BY <1>1, <1>2, <2>2 DEF Reported, InAddPoint, Calling, PC, Call, ControlOK, AfterFailure
    <3>2. next[h] = Len(call[h].rewards) + 1 /\ Len(call[h].rewards) \in Nat
      BY <1>1, <3>1 DEF ControlOK, Call
    <3>3. granted[h] => RewardsRecorded(call[h], Len(call[h].rewards))
      BY <1>1, <3>1, <3>2 DEF GrantedOK
    <3>4. granted'[h] => granted[h]
      BY <1>2
    <3>5. /\ pc'[h] = "answer" /\ call'[h] = call[h] /\ txns' = txns
          /\ next'[h] - 1 = Len(call[h].rewards) /\ call[h].op = "earn"
      BY <1>1, <1>2, <3>1, <3>2
    <3> QED
      BY <3>3, <3>4, <3>5 DEF GrantedOK, GrantRecorded, RewardsRecorded, Recorded
  <2> QED
    BY <2>1, <2>2
<1>7. \A g \in Handler \ {h, q} : ControlOK(g)' /\ GrantedOK(g)'
  BY <1>1, <1>2, OthersKeep DEF Grows
<1>8. h \notin Booked'
  BY <1>1, <1>2 DEF Booked, AfterFailure
<1>9. ASSUME NEW g \in Booked'
      PROVE  BookedOK(g)'
  <2>1. g # h /\ g \in Handler
    BY <1>8 DEF Booked
  <2>2. CASE g = q
    <3>1. h \in Booked /\ BookedOK(h)
      BY <1>1, <1>2, <2>2 DEF Booked, EarningInv
    <3>2. \A f \in Booked' \ {q} : f \in Booked \ {h} /\ entry'[f] = entry[f]
      BY <1>2, <1>8 DEF Booked
    <3> QED
      BY <1>1, <1>2, <2>2, <3>1, <3>2 DEF BookedOK, Kind, Amount, CurrentReward
  <2>3. CASE g # q
    <3>1. g \in Booked /\ BookedOK(g)
      BY <1>2, <2>1, <2>3 DEF Booked, EarningInv
    <3>2. \A f \in Booked' \ {g, q} : f \in Booked /\ entry'[f] = entry[f]
      BY <1>2, <1>8 DEF Booked
    <3>3. q \in Booked' => h \in Booked
      BY <1>2 DEF Booked
    <3> QED
      BY <1>1, <1>2, <2>1, <2>3, <3>1, <3>2, <3>3 DEF BookedOK, Kind, Amount, CurrentReward
  <2> QED
    BY <2>2, <2>3
<1>10. (TransactionsBooked /\ GrantsRecorded)'
  BY <1>1 DEF TransactionsBooked, Records, GrantsRecorded, GrantRecorded,
              RewardsRecorded, Recorded
<1>11. \A g \in Handler : (ControlOK(g) /\ BookedOK(g) /\ GrantedOK(g))'
  BY <1>4, <1>5, <1>6, <1>7, <1>9 DEF BookedOK
<1> QED
  BY <1>3, <1>10, <1>11 DEF EarningInv

\* No step is left out.
LEMMA NextInv == EarningInv /\ [Next]_vars => EarningInv'
<1>1. ASSUME EarningInv, NEW h \in Handler, Receive(h) \/ LookUpFails(h) \/ Step(h)
      PROVE  EarningInv'
  BY <1>1, ReceiveInv, RewardPointInv, NotifyInv, RewardVoucherInv, EndOfRewardsInv,
     CheckBalanceInv, LogBalanceInv, PanicInv, LookUpInv, BookInv, AfterBookingInv,
     RecordInv, AnswerInv, CallFailsInv, DieInv, VanishInv DEF Step
<1>2. ASSUME EarningInv, UNCHANGED vars
      PROVE  EarningInv'
  <2> USE <1>2 DEF vars, tables, local
  <2>1. TypeOK'
    BY DEF EarningInv, TypeOK
  <2>2. ASSUME NEW h \in Handler
        PROVE  (ControlOK(h) /\ BookedOK(h) /\ GrantedOK(h))'
    <3>1. ControlOK(h) /\ BookedOK(h) /\ GrantedOK(h)
      BY DEF EarningInv
    <3> QED
      BY <3>1 DEF ControlOK, BookedOK, Booked, GrantedOK, GrantRecorded, Kind, Amount,
                  RewardsRecorded, Recorded, CurrentReward, InAddPoint
  <2>3. (TransactionsBooked /\ GrantsRecorded)'
    BY DEF EarningInv, TransactionsBooked, Records, GrantsRecorded, GrantRecorded,
           RewardsRecorded, Recorded
  <2> QED
    BY <2>1, <2>2, <2>3 DEF EarningInv
<1> QED
  BY <1>1, <1>2, OrphanInv DEF Next, Rest

\* EarningInv holds in every reachable state.
THEOREM EarningInvariant == Spec => []EarningInv
  BY InitInv, NextInv, PTL DEF Spec

\* Every variable keeps its type; in particular no race of redemptions takes the
\* account below zero.
THEOREM TypeCorrect == Spec => []TypeOK
<1>1. EarningInv => TypeOK
  BY DEF EarningInv
<1> QED
  BY <1>1, EarningInvariant, PTL

\* Faults, crashes and retries included, AddPoint and Redemption record nothing
\* the ledger has not booked, and nothing twice.
THEOREM NothingRecordedUnbooked == Spec => []TransactionsBooked
<1>1. EarningInv => TransactionsBooked
  BY DEF EarningInv
<1> QED
  BY <1>1, EarningInvariant, PTL

\* A request without a FAILED reward has all of its rewards on record.
THEOREM GrantsAreRecorded == Spec => []GrantsRecorded
<1>1. EarningInv => GrantsRecorded
  BY DEF EarningInv
<1> QED
  BY <1>1, EarningInvariant, PTL

----------------------------------------------------------------------------
(***************************************************************************)
(* The account's balance after each of its entries.                        *)
(***************************************************************************)

\* What BalanceAt takes its values from.
Balances(s) ==
    CHOOSE at : at = [i \in 0..Len(s) |-> IF i = 0 THEN 0 ELSE at[i - 1] + Signed(s[i])]

\* b is the balance after each of the first n entries of s.
Follows(b, s, n) == b[0] = 0 /\ \A i \in 1..n : b[i] = b[i - 1] + Signed(s[i])
IsBalance(b, s, n) == b \in [0..n -> Int] /\ Follows(b, s, n)

LEMMA BalanceAtIs == \A n : BalanceAt(n) = Balances(entries)[n]
  BY DEF BalanceAt, Balances

\* A set of ids that is not empty has a least one.
LEMMA Least ==
  ASSUME NEW n \in Nat, NEW S \in SUBSET (0..n), S # {}
  PROVE  \E m \in S : \A j \in S : m <= j
<1> DEFINE Upto == {0..i : i \in S}
<1>1. Upto \subseteq SUBSET (0..n) /\ Upto # {}
  <2>1. \A i \in S : 0..i \in SUBSET (0..n)
    OBVIOUS
  <2>2. \E i \in S : 0..i \in Upto
    OBVIOUS
  <2> QED
    BY <2>1, <2>2
<1>2. IsWellFoundedOn(StrictSubsetOrdering(0..n), SUBSET (0..n))
  <2>1. IsFiniteSet(0..n)
    BY FS_Interval
  <2> QED
    BY <2>1, FS_StrictSubsetOrderingWellFounded, FS_FiniteSubsetsOfFinite
<1> HIDE DEF Upto
<1>3. PICK T \in Upto : \A U \in Upto : ~(<<U, T>> \in StrictSubsetOrdering(0..n))
  BY <1>1, <1>2, WFMin
<1>4. PICK m \in S : T = 0..m
  BY DEF Upto
<1>5. ASSUME NEW j \in S, ~(m <= j)
      PROVE  FALSE
  <2>1. m \in Int /\ j \in Int /\ j < m /\ 0 <= j
    BY <1>5
  <2>2. 0..j \subseteq 0..m /\ m \in 0..m /\ m \notin 0..j
    BY <2>1
  <2>3. 0..j \in Upto
    BY DEF Upto
  <2> QED
    BY <1>1, <1>3, <1>4, <2>2, <2>3 DEF StrictSubsetOrdering
<1> QED
  BY <1>5

LEMMA SignedType ==
  ASSUME NEW s \in Seq(LedgerEntry), NEW i \in 1..Len(s)
  PROVE  Signed(s[i]) \in Int
<1>1. s[i] \in LedgerEntry
  OBVIOUS
<1> QED
  BY <1>1 DEF Signed, LedgerEntry

\* The balances of an account exist, by the least number that would have none.
LEMMA BalanceExists ==
  ASSUME NEW s \in Seq(LedgerEntry)
  PROVE  \E b : IsBalance(b, s, Len(s))
<1> DEFINE N == Len(s)
           Bad == {n \in 0..N : ~ \E b : IsBalance(b, s, n)}
<1>0. N \in Nat
  OBVIOUS
<1> SUFFICES ASSUME Bad # {} PROVE FALSE
  BY <1>0
<1>1. PICK n \in Bad : \A j \in Bad : n <= j
  BY <1>0, Least
<1>2. n \in 0..N
  OBVIOUS
<1>3. CASE n = 0
  <2> DEFINE b == [i \in 0..0 |-> 0]
  <2>1. IsBalance(b, s, 0)
    BY DEF IsBalance, Follows
  <2> QED
    BY <1>3, <2>1
<1>4. CASE n # 0
  <2>1. n - 1 \in 0..N /\ n - 1 \notin Bad
    BY <1>0, <1>1, <1>2, <1>4
  <2>2. PICK c : IsBalance(c, s, n - 1)
    BY <2>1
  <2> DEFINE b == [i \in 0..n |-> IF i = n THEN c[n - 1] + Signed(s[n]) ELSE c[i]]
  <2>3. c \in [0..n - 1 -> Int] /\ c[0] = 0 /\ \A i \in 1..n - 1 : c[i] = c[i - 1] + Signed(s[i])
    BY <2>2 DEF IsBalance, Follows
  <2>4. Signed(s[n]) \in Int /\ n \in Nat /\ c[n - 1] \in Int
    BY <1>0, <1>2, <1>4, <2>3, SignedType
  <2>5. b \in [0..n -> Int] /\ b[0] = 0
    BY <1>4, <2>3, <2>4
  <2>6. ASSUME NEW i \in 1..n
        PROVE  b[i] = b[i - 1] + Signed(s[i])
    BY <2>3, <2>4
  <2>7. IsBalance(b, s, n)
    BY <2>5, <2>6 DEF IsBalance, Follows
  <2> QED
    BY <2>7
<1> QED
  BY <1>3, <1>4

\* There is one balance after each entry.
LEMMA BalanceUnique ==
  ASSUME NEW s, NEW n \in Nat, NEW b, NEW c, Follows(b, s, n), Follows(c, s, n)
  PROVE  \A i \in 0..n : b[i] = c[i]
<1> DEFINE Bad == {i \in 0..n : b[i] # c[i]}
<1> SUFFICES ASSUME Bad # {} PROVE FALSE
  OBVIOUS
<1>1. PICK m \in Bad : \A j \in Bad : m <= j
  BY Least
<1>2. m \in 1..n
  BY DEF Follows
<1>3. b[m - 1] = c[m - 1]
  BY <1>1, <1>2
<1> QED
  BY <1>2, <1>3 DEF Follows

LEMMA BalancesAre ==
  ASSUME NEW s \in Seq(LedgerEntry)
  PROVE  IsBalance(Balances(s), s, Len(s))
<1> DEFINE F(at) == [i \in 0..Len(s) |-> IF i = 0 THEN 0 ELSE at[i - 1] + Signed(s[i])]
<1>1. PICK b : IsBalance(b, s, Len(s))
  BY BalanceExists
<1>2. b = F(b)
  BY <1>1 DEF IsBalance, Follows
<1>3. Balances(s) = F(Balances(s))
  BY <1>2 DEF Balances
<1>4. Len(s) \in Nat
  OBVIOUS
<1>5. \A i \in 0..Len(s) : Balances(s)[i] = b[i]
  <2>1. Follows(Balances(s), s, Len(s)) /\ Follows(b, s, Len(s))
    BY <1>1, <1>3, <1>4 DEF IsBalance, Follows
  <2> QED
    BY <1>4, <2>1, BalanceUnique
<1>6. Balances(s) = b
  BY <1>1, <1>3, <1>5 DEF IsBalance, Follows
<1> QED
  BY <1>1, <1>6

\* The balance after all entries but the last is what it was before the last.
LEMMA BalancesAppend ==
  ASSUME NEW s \in Seq(LedgerEntry), NEW e \in LedgerEntry
  PROVE  LET n == Len(s) + 1
         IN  /\ \A i \in 0..Len(s) : Balances(Append(s, e))[i] = Balances(s)[i]
             /\ Balances(Append(s, e))[n] = Balances(s)[Len(s)] + Signed(e)
<1> DEFINE t == Append(s, e)
           n == Len(s) + 1
           b == Balances(t)
           c == Balances(s)
<1>1. t \in Seq(LedgerEntry) /\ Len(t) = n /\ t[n] = e /\ \A i \in 1..Len(s) : t[i] = s[i]
  OBVIOUS
<1>2. IsBalance(b, t, n) /\ IsBalance(c, s, Len(s))
  BY <1>1, BalancesAre
<1>3. Len(s) \in Nat
  OBVIOUS
<1> HIDE DEF t, b, c
<1>4. \A i \in 0..Len(s) : b[i] = c[i]
  <2>1. Follows(b, s, Len(s)) /\ Follows(c, s, Len(s))
    BY <1>1, <1>2, <1>3 DEF IsBalance, Follows
  <2> QED
    BY <1>3, <2>1, BalanceUnique
<1>5. b[n] = b[n - 1] + Signed(t[n]) /\ n - 1 = Len(s)
  BY <1>2, <1>3 DEF IsBalance, Follows
<1>6. b[n] = c[Len(s)] + Signed(e)
  BY <1>1, <1>3, <1>4, <1>5
<1> QED
  BY <1>4, <1>6 DEF b, c, t

----------------------------------------------------------------------------
(***************************************************************************)
(* A steady step: it books nothing and ends no request.                    *)
(***************************************************************************)

\* Where an entry may still be booked, or recorded.
MayBook == {"check", "lookup", "book", "reply", "balance", "record"}

OnRecord(i) == \E k \in DOMAIN txns : txns[k].entry = i

\* What a request that goes from step to step keeps, and where its balance is from.
Steady ==
    /\ UNCHANGED <<points, entries, answers, served, call, entry, gone, overlap>>
    /\ Grows(txns, txns') /\ faults' \in Nat /\ faults' >= faults
    /\ doubtful \subseteq doubtful'
    /\ Running' = Running
    /\ \A q \in Handler :
          /\ ~granted[q] => ~granted'[q]
          /\ q \in Booked => q \in Booked' \/ ~granted'[q] \/ OnRecord(entry[q])'
          /\ pc'[q] \in MayBook /\ pc[q] \notin MayBook => ~gone[q]
          /\ pc'[q] = "book" => \/ pc[q] = "book" \/ ~ReferenceUsed(call[q].ref)
                                \/ call[q].ref \in doubtful'
          /\ pc'[q] \in {"reply", "balance"} => pc[q] \in {"reply", "balance"}
          /\ pc'[q] = "record" /\ call[q].op = "earn" =>
                \/ pc[q] = "record" /\ balance'[q] = balance[q]
                \/ pc[q] = "balance" /\ balance'[q] = points
                \/ pc[q] = "balance" /\ balance'[q] = 0
                   /\ (faults' > 0 \/ \E g \in Running : g # q)

\* Calls that fail, for a fault or for somebody else's panic.
LEMMA FailCallsSteady ==
  ASSUME EarningInv, NEW H \in SUBSET Handler, FailCalls(H),
         \A h \in H : pc[h] \in Calling,
         \A h \in H : pc[h] = "balance" => faults' > 0 \/ \E g \in Running : g # h,
         UNCHANGED <<points, entries, answers, served, history>>,
         Grows(txns, txns'), faults' \in Nat, faults' >= faults
  PROVE  Steady
<1>1. TypeOK /\ UNCHANGED <<call, entry, gone, overlap, doubtful>>
  BY FailCallsMoves DEF EarningInv, history
<1>2. ASSUME NEW q \in H
      PROVE  /\ pc'[q] \in {"record", "reward", "answer"}
             /\ pc'[q] = "record" => pc[q] = "balance" /\ balance'[q] = 0
             /\ ~granted[q] => ~granted'[q]
             /\ q \in Booked => q \in Booked' \/ ~granted'[q]
             /\ pc[q] # "idle"
  <2>1. /\ pc'[q] = AfterFailure(q) /\ balance'[q] = 0 /\ q \in Handler
        /\ Reported(q) => ~granted'[q]
        /\ ~Reported(q) => granted'[q] = granted[q]
    BY <1>1, FailCallsMoves
  <2>2. pc'[q] \in {"record", "reward", "answer"} /\ pc[q] # "idle"
        /\ (pc'[q] = "record" => pc[q] = "balance")
        /\ (pc[q] = "balance" => pc'[q] = "record")
    BY <2>1 DEF AfterFailure, Calling
  <2>3. pc[q] \in {"reply", "record"} => Reported(q)
    <3>1. call[q] \in Call
      BY <1>1, <2>1 DEF TypeOK
    <3> QED
      BY <3>1 DEF Reported, InAddPoint, Call
  <2>4. q \in Booked => q \in Booked' \/ ~granted'[q]
    BY <2>1, <2>2, <2>3 DEF Booked
  <2>5. ~granted[q] => ~granted'[q]
    BY <2>1
  <2> QED
    BY <2>1, <2>2, <2>4, <2>5
<1>3. ASSUME NEW q \in Handler \ H
      PROVE  pc'[q] = pc[q] /\ granted'[q] = granted[q] /\ balance'[q] = balance[q]
  BY <1>1, FailCallsMoves
<1>4. Running' = Running
  <2>1. \A q \in Handler : pc[q] = "idle" <=> pc'[q] = "idle"
    BY <1>2, <1>3
  <2> QED
    BY <2>1 DEF Running
<1>5. ASSUME NEW q \in Handler
      PROVE  /\ ~granted[q] => ~granted'[q]
             /\ q \in Booked => q \in Booked' \/ ~granted'[q] \/ OnRecord(entry[q])'
             /\ pc'[q] \in MayBook /\ pc[q] \notin MayBook => ~gone[q]
             /\ pc'[q] = "book" => pc[q] = "book"
             /\ pc'[q] \in {"reply", "balance"} => pc[q] \in {"reply", "balance"}
             /\ pc'[q] = "record" /\ call[q].op = "earn" =>
                   \/ pc[q] = "record" /\ balance'[q] = balance[q]
                   \/ pc[q] = "balance" /\ balance'[q] = 0
                      /\ (faults' > 0 \/ \E g \in Running : g # q)
  <2>1. CASE q \in H
    BY <1>2, <2>1 DEF MayBook
  <2>2. CASE q \notin H
    <3>1. pc'[q] = pc[q] /\ granted'[q] = granted[q] /\ balance'[q] = balance[q]
      BY <1>3, <2>2
    <3> QED
      BY <3>1 DEF Booked
  <2> QED
    BY <2>1, <2>2
<1> QED
  BY <1>1, <1>4, <1>5 DEF Steady

\* A step of h alone, which keeps what it has been granted.
LEMMA OneSteady ==
  ASSUME TypeOK, NEW h \in Handler, UNCHANGED <<tables, answers, served, call, entry, gone,
                                                granted, overlap>>,
         doubtful \subseteq doubtful', faults' \in Nat, faults' >= faults,
         \A q \in Handler \ {h} : pc'[q] = pc[q] /\ balance'[q] = balance[q],
         pc[h] # "idle", pc'[h] # "idle", h \in Booked => h \in Booked',
         pc'[h] \in MayBook /\ pc[h] \notin MayBook => ~gone[h],
         pc'[h] = "book" => ~ReferenceUsed(call[h].ref) \/ call[h].ref \in doubtful',
         pc'[h] \in {"reply", "balance"} => pc[h] \in {"reply", "balance"},
         pc'[h] = "record" /\ call[h].op = "earn" =>
            pc[h] = "balance" /\ balance'[h] = points
  PROVE  Steady
<1>1. Running' = Running
  BY DEF Running
<1>2. UNCHANGED <<points, entries, txns>> /\ Grows(txns, txns')
  BY DEF tables, Grows
<1>3. ASSUME NEW q \in Handler
      PROVE  /\ q \in Booked => q \in Booked'
             /\ pc'[q] \in MayBook /\ pc[q] \notin MayBook => ~gone[q]
             /\ pc'[q] = "book" => \/ pc[q] = "book" \/ ~ReferenceUsed(call[q].ref)
                                   \/ call[q].ref \in doubtful'
             /\ pc'[q] \in {"reply", "balance"} => pc[q] \in {"reply", "balance"}
             /\ pc'[q] = "record" /\ call[q].op = "earn" =>
                   \/ pc[q] = "record" /\ balance'[q] = balance[q]
                   \/ pc[q] = "balance" /\ balance'[q] = points
  <2>1. CASE q = h
    BY <2>1
  <2>2. CASE q # h
    BY <2>2 DEF Booked
  <2> QED
    BY <2>1, <2>2
<1> QED
  BY <1>1, <1>2, <1>3 DEF Steady

LEMMA MovesSteady ==
  ASSUME EarningInv, NEW h \in Handler,
         \/ LookUpFails(h)
         \/ /\ UNCHANGED history
            /\ RewardPoint(h) \/ Notify(h) \/ EndOfRewards(h) \/ LogBalance(h)
               \/ Reply(h) \/ ReadBalance(h)
  PROVE  Steady
<1>1. TypeOK /\ ControlOK(h) /\ call[h] \in Call /\ faults \in Nat
  BY DEF EarningInv, TypeOK
<1>2. /\ UNCHANGED <<tables, answers, served, call, entry, gone, granted, overlap>>
      /\ doubtful \subseteq doubtful' /\ faults' \in Nat /\ faults' >= faults
      /\ \A q \in Handler \ {h} : balance'[q] = balance[q]
  <2>1. CASE LookUpFails(h)
    BY <1>1, <2>1 DEF LookUpFails, Fault, local
  <2>2. CASE UNCHANGED history /\ (RewardPoint(h) \/ EndOfRewards(h) \/ LogBalance(h) \/ Reply(h))
    BY <1>1, <2>2 DEF RewardPoint, EndOfRewards, LogBalance, Reply, local, history
  <2>3. CASE UNCHANGED history /\ (Notify(h) \/ ReadBalance(h))
    BY <1>1, <2>3 DEF Notify, ReadBalance, history, TypeOK
  <2> QED
    BY <2>1, <2>2, <2>3
<1>3. \/ /\ pc[h] = "lookup" /\ pc'[h] = "book" /\ call[h].ref \in doubtful'
      \/ /\ pc[h] = "reward" /\ ~gone[h] /\ pc'[h] \in {"lookup", "reward", "total"}
      \/ /\ pc[h] = "total" /\ pc'[h] \in {"nil", "answer"}
      \/ /\ pc[h] = "reply" /\ pc'[h] = IF call[h].op = "earn" THEN "balance" ELSE "record"
      \/ /\ pc[h] = "balance" /\ pc'[h] = "record" /\ balance'[h] = points
  BY <1>1 DEF LookUpFails, RewardPoint, Notify, EndOfRewards, LogBalance, Reply, ReadBalance,
              AtReward, Goto, BalanceNow, TypeOK
<1>4. \A q \in Handler \ {h} : pc'[q] = pc[q]
  BY <1>1 DEF LookUpFails, RewardPoint, Notify, EndOfRewards, LogBalance, Reply, ReadBalance,
              Goto, TypeOK
<1>5. /\ pc[h] # "idle" /\ pc'[h] # "idle" /\ (h \in Booked => h \in Booked')
      /\ pc'[h] \in MayBook /\ pc[h] \notin MayBook => ~gone[h]
      /\ pc'[h] = "book" => call[h].ref \in doubtful'
      /\ pc'[h] \in {"reply", "balance"} => pc[h] \in {"reply", "balance"}
      /\ pc'[h] = "record" /\ call[h].op = "earn" => pc[h] = "balance" /\ balance'[h] = points
  BY <1>3 DEF Booked, MayBook
<1> QED
  BY <1>1, <1>2, <1>4, <1>5, OneSteady

\* The same for the steps that may fail.
LEMMA ChecksSteady ==
  ASSUME EarningInv, NEW h \in Handler, UNCHANGED history,
         \/ CheckBalance(h) \/ LookUp(h) \/ Panic(h) \/ CallFails(h)
         \/ EntryRefused(h) /\ FailCalls({h}) /\ pc[h] = "book"
            /\ UNCHANGED <<tables, answers, served, faults>>
  PROVE  Steady
<1>1. TypeOK /\ faults \in Nat /\ UNCHANGED <<tables, answers, served>>
  BY DEF EarningInv, TypeOK, CheckBalance, LookUp, Panic, CallFails
<1>2. UNCHANGED <<points, entries, txns>> /\ Grows(txns, txns')
  BY <1>1 DEF tables, Grows
<1>3. faults' \in Nat /\ faults' >= faults /\ (CallFails(h) => faults' > 0)
  BY <1>1 DEF CheckBalance, LookUp, Panic, CallFails, Fault
<1>4. CASE FailCalls({h}) /\ (pc[h] \in {"check", "lookup", "book"} \/ CallFails(h))
  <2>1. {h} \in SUBSET Handler /\ \A q \in {h} : pc[q] \in Calling
    BY <1>4 DEF CallFails, Calling, PC
  <2>2. \A q \in {h} : pc[q] = "balance" => faults' > 0
    BY <1>3, <1>4
  <2> QED
    BY <1>1, <1>2, <1>3, <1>4, <2>1, <2>2, FailCallsSteady
<1>5. CASE Panic(h)
  <2>1. PICK H \in SUBSET {q \in Handler : pc[q] \in InLedger} : FailCalls(H \cup {h})
    BY <1>5 DEF Panic
  <2>2. PICK G \in SUBSET Handler : G = H \cup {h}
    OBVIOUS
  <2>3. \A q \in G : pc[q] \in Calling
    BY <1>5, <2>2 DEF Panic, InLedger, Calling, PC
  <2>4. h \in Running /\ pc[h] # "balance"
    BY <1>5 DEF Panic, Running
  <2>5. \A q \in G : pc[q] = "balance" => \E g \in Running : g # q
    BY <2>4
  <2> QED
    BY <1>1, <1>2, <1>3, <2>1, <2>2, <2>3, <2>5, FailCallsSteady
<1>6. CASE \/ pc[h] = "check" /\ Goto(h, "nil") /\ UNCHANGED local
           \/ pc[h] = "check" /\ Goto(h, "lookup") /\ UNCHANGED local
           \/ pc[h] = "lookup" /\ Goto(h, "book") /\ UNCHANGED local
              /\ ~ReferenceUsed(call[h].ref)
  <2>1. UNCHANGED <<call, entry, gone, granted, balance, overlap, doubtful>>
    BY <1>6 DEF local, history
  <2>2. \A q \in Handler \ {h} : pc'[q] = pc[q] /\ balance'[q] = balance[q]
    BY <1>1, <1>6, <2>1 DEF Goto, TypeOK
  <2>3. \/ pc[h] = "check" /\ pc'[h] \in {"nil", "lookup"}
        \/ pc[h] = "lookup" /\ pc'[h] = "book" /\ ~ReferenceUsed(call[h].ref)
    BY <1>1, <1>6 DEF Goto, TypeOK
  <2>4. /\ pc[h] # "idle" /\ pc'[h] # "idle" /\ h \notin Booked /\ pc[h] \in MayBook
        /\ pc'[h] = "book" => ~ReferenceUsed(call[h].ref)
        /\ pc'[h] \notin {"reply", "balance", "record"}
    BY <2>3 DEF Booked, MayBook
  <2> QED
    BY <1>1, <1>3, <2>1, <2>2, <2>4, OneSteady
<1> QED
  BY <1>4, <1>5, <1>6 DEF CheckBalance, LookUp, CallFails

\* Recording, too, is one: the entry is on record after it.
LEMMA RecordSteady ==
  ASSUME EarningInv, NEW h \in Handler, UNCHANGED history, Record(h)
  PROVE  Steady
<1>1. /\ TypeOK /\ pc[h] = "record" /\ faults \in Nat /\ {h} \in SUBSET Handler
      /\ UNCHANGED <<points, entries, answers, served>>
      /\ call[h] \in Call
  BY DEF EarningInv, Record, TypeOK
<1>2. faults' \in Nat /\ faults' >= faults
  BY <1>1 DEF Record, Fault
<1>3. Grows(txns, txns') /\ OnRecord(entry[h])'
  <2> DEFINE t == Transaction(h)
  <2>1. txns \in Seq(PointTransaction) /\ txns' = Append(txns, t) /\ t.entry = entry[h]
    BY <1>1 DEF TypeOK, Record, Transaction
  <2> HIDE DEF t
  <2>2. Grows(txns, txns')
    BY <2>1 DEF Grows
  <2>3. entry' = entry
    BY <1>1 DEF Record, Proceed, local, FailCalls
  <2>4. Len(txns) + 1 \in DOMAIN txns' /\ txns'[Len(txns) + 1] = t
    BY <2>1
  <2> QED
    BY <2>1, <2>2, <2>3, <2>4 DEF OnRecord
<1>4. CASE FailCalls({h})
  <2>1. \A q \in {h} : pc[q] \in Calling /\ pc[q] # "balance"
    BY <1>1 DEF Calling, PC
  <2> QED
    BY <1>1, <1>2, <1>3, <1>4, <2>1, FailCallsSteady
<1>5. CASE Proceed(h)
  <2>1. /\ UNCHANGED <<call, entry, balance, granted, gone, overlap, doubtful>>
        /\ pc'[h] \in {"reward", "answer"} /\ \A q \in Handler \ {h} : pc'[q] = pc[q]
    BY <1>1, <1>5 DEF Proceed, Goto, local, history, TypeOK
  <2>2. Running' = Running
    BY <1>1, <2>1 DEF Running
  <2>3. ASSUME NEW q \in Handler
        PROVE  /\ q \in Booked => q \in Booked' \/ OnRecord(entry[q])'
               /\ pc'[q] \in MayBook => pc'[q] = pc[q]
    <3>1. CASE q = h
      BY <1>3, <2>1, <3>1 DEF MayBook
    <3>2. CASE q # h
      BY <2>1, <3>2 DEF Booked
    <3> QED
      BY <3>1, <3>2
  <2> QED
    BY <1>1, <1>2, <1>3, <2>1, <2>2, <2>3 DEF Steady, MayBook
<1> QED
  BY <1>4, <1>5 DEF Record

\* What a step that books an entry does, and nothing else does.
Books(h) ==
    /\ pc[h] = "book" /\ pc'[h] = "reply" /\ AddEntry(h)
    /\ entry' = [entry EXCEPT ![h] = Len(entries) + 1]
    /\ \A q \in Handler \ {h} : pc'[q] = pc[q] /\ entry'[q] = entry[q]
    /\ UNCHANGED <<txns, call, next, balance, granted, gone, answers, served, faults>>

\* The steps of a request, by what the rest of this module has to tell apart.
LEMMA StepKinds ==
  ASSUME EarningInv, NEW h \in Handler, LookUpFails(h) \/ (Step(h) /\ UNCHANGED history)
  PROVE  \/ Steady
         \/ Books(h) /\ UNCHANGED history
         \/ (RewardVoucher(h) \/ Answer(h) \/ Die(h) \/ Vanish(h)) /\ UNCHANGED history
<1>1. TypeOK
  BY DEF EarningInv
<1>2. ASSUME Book(h), UNCHANGED history
      PROVE  Steady \/ Books(h)
  <2>1. CASE EntryRefused(h) /\ FailCalls({h}) /\ UNCHANGED <<points, entries>>
    <3>1. UNCHANGED <<tables, answers, served, faults>> /\ pc[h] = "book"
      BY <1>2, <2>1 DEF Book, tables
    <3> QED
      BY <1>2, <2>1, <3>1, ChecksSteady
  <2>2. CASE ~UNCHANGED <<points, entries>> \/ ~FailCalls({h})
    BY <1>1, <1>2, <2>2 DEF Book, Books, Goto, TypeOK
  <2>3. CASE ~EntryRefused(h)
    BY <1>1, <1>2, <2>3 DEF Book, Books, Goto, TypeOK
  <2> QED
    BY <2>1, <2>2, <2>3
<1> QED
  BY <1>2, MovesSteady, ChecksSteady, RecordSteady DEF Step

\* What is left when requests end or lose their callers.
LEMMA AbandonLeaves ==
  ASSUME TypeOK, NEW H \in SUBSET Handler, Abandon(H)
  PROVE  /\ \A q \in Handler \ H :
               /\ pc'[q] = pc[q] /\ call'[q] = call[q] /\ entry'[q] = entry[q]
               /\ balance'[q] = balance[q] /\ granted'[q] = granted[q] /\ gone'[q] = gone[q]
         /\ \A q \in H :
               /\ pc'[q] # "idle" => /\ pc'[q] = pc[q] /\ call'[q] = call[q]
                                     /\ entry'[q] = entry[q] /\ balance'[q] = balance[q]
               /\ pc'[q] = "idle" \/ gone'[q]
<1>1. PICK D \in SUBSET Handler : D = {h \in H : pc[h] \notin Calling}
  OBVIOUS
<1>2. Drop(D)
  BY <1>1 DEF Abandon
<1>3. ASSUME NEW q \in D
      PROVE  pc'[q] = "idle"
  BY <1>2 DEF Drop
<1>4. ASSUME NEW q \in Handler \ D
      PROVE  /\ pc'[q] = pc[q] /\ call'[q] = call[q] /\ entry'[q] = entry[q]
             /\ balance'[q] = balance[q] /\ granted'[q] = granted[q]
  BY <1>2 DEF Drop, Clear
<1>5. \A q \in Handler \ H : gone'[q] = gone[q]
  BY DEF Abandon, TypeOK
<1>6. \A q \in H \ D : gone'[q]
  BY <1>1 DEF Abandon
<1> QED
  BY <1>1, <1>3, <1>4, <1>5, <1>6

LEMMA DropLeaves ==
  ASSUME NEW H \in SUBSET Handler, Drop(H)
  PROVE  /\ \A q \in Handler \ H :
               /\ pc'[q] = pc[q] /\ call'[q] = call[q] /\ entry'[q] = entry[q]
               /\ balance'[q] = balance[q] /\ granted'[q] = granted[q]
         /\ \A q \in H : pc'[q] = "idle"
  BY DEF Drop, Clear

\* Requests that end, or go on for nobody.
LEMMA EndLeaves ==
  ASSUME EarningInv, NEW h \in Handler,
         RewardVoucher(h) \/ Answer(h) \/ Die(h) \/ Vanish(h)
  PROVE  /\ UNCHANGED <<points, entries, txns, served>>
         /\ faults' \in Nat /\ faults' >= faults
         /\ Running' \subseteq Running
         /\ \A q \in Running' : /\ pc'[q] = pc[q] /\ call'[q] = call[q]
                                /\ entry'[q] = entry[q] /\ balance'[q] = balance[q]
<1>1. TypeOK /\ {h} \in SUBSET Handler
  BY DEF EarningInv
<1>2. /\ UNCHANGED <<points, entries, txns, served>>
      /\ faults' \in Nat /\ faults' >= faults
  BY <1>1 DEF RewardVoucher, Answer, Die, Vanish, tables, Fault, TypeOK
<1>3. \A q \in Handler : pc'[q] # "idle" =>
         /\ pc'[q] = pc[q] /\ call'[q] = call[q]
         /\ entry'[q] = entry[q] /\ balance'[q] = balance[q]
  <2>1. ASSUME NEW H \in SUBSET Handler, Abandon(H)
        PROVE  \A q \in Handler : pc'[q] # "idle" =>
                  /\ pc'[q] = pc[q] /\ call'[q] = call[q]
                  /\ entry'[q] = entry[q] /\ balance'[q] = balance[q]
    BY <1>1, <2>1, AbandonLeaves
  <2>2. CASE RewardVoucher(h)
    BY <2>1, <2>2 DEF RewardVoucher
  <2>3. CASE Die(h)
    BY <1>1, <2>1, <2>3 DEF Die
  <2>4. CASE Drop({h})
    BY <1>1, <2>4, DropLeaves
  <2> QED
    BY <2>2, <2>3, <2>4 DEF Answer, Vanish
<1> QED
  BY <1>2, <1>3 DEF Running

----------------------------------------------------------------------------
(***************************************************************************)
(* What becomes of a request: it is at work, answered, or nobody waits for *)
(* it any more.                                                            *)
(***************************************************************************)
Attended == {h \in Running : ~gone[h]}
Accounted == Len(answers) + Cardinality(Attended)
AttendedOK == IsFiniteSet(Attended) /\ Accounted <= served

\* A client is told, or will be, that something under this reference failed.
Told(ref) ==
    \/ \E k \in DOMAIN answers : answers[k].call.ref = ref /\ ~answers[k].granted
    \/ \E h \in Attended : call[h].ref = ref /\ ~granted[h]

\* An entry is recorded, is about to be, or has failed for its client.
InHand ==
    \A i \in DOMAIN entries : \/ OnRecord(i) \/ Told(entries[i].ref)
                              \/ \E h \in Booked \cap Attended : entry[h] = i

\* Nothing is booked for nobody that somebody was not told has failed.
OrphansTold == \A q \in Handler : gone[q] /\ pc[q] \in MayBook => Told(call[q].ref)

\* As long as every request has its caller or its answer, every entry is in good
\* hands.
RecordedInv == AttendedOK /\ (Accounted = served => InHand /\ OrphansTold)

\* Bad news stays.
LEMMA ToldStays ==
  ASSUME NEW ref, Told(ref), UNCHANGED answers,
         \A q \in Attended : ~granted[q] =>
            q \in Attended' /\ call'[q] = call[q] /\ ~granted'[q]
  PROVE  Told(ref)'
  BY DEF Told

\* A step that neither ends nor answers a request.
LEMMA KeepsAttended ==
  ASSUME RecordedInv, Attended' = Attended, UNCHANGED <<answers, served>>,
         InHand /\ OrphansTold => InHand' /\ OrphansTold'
  PROVE  RecordedInv'
  BY DEF RecordedInv, AttendedOK, Accounted

LEMMA SteadyRecorded ==
  ASSUME EarningInv, RecordedInv, Steady
  PROVE  RecordedInv'
<1>1. Attended' = Attended /\ UNCHANGED <<entries, answers, served, call, entry>>
      /\ Grows(txns, txns')
  BY DEF Steady, Attended
<1>2. ASSUME NEW ref, Told(ref)
      PROVE  Told(ref)'
  <2>1. \A q \in Attended : ~granted[q] =>
           q \in Attended' /\ call'[q] = call[q] /\ ~granted'[q]
    BY <1>1 DEF Steady, Attended, Running
  <2> QED
    BY <1>1, <1>2, <2>1, ToldStays
<1>3. ASSUME InHand
      PROVE  InHand'
  <2> SUFFICES ASSUME NEW i \in DOMAIN entries
               PROVE  \/ OnRecord(i)' \/ Told(entries[i].ref)'
                      \/ \E h \in Booked' \cap Attended' : entry'[h] = i
    BY <1>1 DEF InHand, OnRecord, Told
  <2>1. CASE OnRecord(i)
    BY <1>1, <2>1 DEF OnRecord, Grows
  <2>2. CASE Told(entries[i].ref)
    <3>1. PICK ref : ref = entries[i].ref
      OBVIOUS
    <3>2. Told(ref)'
      BY <1>2, <2>2, <3>1
    <3> QED
      BY <1>1, <3>1, <3>2 DEF Told
  <2>3. CASE \E h \in Booked \cap Attended : entry[h] = i
    <3>1. PICK h \in Booked \cap Attended : entry[h] = i
      BY <2>3
    <3>2. h \in Handler /\ BookedOK(h)
      BY DEF Booked, EarningInv
    <3>3. h \in Booked' \/ ~granted'[h] \/ OnRecord(entry[h])'
      BY <3>2 DEF Steady
    <3>4. CASE h \in Booked'
      BY <1>1, <3>1, <3>4
    <3>5. CASE ~granted'[h]
      <4>1. entries[i].ref = call[h].ref
        BY <3>1, <3>2 DEF BookedOK
      <4>2. h \in Attended'
        BY <1>1
      <4> QED
        BY <1>1, <3>5, <4>1, <4>2 DEF Told
    <3>6. CASE OnRecord(entry[h])'
      BY <1>1, <3>1, <3>6 DEF OnRecord
    <3> QED
      BY <3>3, <3>4, <3>5, <3>6
  <2> QED
    BY <1>3, <2>1, <2>2, <2>3 DEF InHand
<1>4. ASSUME OrphansTold
      PROVE  OrphansTold'
  <2> SUFFICES ASSUME NEW q \in Handler, gone[q], pc'[q] \in MayBook
               PROVE  Told(call[q].ref)'
    BY DEF OrphansTold, MayBook, Steady, Told
  <2>1. pc[q] \in MayBook
    BY DEF Steady
  <2>2. PICK ref : ref = call[q].ref /\ Told(ref)
    BY <1>4, <2>1 DEF OrphansTold
  <2>3. Told(ref)'
    BY <1>2, <2>2
  <2> QED
    BY <1>1, <2>2, <2>3 DEF Told
<1> QED
  BY <1>1, <1>3, <1>4, KeepsAttended

LEMMA BooksRecorded ==
  ASSUME EarningInv, RecordedInv, NEW h \in Handler, Books(h)
  PROVE  RecordedInv'
<1>1. TypeOK /\ ControlOK(h)
  BY DEF EarningInv
<1>2. PICK n : n = Len(entries) + 1
  OBVIOUS
<1>3. Grows(entries, entries') /\ DOMAIN entries' = DOMAIN entries \cup {n}
      /\ entries'[n].ref = call[h].ref
  <2>1. pc[h] = "book" /\ AddEntry(h)
    BY DEF Books
  <2>2. /\ Grows(entries, entries') /\ DOMAIN entries' = DOMAIN entries \cup {n}
        /\ entries'[n] = [kind |-> Kind(h), ref |-> call[h].ref, amount |-> Amount(h)]
    BY <1>1, <1>2, <2>1, AddEntryAppends
  <2> QED
    BY <2>2
<1>4. /\ entry'[h] = n /\ pc'[h] = "reply" /\ pc[h] = "book"
      /\ \A q \in Handler \ {h} : pc'[q] = pc[q] /\ entry'[q] = entry[q]
      /\ UNCHANGED <<txns, call, granted, gone, answers, served>>
  BY <1>1, <1>2 DEF Books, TypeOK
<1>5. Running' = Running /\ Booked' = Booked \cup {h} /\ h \notin Booked
  BY <1>4 DEF Running, Booked
<1>6. Attended' = Attended
  BY <1>4, <1>5 DEF Attended
<1>7. \A ref : Told(ref)' <=> Told(ref)
  BY <1>4, <1>6 DEF Told
<1>8. \A q \in Handler : pc'[q] \in MayBook <=> pc[q] \in MayBook
  BY <1>4 DEF MayBook
<1>9. OrphansTold => OrphansTold'
  BY <1>4, <1>6, <1>8 DEF OrphansTold, Told, MayBook
<1>10. ASSUME InHand, OrphansTold
       PROVE  InHand'
  <2> SUFFICES ASSUME NEW i \in DOMAIN entries'
               PROVE  \/ OnRecord(i)' \/ Told(entries'[i].ref)
                      \/ \E q \in Booked' \cap Attended : entry'[q] = i
    BY <1>4, <1>6 DEF InHand, Told
  <2>1. CASE i \in DOMAIN entries
    <3>1. entries'[i] = entries[i]
      BY <1>3, <2>1 DEF Grows
    <3>2. \/ OnRecord(i) \/ Told(entries[i].ref)
          \/ \E q \in Booked \cap Attended : entry[q] = i
      BY <1>10, <2>1 DEF InHand
    <3>3. \A q \in Booked : q \in Booked' /\ entry'[q] = entry[q]
      BY <1>4, <1>5 DEF Booked
    <3> QED
      BY <1>4, <3>1, <3>2, <3>3 DEF OnRecord
  <2>2. CASE i = n
    <3>1. CASE gone[h]
      BY <1>3, <1>4, <1>10, <2>2, <3>1 DEF OrphansTold, MayBook
    <3>2. CASE ~gone[h]
      <4>1. h \in Booked' \cap Attended
        BY <1>4, <1>5, <3>2 DEF Attended, Running
      <4> QED
        BY <1>4, <2>2, <4>1
    <3> QED
      BY <3>1, <3>2
  <2> QED
    BY <1>3, <2>1, <2>2
<1> QED
  BY <1>4, <1>6, <1>9, <1>10, KeepsAttended

LEMMA ReceiveRecorded ==
  ASSUME EarningInv, RecordedInv, NEW h \in Handler, Receive(h)
  PROVE  RecordedInv'
<1>1. TypeOK /\ ControlOK(h) /\ pc[h] = "idle" /\ served' = served + 1
      /\ UNCHANGED <<entries, txns, answers, entry, granted, gone>>
  BY DEF EarningInv, Receive, tables
<1>2. /\ pc'[h] \in {"reward", "check"}
      /\ \A q \in Handler \ {h} : pc'[q] = pc[q] /\ call'[q] = call[q]
  BY <1>1 DEF Receive, Goto, TypeOK
<1>3. ~gone[h]
  BY <1>1 DEF ControlOK
<1>4. Attended' = Attended \cup {h} /\ h \notin Attended /\ Booked' = Booked
  BY <1>1, <1>2, <1>3 DEF Attended, Running, Booked
<1>5. IsFiniteSet(Attended)' /\ Cardinality(Attended)' = Cardinality(Attended) + 1
  BY <1>4, FS_AddElement DEF RecordedInv, AttendedOK
<1>6. Cardinality(Attended) \in Nat /\ Len(answers) \in Nat /\ served \in Nat
  <2>1. Cardinality(Attended) \in Nat
    BY FS_CardinalityType DEF RecordedInv, AttendedOK
  <2> QED
    BY <1>1, <2>1 DEF TypeOK
<1>7. Len(answers)' = Len(answers)
  BY <1>1
<1>8. Accounted' = Accounted + 1 /\ Accounted \in Int
  BY <1>5, <1>6, <1>7 DEF Accounted
<1>9. ASSUME NEW ref, Told(ref)
      PROVE  Told(ref)'
  <2>1. \A q \in Attended : ~granted[q] =>
           q \in Attended' /\ call'[q] = call[q] /\ ~granted'[q]
    BY <1>1, <1>2, <1>4 DEF Attended, Running
  <2> QED
    BY <1>1, <1>9, <2>1, ToldStays
<1>10. ASSUME InHand
       PROVE  InHand'
  <2> SUFFICES ASSUME NEW i \in DOMAIN entries
               PROVE  \/ OnRecord(i)' \/ Told(entries[i].ref)'
                      \/ \E q \in Booked' \cap Attended' : entry'[q] = i
    BY <1>1 DEF InHand, OnRecord, Told
  <2>1. PICK ref : ref = entries[i].ref
    OBVIOUS
  <2>2. Told(ref) => Told(entries[i].ref)'
    BY <1>1, <1>9, <2>1 DEF Told
  <2> QED
    BY <1>1, <1>4, <1>10, <2>1, <2>2 DEF InHand, OnRecord
<1>11. ASSUME OrphansTold
       PROVE  OrphansTold'
  <2> SUFFICES ASSUME NEW q \in Handler, gone[q], pc'[q] \in MayBook
               PROVE  Told(call[q].ref)'
    BY <1>1 DEF OrphansTold, MayBook
  <2>1. q # h /\ pc'[q] = pc[q] /\ call'[q] = call[q]
    BY <1>2, <1>3
  <2>2. PICK ref : ref = call[q].ref /\ Told(ref)
    BY <1>11, <2>1 DEF OrphansTold
  <2>3. Told(ref)'
    BY <1>9, <2>2
  <2> QED
    BY <2>1, <2>2, <2>3 DEF Told
<1> QED
  BY <1>1, <1>5, <1>6, <1>8, <1>10, <1>11 DEF RecordedInv, AttendedOK

\* A request that loses its caller is not accounted for any more.
LEMMA LostRecorded ==
  ASSUME EarningInv, RecordedInv, NEW h \in Handler, RewardVoucher(h) \/ Die(h)
  PROVE  RecordedInv'
<1>1. TypeOK /\ ControlOK(h) /\ UNCHANGED <<answers, served>>
  BY DEF EarningInv, RewardVoucher, Die, tables
<1>2. PICK H \in SUBSET Handler : Abandon(H) /\ h \in H
  <2>1. CASE RewardVoucher(h)
    <3>1. Abandon({q \in Handler : call[q].op = "earn"}) /\ call[h].op = "earn"
      BY <1>1, <2>1 DEF RewardVoucher, AtReward, ControlOK
    <3> QED
      BY <3>1
  <2>2. CASE Die(h)
    <3>1. {h} \in SUBSET Handler /\ Abandon({h})
      BY <2>2 DEF Die
    <3> QED
      BY <3>1
  <2> QED
    BY <2>1, <2>2
<1>3. h \in Attended
  BY DEF RewardVoucher, AtReward, Die, Attended, Running
<1>4. Attended' \subseteq Attended \ {h}
  BY <1>1, <1>2, AbandonLeaves DEF Attended, Running
<1>5. IsFiniteSet(Attended) /\ Attended' \in SUBSET Attended /\ Attended' # Attended
  BY <1>3, <1>4 DEF RecordedInv, AttendedOK
<1>6. /\ IsFiniteSet(Attended') /\ Cardinality(Attended') <= Cardinality(Attended)
      /\ Cardinality(Attended') # Cardinality(Attended)
  BY <1>5, FS_Subset
<1>7. Cardinality(Attended) \in Nat /\ Cardinality(Attended') \in Nat
  BY <1>5, <1>6, FS_CardinalityType
<1>8. Len(answers)' = Len(answers) /\ Len(answers) \in Nat /\ served \in Nat /\ served' = served
  BY <1>1 DEF TypeOK
<1>9. Len(answers) + Cardinality(Attended) <= served
  BY DEF RecordedInv, AttendedOK, Accounted
<1>10. Len(answers)' + Cardinality(Attended') < served'
  BY <1>6, <1>7, <1>8, <1>9
<1>11. Accounted' <= served' /\ Accounted' # served'
  BY <1>7, <1>8, <1>10 DEF Accounted
<1> QED
  BY <1>6, <1>11 DEF RecordedInv, AttendedOK

LEMMA AnswerRecorded ==
  ASSUME EarningInv, RecordedInv, NEW h \in Handler, Answer(h)
  PROVE  RecordedInv'
<1>1. TypeOK /\ UNCHANGED <<entries, txns, gone, served>> /\ Drop({h})
      /\ pc[h] = "answer" /\ ~gone[h] /\ {h} \in SUBSET Handler
  BY DEF EarningInv, Answer, tables
<1>2. /\ pc'[h] = "idle"
      /\ \A q \in Handler \ {h} : /\ pc'[q] = pc[q] /\ call'[q] = call[q]
                                  /\ entry'[q] = entry[q] /\ granted'[q] = granted[q]
  BY <1>1, DropLeaves
<1>3. Attended' = Attended \ {h} /\ h \in Attended /\ Booked' = Booked /\ h \notin Booked
  BY <1>1, <1>2 DEF Attended, Running, Booked
<1>4. IsFiniteSet(Attended) /\ Accounted <= served
  BY DEF RecordedInv, AttendedOK
<1>5. IsFiniteSet(Attended)' /\ Cardinality(Attended)' = Cardinality(Attended) - 1
      /\ Cardinality(Attended) \in Nat
  BY <1>3, <1>4, FS_RemoveElement, FS_CardinalityType
<1> DEFINE a == [call |-> call[h], success |-> call[h].op = "earn" \/ granted[h],
                 granted |-> granted[h]]
<1>6. a.call = call[h] /\ a.granted = granted[h]
  OBVIOUS
<1>7. answers' = Append(answers, a) /\ answers \in Seq(Response)
  BY <1>1 DEF TypeOK, Answer
<1> HIDE DEF a
<1>8. /\ Len(answers)' = Len(answers) + 1 /\ Len(answers) \in Nat
      /\ Len(answers) + 1 \in DOMAIN answers' /\ answers'[Len(answers) + 1] = a
      /\ \A k \in DOMAIN answers : k \in DOMAIN answers' /\ answers'[k] = answers[k]
  BY <1>7
<1>9. Accounted' = Accounted
  BY <1>5, <1>8 DEF Accounted
<1>10. ASSUME NEW ref, Told(ref)
       PROVE  Told(ref)'
  <2>1. CASE \E k \in DOMAIN answers : answers[k].call.ref = ref /\ ~answers[k].granted
    BY <1>8, <2>1 DEF Told
  <2>2. CASE \E q \in Attended : call[q].ref = ref /\ ~granted[q]
    <3>1. PICK q \in Attended : call[q].ref = ref /\ ~granted[q]
      BY <2>2
    <3>2. CASE q = h
      BY <1>6, <1>8, <3>1, <3>2 DEF Told
    <3>3. CASE q # h
      <4>1. q \in Attended' /\ call'[q] = call[q] /\ granted'[q] = granted[q]
        BY <1>2, <1>3, <3>3 DEF Attended, Running
      <4> QED
        BY <3>1, <4>1 DEF Told
    <3> QED
      BY <3>2, <3>3
  <2> QED
    BY <1>10, <2>1, <2>2 DEF Told
<1>11. ASSUME InHand
       PROVE  InHand'
  <2> SUFFICES ASSUME NEW i \in DOMAIN entries
               PROVE  \/ OnRecord(i)' \/ Told(entries[i].ref)'
                      \/ \E q \in Booked' \cap Attended' : entry'[q] = i
    BY <1>1 DEF InHand, OnRecord, Told
  <2>1. PICK ref : ref = entries[i].ref
    OBVIOUS
  <2>2. Told(ref) => Told(entries[i].ref)'
    BY <1>1, <1>10, <2>1 DEF Told
  <2>3. \A q \in Booked \cap Attended : q \in Booked' \cap Attended' /\ entry'[q] = entry[q]
    BY <1>2, <1>3 DEF Booked
  <2> QED
    BY <1>1, <1>11, <2>1, <2>2, <2>3 DEF InHand, OnRecord
<1>12. ASSUME OrphansTold
       PROVE  OrphansTold'
  <2> SUFFICES ASSUME NEW q \in Handler, gone[q], pc'[q] \in MayBook
               PROVE  Told(call[q].ref)'
    BY <1>1 DEF OrphansTold, MayBook
  <2>1. q # h /\ pc'[q] = pc[q] /\ call'[q] = call[q]
    BY <1>1, <1>2
  <2>2. PICK ref : ref = call[q].ref /\ Told(ref)
    BY <1>12, <2>1 DEF OrphansTold
  <2>3. Told(ref)'
    BY <1>10, <2>2
  <2> QED
    BY <2>1, <2>2, <2>3 DEF Told
<1> QED
  BY <1>1, <1>4, <1>5, <1>9, <1>11, <1>12 DEF RecordedInv, AttendedOK

LEMMA VanishRecorded ==
  ASSUME EarningInv, RecordedInv, NEW h \in Handler, Vanish(h)
  PROVE  RecordedInv'
<1>1. TypeOK /\ UNCHANGED <<entries, txns, answers, served>> /\ Drop({h})
      /\ gone[h] /\ ~gone'[h] /\ {h} \in SUBSET Handler
      /\ \A q \in Handler \ {h} : gone'[q] = gone[q]
  BY DEF EarningInv, Vanish, tables, TypeOK
<1>2. /\ pc'[h] = "idle"
      /\ \A q \in Handler \ {h} : /\ pc'[q] = pc[q] /\ call'[q] = call[q]
                                  /\ entry'[q] = entry[q] /\ granted'[q] = granted[q]
  BY <1>1, DropLeaves
<1>3. Attended' = Attended /\ h \notin Attended
  BY <1>1, <1>2 DEF Attended, Running
<1>4. ASSUME NEW ref, Told(ref)
      PROVE  Told(ref)'
  <2>1. \A q \in Attended : ~granted[q] =>
           q \in Attended' /\ call'[q] = call[q] /\ ~granted'[q]
    BY <1>2, <1>3 DEF Attended, Running
  <2> QED
    BY <1>1, <1>4, <2>1, ToldStays
<1>5. ASSUME InHand
      PROVE  InHand'
  <2> SUFFICES ASSUME NEW i \in DOMAIN entries
               PROVE  \/ OnRecord(i)' \/ Told(entries[i].ref)'
                      \/ \E q \in Booked' \cap Attended' : entry'[q] = i
    BY <1>1 DEF InHand, OnRecord, Told
  <2>1. PICK ref : ref = entries[i].ref
    OBVIOUS
  <2>2. Told(ref) => Told(entries[i].ref)'
    BY <1>1, <1>4, <2>1 DEF Told
  <2>3. \A q \in Booked \cap Attended : q \in Booked' \cap Attended' /\ entry'[q] = entry[q]
    BY <1>2, <1>3 DEF Booked
  <2> QED
    BY <1>1, <1>5, <2>1, <2>2, <2>3 DEF InHand, OnRecord
<1>6. ASSUME OrphansTold
      PROVE  OrphansTold'
  <2> SUFFICES ASSUME NEW q \in Handler, gone'[q], pc'[q] \in MayBook
               PROVE  Told(call[q].ref)'
    BY DEF OrphansTold, MayBook
  <2>1. q # h /\ pc'[q] = pc[q] /\ call'[q] = call[q] /\ gone[q]
    BY <1>1, <1>2
  <2>2. PICK ref : ref = call[q].ref /\ Told(ref)
    BY <1>6, <2>1 DEF OrphansTold
  <2>3. Told(ref)'
    BY <1>4, <2>2
  <2> QED
    BY <2>1, <2>2, <2>3 DEF Told
<1> QED
  BY <1>1, <1>3, <1>5, <1>6, KeepsAttended

\* Where an orphan leaves the request it was split from.
Splits(h, q) ==
    /\ pc[h] \in Calling \ {"balance"} /\ pc[q] = "idle" /\ h # q
    /\ UNCHANGED <<points, entries, txns, answers, served>>
    /\ faults' \in Nat /\ faults' >= faults
    /\ overlap' = TRUE /\ doubtful' = doubtful \cup {call[h].ref}
    /\ pc'[h] \in {"reward", "answer"} /\ pc'[q] = pc[h]
    /\ call'[h] = call[h] /\ call'[q] = call[h]
    /\ entry'[q] = entry[h] /\ balance'[q] = balance[h]
    /\ ~granted[h] \/ Reported(h) => ~granted'[h]
    /\ gone'[h] = gone[h] /\ gone'[q]
    /\ \A g \in Handler \ {h, q} :
          /\ pc'[g] = pc[g] /\ call'[g] = call[g] /\ entry'[g] = entry[g]
          /\ balance'[g] = balance[g] /\ granted'[g] = granted[g] /\ gone'[g] = gone[g]

LEMMA OrphanMoves ==
  ASSUME EarningInv, NEW h \in Handler, NEW q \in Handler, Orphan(h, q)
  PROVE  Splits(h, q)
<1>1. /\ TypeOK /\ pc[h] \in Calling \ {"balance"} /\ pc[q] = "idle" /\ h # q
      /\ UNCHANGED <<points, entries, txns, answers, served>>
      /\ overlap' = TRUE /\ doubtful' = doubtful \cup {call[h].ref}
  BY DEF EarningInv, Orphan, Calling, tables
<1>2. faults' \in Nat /\ faults' >= faults
  BY <1>1 DEF Orphan, Fault, TypeOK
<1>3. /\ pc'[h] = AfterFailure(h) /\ pc'[q] = pc[h]
      /\ call'[h] = call[h] /\ call'[q] = call[h]
      /\ entry'[q] = entry[h] /\ balance'[q] = balance[h]
      /\ granted'[h] = (granted[h] /\ ~Reported(h))
      /\ gone'[h] = gone[h] /\ gone'[q]
      /\ \A g \in Handler \ {h, q} :
            /\ pc'[g] = pc[g] /\ call'[g] = call[g] /\ entry'[g] = entry[g]
            /\ balance'[g] = balance[g] /\ granted'[g] = granted[g] /\ gone'[g] = gone[g]
  BY <1>1 DEF Orphan, TypeOK
<1>4. pc'[h] \in {"reward", "answer"}
  BY <1>1, <1>3 DEF AfterFailure
<1> QED
  BY <1>1, <1>2, <1>3, <1>4 DEF Splits

\* The client is told that what goes on has failed.
LEMMA OrphanRecorded ==
  ASSUME EarningInv, RecordedInv, NEW h \in Handler, NEW q \in Handler, Orphan(h, q)
  PROVE  RecordedInv'
<1>0. Splits(h, q)
  BY OrphanMoves
<1>1. /\ pc[h] \in Calling \ {"balance"} /\ pc[q] = "idle" /\ h # q
      /\ UNCHANGED <<entries, txns, answers, served>>
      /\ pc'[h] \in {"reward", "answer"} /\ pc'[q] = pc[h]
      /\ call'[h] = call[h] /\ call'[q] = call[h]
  BY <1>0 DEF Splits
<1>11. /\ ~granted[h] \/ Reported(h) => ~granted'[h]
       /\ gone'[h] = gone[h] /\ gone'[q]
  BY <1>0 DEF Splits
<1>12. ASSUME NEW g \in Handler \ {h, q}
       PROVE  /\ pc'[g] = pc[g] /\ call'[g] = call[g] /\ entry'[g] = entry[g]
              /\ granted'[g] = granted[g] /\ gone'[g] = gone[g]
  BY <1>0 DEF Splits
<1>2. ControlOK(h) /\ call[h] \in Call /\ BookedOK(h)
  BY DEF EarningInv, TypeOK
<1>3. Attended' = Attended
  BY <1>1, <1>11, <1>12 DEF Attended, Running, Calling
<1>4. ASSUME NEW ref, Told(ref)
      PROVE  Told(ref)'
  <2>1. \A g \in Attended : ~granted[g] =>
           g \in Attended' /\ call'[g] = call[g] /\ ~granted'[g]
    BY <1>1, <1>11, <1>12, <1>3 DEF Attended, Running
  <2> QED
    BY <1>1, <1>11, <1>12, <1>4, <2>1, ToldStays
<1>5. pc[h] \in MayBook => Reported(h)
  BY <1>1, <1>11, <1>12, <1>2 DEF MayBook, Reported, InAddPoint, ControlOK, Call
<1>6. ASSUME OrphansTold, pc[h] \in MayBook
      PROVE  Told(call[h].ref)'
  <2>1. CASE gone[h]
    <3>1. PICK ref : ref = call[h].ref /\ Told(ref)
      BY <1>6, <2>1 DEF OrphansTold
    <3>2. Told(ref)'
      BY <1>4, <3>1
    <3> QED
      BY <1>1, <1>11, <1>12, <3>1, <3>2, <1>3 DEF Told
  <2>2. CASE ~gone[h]
    <3>1. h \in Attended' /\ ~granted'[h]
      BY <1>1, <1>11, <1>12, <1>3, <1>5, <1>6, <2>2 DEF Attended, Running, Calling
    <3> QED
      BY <1>1, <1>11, <1>12, <3>1 DEF Told
  <2> QED
    BY <2>1, <2>2
<1>7. ASSUME OrphansTold
      PROVE  OrphansTold'
  <2> SUFFICES ASSUME NEW g \in Handler, gone'[g], pc'[g] \in MayBook
               PROVE  Told(call[g].ref)'
    BY DEF OrphansTold, MayBook
  <2>1. CASE g = q
    <3>1. Told(call[h].ref)'
      BY <1>1, <1>11, <1>12, <1>6, <1>7, <2>1
    <3> QED
      BY <1>1, <1>11, <1>12, <2>1, <3>1 DEF Told
  <2>2. CASE g # q
    <3>1. pc'[g] = pc[g] /\ call'[g] = call[g] /\ gone[g]
      BY <1>1, <1>11, <1>12, <2>2 DEF MayBook
    <3>2. PICK ref : ref = call[g].ref /\ Told(ref)
      BY <1>7, <3>1 DEF OrphansTold
    <3>3. Told(ref)'
      BY <1>4, <3>2
    <3> QED
      BY <3>1, <3>2, <3>3 DEF Told
  <2> QED
    BY <2>1, <2>2
<1>8. ASSUME InHand, OrphansTold
      PROVE  InHand'
  <2> SUFFICES ASSUME NEW i \in DOMAIN entries
               PROVE  \/ OnRecord(i)' \/ Told(entries[i].ref)'
                      \/ \E g \in Booked' \cap Attended' : entry'[g] = i
    BY <1>1, <1>11, <1>12 DEF InHand, OnRecord, Told
  <2>1. PICK ref : ref = entries[i].ref
    OBVIOUS
  <2>2. Told(ref) => Told(entries[i].ref)'
    BY <1>1, <1>11, <1>12, <1>4, <2>1 DEF Told
  <2>3. ASSUME NEW g \in Booked \cap Attended, entry[g] = i
        PROVE  \/ Told(entries[i].ref)'
               \/ g \in Booked' \cap Attended' /\ entry'[g] = i
    <3>1. CASE g = h
      <4>1. pc[h] \in MayBook /\ entries[i].ref = call[h].ref
        BY <1>2, <2>3, <3>1 DEF Booked, MayBook, BookedOK
      <4>2. Told(call[h].ref)'
        BY <1>6, <1>8, <4>1
      <4> QED
        BY <1>1, <1>11, <1>12, <4>1, <4>2 DEF Told
    <3>2. CASE g # h
      BY <1>1, <1>11, <1>12, <1>3, <2>3, <3>2 DEF Booked
    <3> QED
      BY <3>1, <3>2
  <2> QED
    BY <1>1, <1>11, <1>12, <1>8, <2>1, <2>2, <2>3 DEF InHand, OnRecord
<1> QED
  BY <1>1, <1>11, <1>12, <1>3, <1>7, <1>8, KeepsAttended

LEMMA NextRecorded == EarningInv /\ RecordedInv /\ [Next]_vars => RecordedInv'
<1>1. ASSUME EarningInv, RecordedInv, NEW h \in Handler,
             LookUpFails(h) \/ (Step(h) /\ UNCHANGED history)
      PROVE  RecordedInv'
  BY <1>1, StepKinds, SteadyRecorded, BooksRecorded, LostRecorded, AnswerRecorded,
     VanishRecorded
<1>2. ASSUME RecordedInv, UNCHANGED vars
      PROVE  RecordedInv'
  <2>1. Attended' = Attended /\ Booked' = Booked
    BY <1>2 DEF vars, local, Attended, Running, Booked
  <2> QED
    BY <1>2, <2>1 DEF vars, tables, local, RecordedInv, AttendedOK, Accounted, InHand,
                      OrphansTold, OnRecord, Told
<1> QED
  BY <1>1, <1>2, ReceiveRecorded, OrphanRecorded DEF Next, Rest

\* As long as no request has lost its caller, what the ledger booked is recorded,
\* about to be, or reported as failed to the client - and nothing is booked for
\* nobody under a reference no client heard of a failure for.
THEOREM RecordedInvariant == Spec => []RecordedInv
<1>1. Init => RecordedInv
  <2> SUFFICES ASSUME Init PROVE RecordedInv
    OBVIOUS
  <2>1. Attended = {} /\ entries = <<>> /\ Len(answers) = 0 /\ served = 0
        /\ \A q \in Handler : ~gone[q]
    BY DEF Init, Attended, Running
  <2>2. IsFiniteSet(Attended) /\ Cardinality(Attended) = 0
    BY <2>1, FS_EmptySet
  <2>3. Accounted = 0
    BY <2>1, <2>2 DEF Accounted
  <2> QED
    BY <2>1, <2>2, <2>3 DEF RecordedInv, AttendedOK, InHand, OrphansTold
<1> QED
  BY <1>1, NextRecorded, EarningInvariant, PTL DEF Spec

\* Once every request is answered, each entry of the ledger is recorded by AddPoint
\* or Redemption, or a client was told of a failure under its reference.
THEOREM EverythingIsRecorded == Spec => []EverythingRecorded
<1>1. EarningInv /\ RecordedInv => EverythingRecorded
  <2> SUFFICES ASSUME EarningInv, RecordedInv, Len(answers) = served,
                      NEW i \in DOMAIN entries
               PROVE  \/ \E k \in DOMAIN txns : txns[k].entry = i
                      \/ \E k \in DOMAIN answers :
                            answers[k].call.ref = entries[i].ref /\ ~answers[k].granted
    BY DEF EverythingRecorded
  <2>1. Len(answers) \in Nat
    BY DEF EarningInv, TypeOK
  <2>2. IsFiniteSet(Attended) /\ Len(answers) + Cardinality(Attended) <= served
    BY DEF RecordedInv, AttendedOK, Accounted
  <2>3. Cardinality(Attended) \in Nat
    BY <2>2, FS_CardinalityType
  <2>4. Cardinality(Attended) = 0
    BY <2>1, <2>2, <2>3
  <2>5. Attended = {}
    BY <2>2, <2>4, FS_EmptySet
  <2>6. InHand
    BY <2>1, <2>4 DEF RecordedInv, Accounted
  <2> QED
    BY <2>5, <2>6 DEF InHand, OnRecord, Told
<1> QED
  BY <1>1, EarningInvariant, RecordedInvariant, PTL

----------------------------------------------------------------------------
(***************************************************************************)
(* References that requests share.                                         *)
(***************************************************************************)

\* Two requests at work under one reference have it marked.
SharedOK ==
    \A g, h \in Running : g # h /\ call[g].ref = call[h].ref => call[g].ref \in doubtful

\* What the look-up found free stays free until it is booked.
StillFree(h) ==
    pc[h] = "book" /\ call[h].ref \notin doubtful =>
        \A i \in DOMAIN entries : entries[i].ref # call[h].ref

CreditInv == SharedOK /\ (\A h \in Handler : StillFree(h)) /\ CreditedOnce

\* A step that books nothing.
LEMMA KeepsCredit ==
  ASSUME CreditInv, UNCHANGED entries, doubtful \subseteq doubtful', SharedOK',
         \A h \in Handler : StillFree(h)'
  PROVE  CreditInv'
  BY DEF CreditInv, CreditedOnce

LEMMA SteadyCredit ==
  ASSUME CreditInv, Steady
  PROVE  CreditInv'
<1>1. UNCHANGED <<entries, call>> /\ doubtful \subseteq doubtful' /\ Running' = Running
  BY DEF Steady
<1>2. SharedOK'
  BY <1>1 DEF CreditInv, SharedOK
<1>3. ASSUME NEW h \in Handler
      PROVE  StillFree(h)'
  <2>1. pc'[h] = "book" => \/ pc[h] = "book" \/ ~ReferenceUsed(call[h].ref)
                           \/ call[h].ref \in doubtful'
    BY DEF Steady
  <2> QED
    BY <1>1, <2>1 DEF CreditInv, StillFree, ReferenceUsed
<1> QED
  BY <1>1, <1>2, <1>3, KeepsCredit

LEMMA BooksCredit ==
  ASSUME EarningInv, CreditInv, NEW h \in Handler, Books(h), UNCHANGED doubtful
  PROVE  CreditInv'
<1>1. TypeOK /\ ControlOK(h) /\ pc[h] = "book" /\ AddEntry(h) /\ UNCHANGED call
      /\ pc'[h] = "reply" /\ \A q \in Handler \ {h} : pc'[q] = pc[q]
  BY DEF EarningInv, Books
<1>2. PICK n : n = Len(entries) + 1
  OBVIOUS
<1>3. /\ Grows(entries, entries') /\ DOMAIN entries' = DOMAIN entries \cup {n}
      /\ entries'[n].ref = call[h].ref
  <2>1. /\ Grows(entries, entries') /\ DOMAIN entries' = DOMAIN entries \cup {n}
        /\ entries'[n] = [kind |-> Kind(h), ref |-> call[h].ref, amount |-> Amount(h)]
    BY <1>1, <1>2, AddEntryAppends
  <2> QED
    BY <2>1
<1>4. \A i \in DOMAIN entries : entries'[i] = entries[i]
  BY <1>3 DEF Grows
<1>5. Running' = Running /\ h \in Running
  BY <1>1 DEF Running
<1>6. SharedOK'
  BY <1>1, <1>5 DEF CreditInv, SharedOK
<1>7. ASSUME NEW q \in Handler
      PROVE  StillFree(q)'
  <2> SUFFICES ASSUME pc'[q] = "book", call[q].ref \notin doubtful, NEW i \in DOMAIN entries'
               PROVE  entries'[i].ref # call[q].ref
    BY <1>1 DEF StillFree
  <2>1. q # h /\ pc[q] = "book" /\ q \in Running
    BY <1>1 DEF Running
  <2>2. call[q].ref # call[h].ref
    BY <1>5, <2>1 DEF CreditInv, SharedOK
  <2>3. \A j \in DOMAIN entries : entries[j].ref # call[q].ref
    BY <2>1 DEF CreditInv, StillFree
  <2> QED
    BY <1>3, <1>4, <2>2, <2>3
<1>8. CreditedOnce'
  <2> SUFFICES ASSUME NEW i \in DOMAIN entries', NEW j \in DOMAIN entries',
                      entries'[i].ref = entries'[j].ref, i # j
               PROVE  entries'[i].ref \in doubtful
    BY DEF CreditedOnce
  <2>1. ASSUME NEW k \in DOMAIN entries, entries[k].ref = call[h].ref
        PROVE  call[h].ref \in doubtful
    BY <1>1, <2>1 DEF CreditInv, StillFree
  <2>2. CASE i \in DOMAIN entries /\ j \in DOMAIN entries
    BY <1>4, <2>2 DEF CreditInv, CreditedOnce
  <2>3. CASE i = n \/ j = n
    BY <1>3, <1>4, <2>1, <2>3
  <2> QED
    BY <1>3, <2>2, <2>3
<1> QED
  BY <1>6, <1>7, <1>8 DEF CreditInv

LEMMA EndCredit ==
  ASSUME EarningInv, CreditInv, NEW h \in Handler, UNCHANGED doubtful,
         RewardVoucher(h) \/ Answer(h) \/ Die(h) \/ Vanish(h)
  PROVE  CreditInv'
<1>1. /\ UNCHANGED entries /\ Running' \subseteq Running
      /\ \A q \in Running' : pc'[q] = pc[q] /\ call'[q] = call[q]
  BY EndLeaves
<1>2. SharedOK'
  BY <1>1 DEF CreditInv, SharedOK
<1>3. ASSUME NEW q \in Handler
      PROVE  StillFree(q)'
  <2> SUFFICES ASSUME pc'[q] = "book"
               PROVE  StillFree(q)'
    BY DEF StillFree
  <2>1. q \in Running'
    BY DEF Running
  <2> QED
    BY <1>1, <2>1 DEF CreditInv, StillFree
<1> QED
  BY <1>1, <1>2, <1>3, KeepsCredit

LEMMA ReceiveCredit ==
  ASSUME EarningInv, CreditInv, NEW h \in Handler, Receive(h)
  PROVE  CreditInv'
<1>1. TypeOK /\ UNCHANGED entries /\ pc[h] = "idle"
  BY DEF EarningInv, Receive, tables
<1>2. PICK c \in Calls :
         /\ call' = [call EXCEPT ![h] = c]
         /\ Goto(h, IF c.op = "earn" THEN "reward" ELSE "check")
         /\ doubtful' = doubtful \cup ({c.ref} \cap {call[q].ref : q \in Running})
  BY DEF Receive
<1>3. /\ pc'[h] \in {"reward", "check"} /\ call'[h] = c
      /\ \A q \in Handler \ {h} : pc'[q] = pc[q] /\ call'[q] = call[q]
  BY <1>1, <1>2 DEF Goto, TypeOK
<1>4. /\ doubtful \subseteq doubtful'
      /\ \A q \in Running : call[q].ref = c.ref => c.ref \in doubtful'
  BY <1>2
<1>5. Running' = Running \cup {h} /\ h \notin Running
  BY <1>1, <1>3 DEF Running
<1>6. SharedOK'
  <2> SUFFICES ASSUME NEW g \in Running', NEW q \in Running', g # q,
                      call'[g].ref = call'[q].ref
               PROVE  call'[g].ref \in doubtful'
    BY DEF SharedOK
  <2>1. CASE g = h
    BY <1>3, <1>4, <1>5, <2>1 DEF Running
  <2>2. CASE q = h
    BY <1>3, <1>4, <1>5, <2>2 DEF Running
  <2>3. CASE g # h /\ q # h
    BY <1>3, <1>4, <1>5, <2>3 DEF CreditInv, SharedOK, Running
  <2> QED
    BY <2>1, <2>2, <2>3
<1>7. ASSUME NEW q \in Handler
      PROVE  StillFree(q)'
  BY <1>1, <1>3, <1>4 DEF CreditInv, StillFree
<1> QED
  BY <1>1, <1>4, <1>6, <1>7, KeepsCredit

LEMMA OrphanCredit ==
  ASSUME EarningInv, CreditInv, NEW h \in Handler, NEW q \in Handler, Orphan(h, q)
  PROVE  CreditInv'
<1>1. Splits(h, q)
  BY OrphanMoves
<1>2. /\ UNCHANGED entries /\ doubtful' = doubtful \cup {call[h].ref}
      /\ pc[h] # "idle" /\ pc[q] = "idle" /\ h # q
      /\ pc'[h] \in {"reward", "answer"} /\ pc'[q] = pc[h]
      /\ call'[h] = call[h] /\ call'[q] = call[h]
      /\ \A g \in Handler \ {h, q} : pc'[g] = pc[g] /\ call'[g] = call[g]
  BY <1>1 DEF Splits, Calling
<1>3. Running' = Running \cup {q}
  BY <1>2 DEF Running
<1>4. SharedOK'
  <2> SUFFICES ASSUME NEW g \in Running', NEW k \in Running', g # k,
                      call'[g].ref = call'[k].ref, call'[g].ref # call[h].ref
               PROVE  call'[g].ref \in doubtful'
    BY <1>2 DEF SharedOK
  <2>1. g \in Handler \ {h, q} /\ k \in Handler \ {h, q}
    BY <1>2 DEF Running
  <2> QED
    BY <1>2, <1>3, <2>1 DEF CreditInv, SharedOK
<1>5. ASSUME NEW g \in Handler
      PROVE  StillFree(g)'
  <2>1. CASE g \in {h, q}
    BY <1>2, <2>1 DEF StillFree
  <2>2. CASE g \in Handler \ {h, q}
    BY <1>2, <2>2 DEF CreditInv, StillFree
  <2> QED
    BY <2>1, <2>2
<1> QED
  BY <1>2, <1>4, <1>5, KeepsCredit

LEMMA NextCredit == EarningInv /\ CreditInv /\ [Next]_vars => CreditInv'
<1>1. ASSUME EarningInv, CreditInv, NEW h \in Handler,
             LookUpFails(h) \/ (Step(h) /\ UNCHANGED history)
      PROVE  CreditInv'
  <2>1. CASE Steady
    BY <1>1, <2>1, SteadyCredit
  <2>2. CASE Books(h) /\ UNCHANGED history
    BY <1>1, <2>2, BooksCredit DEF history
  <2>3. CASE (RewardVoucher(h) \/ Answer(h) \/ Die(h) \/ Vanish(h)) /\ UNCHANGED history
    BY <1>1, <2>3, EndCredit DEF history
  <2> QED
    BY <1>1, <2>1, <2>2, <2>3, StepKinds
<1>2. ASSUME CreditInv, UNCHANGED vars
      PROVE  CreditInv'
  BY <1>2 DEF vars, tables, local, history, CreditInv, SharedOK, StillFree, CreditedOnce,
              Running
<1> QED
  BY <1>1, <1>2, ReceiveCredit, OrphanCredit DEF Next, Rest

\* What AddEntry's look-up found free is free when it is booked, but for references
\* two requests had at the same time, or whose look-up failed.
THEOREM CreditInvariant == Spec => []CreditInv
<1>1. Init => CreditInv
  BY DEF Init, CreditInv, SharedOK, StillFree, CreditedOnce, Running
<1> QED
  BY <1>1, NextCredit, EarningInvariant, PTL DEF Spec

\* An event that is sent again - after an answer, an error or a crash - is not
\* credited again, unless an attempt before was still at work or AddEntry's look-up
\* failed, whose error the ledger ignores.
THEOREM CreditsHappenOnce == Spec => []CreditedOnce
<1>1. CreditInv => CreditedOnce
  BY DEF CreditInv
<1> QED
  BY <1>1, CreditInvariant, PTL

----------------------------------------------------------------------------
(***************************************************************************)
(* The balance AddPoint reads in a call of its own.                        *)
(***************************************************************************)

Explained == points = BalanceAt(Len(entries))
OneAtATime == ~overlap => \A g, h \in Running : g = h

\* What a request knows of the account once it has booked.
KnowsBalance(h) ==
    /\ ~overlap /\ pc[h] \in {"reply", "balance"} => entry[h] = Len(entries)
    /\ pc[h] = "record" /\ call[h].op = "earn" => BalanceRead(entry[h], balance[h])

SerialInv == Explained /\ OneAtATime /\ (\A h \in Handler : KnowsBalance(h)) /\ BalanceAfterTrue

\* The balances there were stay what they were.
HistoryKept ==
    /\ Len(entries)' \in Nat /\ Len(entries)' >= Len(entries)
    /\ \A m \in 0..Len(entries) : BalanceAt(m)' = BalanceAt(m)
    /\ overlap => overlap'
    /\ faults > 0 => faults' > 0

LEMMA ReadStays ==
  ASSUME TypeOK, HistoryKept, NEW n \in Nat, NEW b, BalanceRead(n, b)
  PROVE  BalanceRead(n, b)'
<1>1. Len(entries) \in Nat
  BY DEF TypeOK
<1>2. CASE b = 0 /\ (overlap \/ faults > 0)
  BY <1>2 DEF BalanceRead, HistoryKept
<1>3. CASE \E m \in n..Len(entries) : b = BalanceAt(m) /\ (overlap \/ m = n)
  <2>1. PICK m \in n..Len(entries) : b = BalanceAt(m) /\ (overlap \/ m = n)
    BY <1>3
  <2>2. m \in 0..Len(entries) /\ m \in n..Len(entries)'
    BY <1>1, <2>1 DEF HistoryKept
  <2>3. BalanceAt(m)' = b /\ (overlap' \/ m = n)
    BY <2>1, <2>2 DEF HistoryKept
  <2> QED
    BY <2>2, <2>3 DEF BalanceRead
<1> QED
  BY <1>2, <1>3 DEF BalanceRead

LEMMA SameEntries ==
  ASSUME TypeOK, UNCHANGED entries, overlap => overlap', faults' \in Nat, faults' >= faults
  PROVE  HistoryKept /\ \A m : BalanceAt(m)' = BalanceAt(m)
<1>1. Len(entries) \in Nat /\ faults \in Nat
  BY DEF TypeOK
<1>2. \A m : BalanceAt(m)' = BalanceAt(m)
  BY DEF BalanceAt
<1> QED
  BY <1>1, <1>2 DEF HistoryKept

\* What is on record stays true.
LEMMA RecordsStay ==
  ASSUME EarningInv, SerialInv, HistoryKept, UNCHANGED txns
  PROVE  BalanceAfterTrue'
<1> SUFFICES ASSUME NEW k \in DOMAIN txns, txns[k].kind = "CREDIT"
             PROVE  BalanceRead(txns[k].entry, txns[k].balanceAfter)'
  BY DEF BalanceAfterTrue
<1>1. PICK n, b : n = txns[k].entry /\ b = txns[k].balanceAfter
  OBVIOUS
<1>2. n \in Nat
  <2>1. txns[k] \in PointTransaction
    BY DEF EarningInv, TypeOK
  <2> QED
    BY <1>1, <2>1 DEF PointTransaction
<1>3. BalanceRead(n, b)'
  BY <1>1, <1>2, ReadStays DEF EarningInv, SerialInv, BalanceAfterTrue
<1> QED
  BY <1>1, <1>3 DEF BalanceRead, BalanceAt

\* A step that books nothing and records nothing.
LEMMA KeepsSerial ==
  ASSUME EarningInv, SerialInv, UNCHANGED <<points, entries, txns>>, overlap => overlap',
         faults' \in Nat, faults' >= faults, OneAtATime',
         \A h \in Handler : KnowsBalance(h)'
  PROVE  SerialInv'
<1>1. HistoryKept /\ \A m : BalanceAt(m)' = BalanceAt(m)
  BY SameEntries DEF EarningInv
<1>2. Explained'
  BY DEF SerialInv, Explained, BalanceAt
<1>3. BalanceAfterTrue'
  BY <1>1, RecordsStay
<1> QED
  BY <1>2, <1>3 DEF SerialInv

\* A request that stays where it is knows what it knew.
LEMMA KnowsStill ==
  ASSUME EarningInv, SerialInv, HistoryKept, UNCHANGED <<entries, overlap>>,
         NEW h \in Handler, call'[h] = call[h], entry'[h] = entry[h],
         pc'[h] \in {"reply", "balance"} => pc[h] \in {"reply", "balance"},
         pc'[h] = "record" /\ call[h].op = "earn" =>
            pc[h] = "record" /\ balance'[h] = balance[h]
  PROVE  KnowsBalance(h)'
<1>1. ASSUME ~overlap, pc'[h] \in {"reply", "balance"}
      PROVE  entry'[h] = Len(entries')
  BY <1>1 DEF SerialInv, KnowsBalance
<1>2. ASSUME pc'[h] = "record", call[h].op = "earn"
      PROVE  BalanceRead(entry[h], balance[h])'
  <2>1. PICK n, b : n = entry[h] /\ b = balance[h]
    OBVIOUS
  <2>2. n \in Nat /\ BalanceRead(n, b)
    BY <1>2, <2>1 DEF EarningInv, TypeOK, SerialInv, KnowsBalance
  <2>3. BalanceRead(n, b)'
    BY <2>2, ReadStays DEF EarningInv
  <2> QED
    BY <1>2, <2>1, <2>3 DEF BalanceRead, BalanceAt
<1> QED
  BY <1>1, <1>2 DEF KnowsBalance

\* The balance just read is the one the last entry left.
LEMMA SteadyKnows ==
  ASSUME EarningInv, SerialInv, Steady, NEW h \in Handler
  PROVE  KnowsBalance(h)'
<1>1. /\ TypeOK /\ BookedOK(h) /\ UNCHANGED <<points, entries, call, entry, overlap>>
      /\ faults' \in Nat /\ faults' >= faults
  BY DEF EarningInv, Steady
<1>2. HistoryKept /\ \A m : BalanceAt(m)' = BalanceAt(m)
  BY <1>1, SameEntries
<1>3. pc'[h] \in {"reply", "balance"} => pc[h] \in {"reply", "balance"}
  BY DEF Steady
<1>4. CASE pc'[h] = "record" /\ call[h].op = "earn" =>
              pc[h] = "record" /\ balance'[h] = balance[h]
  BY <1>1, <1>2, <1>3, <1>4, KnowsStill
<1>6. CASE pc'[h] = "record" /\ pc[h] = "balance" /\ balance'[h] = points
  <2>1. PICK n : n = Len(entries)
    OBVIOUS
  <2>2. entry[h] \in 1..n /\ n \in Nat
    BY <1>1, <1>6, <2>1 DEF BookedOK, Booked, TypeOK
  <2>3. overlap \/ entry[h] = n
    BY <1>6, <2>1 DEF SerialInv, KnowsBalance
  <2>4. balance'[h] = BalanceAt(n)'
    BY <1>2, <1>6, <2>1 DEF SerialInv, Explained
  <2>5. n \in entry'[h]..Len(entries') /\ (overlap' \/ n = entry'[h])
    BY <1>1, <2>1, <2>2, <2>3
  <2> QED
    BY <1>6, <2>4, <2>5 DEF KnowsBalance, BalanceRead
<1>7. CASE /\ pc'[h] = "record" /\ pc[h] = "balance" /\ balance'[h] = 0
           /\ (faults' > 0 \/ \E g \in Running : g # h)
  <2>1. h \in Running
    BY <1>7 DEF Running
  <2>2. overlap' \/ faults' > 0
    BY <1>1, <1>7, <2>1 DEF SerialInv, OneAtATime
  <2> QED
    BY <1>7, <2>2 DEF KnowsBalance, BalanceRead
<1> QED
  BY <1>4, <1>6, <1>7 DEF Steady

\* A transaction that is recorded is the one of the request that books it.
LEMMA Transactions ==
  ASSUME TypeOK, NEW h \in Handler, LookUpFails(h) \/ Step(h)
  PROVE  \/ UNCHANGED txns
         \/ pc[h] = "record" /\ txns' = Append(txns, Transaction(h))
<1>1. CASE Record(h)
  BY <1>1 DEF Record
<1>2. CASE LookUpFails(h) \/ (Step(h) /\ ~Record(h))
  BY <1>2 DEF LookUpFails, Step, RewardPoint, Notify, RewardVoucher, EndOfRewards,
              CheckBalance, LogBalance, Panic, LookUp, Book, Reply, ReadBalance, Answer,
              CallFails, Die, Vanish, tables
<1> QED
  BY <1>1, <1>2

LEMMA SteadySerial ==
  ASSUME EarningInv, SerialInv, Steady, NEW h \in Handler, LookUpFails(h) \/ Step(h)
  PROVE  SerialInv'
<1>1. /\ TypeOK /\ UNCHANGED <<points, entries, overlap>> /\ Running' = Running
      /\ faults' \in Nat /\ faults' >= faults
  BY DEF EarningInv, Steady
<1>2. HistoryKept /\ \A m : BalanceAt(m)' = BalanceAt(m)
  BY <1>1, SameEntries
<1>3. Explained' /\ OneAtATime'
  BY <1>1 DEF SerialInv, Explained, OneAtATime, BalanceAt
<1>4. \A q \in Handler : KnowsBalance(q)'
  BY SteadyKnows
<1>5. CASE UNCHANGED txns
  BY <1>2, <1>3, <1>4, <1>5, RecordsStay DEF SerialInv
<1>6. CASE pc[h] = "record" /\ txns' = Append(txns, Transaction(h))
  <2> DEFINE t == Transaction(h)
  <2>1. t.entry = entry[h] /\ t.balanceAfter = balance[h] /\ t.kind = Kind(h)
    BY DEF Transaction
  <2>2. txns \in Seq(PointTransaction) /\ txns' = Append(txns, t)
    BY <1>1, <1>6 DEF TypeOK
  <2> HIDE DEF t
  <2> SUFFICES ASSUME NEW k \in DOMAIN txns', txns'[k].kind = "CREDIT"
               PROVE  BalanceRead(txns[k].entry, txns[k].balanceAfter)'
    BY <1>3, <1>4 DEF SerialInv, BalanceAfterTrue
  <2>3. PICK n, b : n = txns'[k].entry /\ b = txns'[k].balanceAfter
    OBVIOUS
  <2>4. \/ k \in DOMAIN txns /\ txns'[k] = txns[k]
        \/ txns'[k] = t
    BY <2>2
  <2>5. BalanceRead(n, b)'
    <3>1. CASE k \in DOMAIN txns /\ txns'[k] = txns[k]
      <4>1. txns[k] \in PointTransaction
        BY <2>2, <3>1
      <4>2. n \in Nat /\ BalanceRead(n, b)
        BY <2>3, <3>1, <4>1 DEF PointTransaction, SerialInv, BalanceAfterTrue
      <4> QED
        BY <1>1, <1>2, <4>2, ReadStays
    <3>2. CASE txns'[k] = t
      <4>1. n = entry[h] /\ b = balance[h] /\ call[h].op = "earn"
        BY <2>1, <2>3, <3>2 DEF Kind
      <4>2. n \in Nat /\ BalanceRead(n, b)
        BY <1>1, <1>6, <4>1 DEF TypeOK, SerialInv, KnowsBalance
      <4> QED
        BY <1>1, <1>2, <4>2, ReadStays
    <3> QED
      BY <2>4, <3>1, <3>2
  <2> QED
    BY <2>3, <2>5 DEF BalanceRead, BalanceAt
<1> QED
  BY <1>5, <1>6, Transactions DEF EarningInv

\* An entry more, and the balance it leaves.
LEMMA BooksSerial ==
  ASSUME EarningInv, SerialInv, NEW h \in Handler, Books(h), UNCHANGED overlap
  PROVE  SerialInv'
<1> DEFINE e == [kind |-> Kind(h), ref |-> call[h].ref, amount |-> Amount(h)]
<1>1. /\ TypeOK /\ ControlOK(h) /\ entries \in Seq(LedgerEntry) /\ points \in Nat
      /\ pc[h] = "book" /\ pc'[h] = "reply" /\ AddEntry(h) /\ entry'[h] = Len(entries) + 1
      /\ \A q \in Handler \ {h} : pc'[q] = pc[q] /\ entry'[q] = entry[q]
      /\ UNCHANGED <<txns, call, balance, faults>>
  BY DEF EarningInv, TypeOK, Books
<1>2. PICK n : n = Len(entries) + 1
  OBVIOUS
<1>3. /\ entries' \in Seq(LedgerEntry) /\ DOMAIN entries' = DOMAIN entries \cup {n}
      /\ entries'[n] = e
  BY <1>1, <1>2, AddEntryAppends
<1>4. e \in LedgerEntry
  BY <1>2, <1>3
<1>5. Len(entries') = n /\ entries' = Append(entries, e) /\ n \in Nat
  BY <1>1, <1>2, <1>4 DEF AddEntry
<1>6. e.amount = Amount(h) /\ e.kind = Kind(h) /\ Amount(h) \in Int
  BY <1>4 DEF LedgerEntry
<1> HIDE DEF e
<1>7. /\ \A m \in 0..Len(entries) : BalanceAt(m)' = BalanceAt(m)
      /\ BalanceAt(n)' = BalanceAt(Len(entries)) + Signed(e)
  <2>1. \A m \in 0..Len(entries) : Balances(entries')[m] = Balances(entries)[m]
    BY <1>1, <1>4, <1>5, BalancesAppend
  <2>2. Balances(entries')[n] = Balances(entries)[Len(entries)] + Signed(e)
    BY <1>1, <1>2, <1>4, <1>5, BalancesAppend
  <2>3. \A m \in 0..n : BalanceAt(m)' = Balances(entries')[m]
    BY DEF BalanceAt, Balances
  <2>4. n \in 0..n /\ \A m \in 0..Len(entries) : m \in 0..n
    BY <1>1, <1>2
  <2> QED
    BY <2>1, <2>2, <2>3, <2>4, BalanceAtIs
<1>8. HistoryKept
  BY <1>1, <1>2, <1>5, <1>7 DEF HistoryKept
<1>9. Explained'
  <2>1. points' = points + Signed(e)
    BY <1>1, <1>6 DEF AddEntry, Account!Credit, Account!Debit, Signed, Kind
  <2>2. points' = BalanceAt(n)'
    BY <1>7, <2>1 DEF SerialInv, Explained
  <2> QED
    BY <1>5, <2>2 DEF Explained, BalanceAt
<1>10. Running' = Running /\ h \in Running
  BY <1>1 DEF Running
<1>11. OneAtATime'
  BY <1>10 DEF SerialInv, OneAtATime
<1>12. ASSUME NEW q \in Handler
       PROVE  KnowsBalance(q)'
  <2>1. ASSUME ~overlap, pc'[q] \in {"reply", "balance"}
        PROVE  entry'[q] = Len(entries')
    <3>1. q \in Running
      BY <2>1, <1>10 DEF Running
    <3>2. q = h
      BY <1>10, <2>1, <3>1 DEF SerialInv, OneAtATime
    <3> QED
      BY <1>1, <1>2, <1>5, <3>2
  <2>2. ASSUME pc'[q] = "record", call[q].op = "earn"
        PROVE  BalanceRead(entry[q], balance[q])' /\ entry'[q] = entry[q]
    <3>1. pc[q] = "record" /\ entry'[q] = entry[q]
      BY <1>1, <2>2
    <3>2. PICK m, b : m = entry[q] /\ b = balance[q]
      OBVIOUS
    <3>3. m \in Nat /\ BalanceRead(m, b)
      BY <1>1, <2>2, <3>1, <3>2 DEF TypeOK, SerialInv, KnowsBalance
    <3>4. BalanceRead(m, b)'
      BY <1>1, <1>8, <3>3, ReadStays
    <3> QED
      BY <1>1, <3>1, <3>2, <3>4 DEF BalanceRead, BalanceAt
  <2> QED
    BY <1>1, <2>1, <2>2 DEF KnowsBalance
<1>13. BalanceAfterTrue'
  BY <1>1, <1>8, RecordsStay
<1> QED
  BY <1>9, <1>11, <1>12, <1>13 DEF SerialInv

LEMMA EndSerial ==
  ASSUME EarningInv, SerialInv, NEW h \in Handler, UNCHANGED overlap,
         RewardVoucher(h) \/ Answer(h) \/ Die(h) \/ Vanish(h)
  PROVE  SerialInv'
<1>1. /\ UNCHANGED <<points, entries, txns>>
      /\ faults' \in Nat /\ faults' >= faults /\ Running' \subseteq Running
      /\ \A q \in Running' : /\ pc'[q] = pc[q] /\ call'[q] = call[q]
                             /\ entry'[q] = entry[q] /\ balance'[q] = balance[q]
  BY EndLeaves
<1>2. OneAtATime'
  BY <1>1 DEF SerialInv, OneAtATime
<1>3. HistoryKept
  BY <1>1, SameEntries DEF EarningInv
<1>4. ASSUME NEW q \in Handler
      PROVE  KnowsBalance(q)'
  <2>1. CASE q \in Running'
    BY <1>1, <1>3, <2>1, KnowsStill
  <2>2. CASE q \notin Running'
    BY <2>2 DEF Running, KnowsBalance
  <2> QED
    BY <2>1, <2>2
<1> QED
  BY <1>1, <1>2, <1>4, KeepsSerial

LEMMA ReceiveSerial ==
  ASSUME EarningInv, SerialInv, NEW h \in Handler, Receive(h)
  PROVE  SerialInv'
<1>1. /\ TypeOK /\ UNCHANGED <<points, entries, txns, entry, balance, faults>>
      /\ overlap' = (overlap \/ Running # {})
  BY DEF EarningInv, Receive, tables
<1>2. /\ pc'[h] \in {"reward", "check"}
      /\ \A q \in Handler \ {h} : pc'[q] = pc[q] /\ call'[q] = call[q]
  BY <1>1 DEF Receive, Goto, TypeOK
<1>3. faults' \in Nat /\ faults' >= faults
  BY <1>1 DEF TypeOK
<1>4. OneAtATime'
  <2> SUFFICES ASSUME Running = {}, NEW g \in Running', NEW q \in Running'
               PROVE  g = q
    BY <1>1 DEF OneAtATime
  <2> QED
    BY <1>2 DEF Running
<1>5. HistoryKept
  BY <1>1, <1>3, SameEntries
<1>6. ASSUME NEW q \in Handler, q # h
      PROVE  KnowsBalance(q)'
  <2>1. ASSUME ~overlap', pc'[q] \in {"reply", "balance"}
        PROVE  entry'[q] = Len(entries')
    BY <1>1, <1>2, <1>6, <2>1 DEF Running
  <2>2. ASSUME pc'[q] = "record", call'[q].op = "earn"
        PROVE  BalanceRead(entry[q], balance[q])'
    <3>1. PICK m, b : m = entry[q] /\ b = balance[q]
      OBVIOUS
    <3>2. m \in Nat /\ BalanceRead(m, b)
      BY <1>1, <1>2, <1>6, <2>2, <3>1 DEF TypeOK, SerialInv, KnowsBalance
    <3>3. BalanceRead(m, b)'
      BY <1>1, <1>5, <3>2, ReadStays
    <3> QED
      BY <1>1, <3>1, <3>3 DEF BalanceRead, BalanceAt
  <2> QED
    BY <2>1, <2>2 DEF KnowsBalance
<1>7. KnowsBalance(h)'
  BY <1>2 DEF KnowsBalance
<1> QED
  BY <1>1, <1>3, <1>4, <1>6, <1>7, KeepsSerial

LEMMA OrphanSerial ==
  ASSUME EarningInv, SerialInv, NEW h \in Handler, NEW q \in Handler, Orphan(h, q)
  PROVE  SerialInv'
<1>1. Splits(h, q)
  BY OrphanMoves
<1>2. /\ TypeOK /\ UNCHANGED <<points, entries, txns>> /\ overlap'
      /\ faults' \in Nat /\ faults' >= faults
      /\ pc'[h] \in {"reward", "answer"} /\ pc'[q] = pc[h]
      /\ call'[q] = call[h] /\ entry'[q] = entry[h] /\ balance'[q] = balance[h]
      /\ \A g \in Handler \ {h, q} : /\ pc'[g] = pc[g] /\ call'[g] = call[g]
                                     /\ entry'[g] = entry[g] /\ balance'[g] = balance[g]
  BY <1>1 DEF Splits, EarningInv
<1>3. OneAtATime'
  BY <1>2 DEF OneAtATime
<1>4. HistoryKept
  BY <1>2, SameEntries
<1>5. ASSUME NEW g \in Handler, NEW k \in Handler, pc'[g] = pc[k], call'[g] = call[k],
             entry'[g] = entry[k], balance'[g] = balance[k]
      PROVE  KnowsBalance(g)'
  <2> SUFFICES ASSUME pc'[g] = "record", call'[g].op = "earn"
               PROVE  BalanceRead(entry[g], balance[g])'
    BY <1>2 DEF KnowsBalance
  <2>1. PICK m, b : m = entry[k] /\ b = balance[k]
    OBVIOUS
  <2>2. m \in Nat /\ BalanceRead(m, b)
    BY <1>2, <1>5, <2>1 DEF TypeOK, SerialInv, KnowsBalance
  <2>3. BalanceRead(m, b)'
    BY <1>2, <1>4, <2>2, ReadStays
  <2> QED
    BY <1>5, <2>1, <2>3 DEF BalanceRead, BalanceAt
<1>6. \A g \in Handler \ {h, q} : KnowsBalance(g)'
  BY <1>2, <1>5
<1>7. KnowsBalance(q)'
  BY <1>2, <1>5
<1>8. KnowsBalance(h)'
  BY <1>1, <1>2 DEF KnowsBalance, Splits
<1> QED
  BY <1>2, <1>3, <1>6, <1>7, <1>8, KeepsSerial

LEMMA NextSerial == EarningInv /\ SerialInv /\ [Next]_vars => SerialInv'
<1>1. ASSUME EarningInv, SerialInv, NEW h \in Handler,
             LookUpFails(h) \/ (Step(h) /\ UNCHANGED history)
      PROVE  SerialInv'
  <2>1. CASE Steady
    BY <1>1, <2>1, SteadySerial
  <2>2. CASE Books(h) /\ UNCHANGED history
    BY <1>1, <2>2, BooksSerial DEF history
  <2>3. CASE (RewardVoucher(h) \/ Answer(h) \/ Die(h) \/ Vanish(h)) /\ UNCHANGED history
    BY <1>1, <2>3, EndSerial DEF history
  <2> QED
    BY <1>1, <2>1, <2>2, <2>3, StepKinds
<1>2. ASSUME EarningInv, SerialInv, UNCHANGED vars
      PROVE  SerialInv'
  <2>1. UNCHANGED <<points, entries, txns, pc, call, entry, balance, faults, overlap>>
    BY <1>2 DEF vars, tables, local, history
  <2>2. faults' \in Nat /\ faults' >= faults
    BY <1>2, <2>1 DEF EarningInv, TypeOK
  <2>3. OneAtATime'
    BY <1>2, <2>1 DEF SerialInv, OneAtATime, Running
  <2>4. HistoryKept
    BY <1>2, <2>1, <2>2, SameEntries DEF EarningInv
  <2>5. \A h \in Handler : KnowsBalance(h)'
    BY <1>2, <2>1, <2>4, KnowsStill
  <2> QED
    BY <1>2, <2>1, <2>2, <2>3, <2>5, KeepsSerial
<1> QED
  BY <1>1, <1>2, ReceiveSerial, OrphanSerial DEF Next, Rest

\* Each point of the account is explained by its entries, and the balance AddPoint
\* keeps is one they had since its own.
THEOREM SerialInvariant == Spec => []SerialInv
<1>1. Init => SerialInv
  <2> SUFFICES ASSUME Init PROVE SerialInv
    OBVIOUS
  <2>1. /\ entries = <<>> /\ txns = <<>> /\ Running = {} /\ points = 0
        /\ \A h \in Handler : pc[h] = "idle"
    BY DEF Init, Running, Account!Init
  <2>2. <<>> \in Seq(LedgerEntry) /\ Len(<<>>) = 0
    OBVIOUS
  <2>3. Balances(<<>>)[0] = 0
    BY <2>2, BalancesAre DEF IsBalance, Follows
  <2>4. BalanceAt(0) = 0
    BY <2>1, <2>3, BalanceAtIs
  <2> QED
    BY <2>1, <2>2, <2>4
       DEF SerialInv, Explained, OneAtATime, KnowsBalance, BalanceAfterTrue
<1> QED
  BY <1>1, NextSerial, EarningInvariant, PTL DEF Spec

\* Whatever runs at the same time, AddPoint's BalanceAfter is the sum of the entries
\* up to the one it records or, if requests overlapped, up to a later one; 0 only
\* where a call failed.
THEOREM BalanceAfterIsTrue == Spec => []BalanceAfterTrue
<1>1. SerialInv => BalanceAfterTrue
  BY DEF SerialInv
<1> QED
  BY <1>1, SerialInvariant, PTL
=============================================================================
