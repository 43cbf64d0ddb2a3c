------------------------------ MODULE MCLedger ------------------------------
(* Instances of Ledger for TLC. *)
EXTENDS Ledger, TLC

Credit(n) == [kind |-> "credit", amount |-> n, ref |-> FreshRef, id |-> 0]
Debit(n) == [kind |-> "debit", amount |-> n, ref |-> FreshRef, id |-> 0]
Revert(i) == [kind |-> "revert", amount |-> 0, ref |-> NoRef, id |-> i]

\* Earning and spending, with the negative debit RunExpiryJob sends.
SpendCalls == [r \in Request |-> {Credit(1), Credit(2), Debit(2), Debit(-1)}]
\* One client, its references used again on retry, one of them empty, one the
\* transaction id of the first entry, which it reverts, even twice.
RetryCalls ==
    [r \in Request |->
        {Credit(1), [Credit(2) EXCEPT !.ref = "order-1"],
         [Debit(2) EXCEPT !.ref = "order-2"], [Credit(1) EXCEPT !.ref = NoRef],
         [Debit(1) EXCEPT !.ref = TransactionID[1]], Credit(0), Revert(1)}]
\* Reverts of the first two entries among credits and debits, and a debit of
\* less than 0.
RevertCalls ==
    [r \in Request |-> {Credit(1), Credit(2), Debit(1), Debit(-1),
                        Revert(1), Revert(2)}]
\* Transaction ids are drawn at random: all different here.
TransactionIDs == [i \in 1..MaxCalls |-> <<"tx1", "tx2", "tx3", "tx4", "tx5">>[i]]
\* The same reference delivered to two handlers.
DuplicateCalls == [r \in Request |-> {[Credit(1) EXCEPT !.ref = "order-1"]}]

Symmetry == Permutations(Request)
=============================================================================
