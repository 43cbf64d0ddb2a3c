----------------------------- MODULE MCEarning -----------------------------
(* Instances of Earning for TLC. *)
EXTENDS Earning, TLC

Earn(ref, rewards) == [op |-> "earn", ref |-> ref, rewards |-> rewards]
Redeem(ref) == [op |-> "redeem", ref |-> ref, rewards |-> <<>>]
Point(n) == [type |-> "POINT", points |-> n]
Voucher == [type |-> "VOUCHER", points |-> 0]
Notice == [type |-> "NOTIFY", points |-> 0]

\* Events with one reward, with none for the ledger, with two, with one it
\* refuses, and without a reference; redemptions the first credit does and does
\* not pay for.
PointCalls == {Earn("e1", <<Point(150)>>), Earn("e2", <<Notice>>),
               Earn("e3", <<Point(60), Point(40)>>), Earn("e4", <<Point(0)>>),
               Earn("", <<Point(50)>>), Redeem("r1"), Redeem("r2")}

\* The same and an event whose rule rewards a voucher.
AllCalls == PointCalls \cup {Earn("e5", <<Point(70), Voucher>>)}

Symmetry == Permutations(Handler)
=============================================================================
