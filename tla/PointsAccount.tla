---------------------------- MODULE PointsAccount ----------------------------
(***************************************************************************)
(* What the ledger promises for one member: a number of points that        *)
(* credits raise and debits lower, one at a time, and that no debit takes  *)
(* below zero.  (A debit of a negative amount is accepted, and raises it.) *)
(***************************************************************************)
EXTENDS Integers

CONSTANT Amount
VARIABLE points

Init == points = 0

Credit(a) == a > 0 /\ points' = points + a
Debit(a) == points > 0 /\ a <= points /\ points' = points - a

Next == \E a \in Amount : Credit(a) \/ Debit(a)
Spec == Init /\ [][Next]_points
=============================================================================
