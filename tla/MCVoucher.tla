----------------------------- MODULE MCVoucher -----------------------------
(* Instances of Voucher for TLC. *)
EXTENDS Voucher, TLC

CONSTANTS u1, u2, c1, c2, c3

Create(codes) == [NoCall EXCEPT !.op = "create", !.codes = codes]
Import(codes) == [NoCall EXCEPT !.op = "import", !.codes = codes]
Issue(u, n) == [NoCall EXCEPT !.user = u, !.count = n]
Redeem(u, c) == [NoCall EXCEPT !.op = "redeem", !.user = u, !.codes = <<c>>]

\* A campaign with two generated codes, one or none, an import of one more, and
\* two users who ask for one voucher or for more than there are.
StockCalls == {Create(<<>>), Create(<<c1, c2>>), Import(<<c3>>), Issue(u1, 1),
               Issue(u2, 3), Redeem(u2, c1), Redeem(u1, c3)}
=============================================================================
