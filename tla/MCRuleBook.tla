----------------------------- MODULE MCRuleBook -----------------------------
(* An instance of RuleBook for TLC. *)
EXTENDS RuleBook, TLC

CONSTANTS l1, e1, e2

MCLister == {l1}
MCEvaluator == {e1, e2}
Symmetry == Permutations(MCEvaluator)

Always == [name |-> "", type |-> "", gives |-> "match"]
Amount == [name |-> "amount", type |-> "int", gives |-> "match"]

\* Points, and a notification sent along with a payload it does not show.
MCActions == {[type |-> "REWARD_POINT", payloads |-> {"REWARD_POINT"}], Nil,
              [type |-> "NOTIFY", payloads |-> {"NOTIFY", "VOUCHER"}]}

MCDraft == {
    [active |-> TRUE, priority |-> 1, expr |-> Always, actions |-> {}],
    [active |-> TRUE, priority |-> 2, expr |-> Amount, actions |-> MCActions],
    [active |-> FALSE, priority |-> 2, expr |-> NoExpr, actions |-> {}]}

\* Attribute names in the order of sort.Strings, each cut at its commas.
Names == <<"amount", "amount,currency", "channel", "currency", "metadata", "user_id">>
Pieces == [n \in Range(Names) |->
              IF n = "amount,currency" THEN <<"amount", "currency">> ELSE <<n>>]
MCPlain == {n \in Range(Names) : Len(Pieces[n]) = 1}
MCJoin(S) ==
    LET sorted == SelectSeq(Names, LAMBDA n : n \in S)
    IN FlattenSeq([i \in DOMAIN sorted |-> Pieces[sorted[i]]])

\* The first two bring the same attributes and differ in the kind of the amount;
\* the third brings others whose names join to the same; the fourth as many as
\* the first.
MCTransaction == {
    [fields |-> [amount |-> "number", currency |-> "text"], metadata |-> [currency |-> "text"]],
    [fields |-> [amount |-> "zero", currency |-> "text"], metadata |-> [amount |-> "text"]],
    [fields |-> [amount |-> "zero", currency |-> "zero"],
     metadata |-> [n \in {"amount,currency"} |-> "number"]],
    [fields |-> [amount |-> "zero", currency |-> "text"], metadata |-> [channel |-> "text"]]}

=============================================================================
