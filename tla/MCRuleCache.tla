---------------------------- MODULE MCRuleCache ----------------------------
(* Instances of RuleCache for TLC. *)
EXTENDS RuleCache, TLC

Symmetry == Permutations(Request)
=============================================================================
