----------------------------- MODULE MCCatalog -----------------------------
(* An instance of Catalog for TLC. *)
EXTENDS Catalog, TLC

CONSTANTS h1, h2

MCHandler == {h1, h2}

\* Handlers are alike.
MCSymmetry == Permutations(MCHandler)
=============================================================================
