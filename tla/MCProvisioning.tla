--------------------------- MODULE MCProvisioning ---------------------------
(* An instance of Provisioning for TLC. *)
EXTENDS Provisioning, TLC

CONSTANTS p1, p2, acme, home, blank, platform, shop

MCProvisioner == {p1, p2}
MCSlug == {acme, home}
MCCustomHost == {shop}

\* Handlers are alike.
MCSymmetry == Permutations(MCProvisioner)
=============================================================================
