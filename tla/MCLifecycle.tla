----------------------------- MODULE MCLifecycle -----------------------------
(* A module with two releases, for TLC.                                      *)
EXTENDS Lifecycle, TLC

CONSTANTS v1, v2, m1, m2

MCMigrations == v1 :> {m1} @@ v2 :> {m1, m2}
MCTier == v1 :> 2 @@ v2 :> 1
MCTierTwo == v1 :> 2 @@ v2 :> 2

Symmetry == Permutations(Ops) \cup Permutations(Files)

=============================================================================
