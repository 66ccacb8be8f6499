----------------------------- MODULE MCSessions -----------------------------
(* Two accounts and a few sessions, for TLC. *)
EXTENDS Sessions, TLC

SidSymmetry == Permutations(Sids)
=============================================================================
