------------------------------- MODULE MCSetup -------------------------------
(* Small instances of Setup for TLC.                                         *)
EXTENDS Setup, TLC

Symmetry == Permutations(Requests) \cup Permutations(Addrs)
=============================================================================
