----------------------------- MODULE MCAuthFlow -----------------------------
(* Instances of AuthFlow for TLC. *)
EXTENDS AuthFlow, TLC

CONSTANTS adm, adm2, usr
TwoAdmins == adm :> "admin" @@ adm2 :> "admin" @@ usr :> "user"
Symmetry == Permutations(Threads) \cup Permutations(Sids) \cup Permutations({adm, adm2})
=============================================================================
