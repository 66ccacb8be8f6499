----------------------------- MODULE MCConnPool -----------------------------
(* Instances of ConnPool for TLC: calls share a pool smaller than their      *)
(* number, and there is one socket identity more than the pool has slots.    *)
EXTENDS ConnPool, TLC
=============================================================================
