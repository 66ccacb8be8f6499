----------------------------- MODULE MCCatalogue -----------------------------
(* A small instance of Catalogue for TLC.                                    *)
EXTENDS Catalogue, TLC

Interchangeable == Permutations(Syncers) \cup Permutations(PubKeys)
=============================================================================
