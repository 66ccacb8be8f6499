------------------------------ MODULE MCGeoIP ------------------------------
(* Instances of GeoIP for TLC. *)
EXTENDS GeoIP, TLC

TwoEditions == <<"GeoLite2-City", "GeoLite2-ASN">>
(* Overlapping downloads are exempt from the invariants: not explored further. *)
NotOverlapped == ~overlapped

Symmetry == Permutations(Inodes) \cup Permutations(Lookups)
=============================================================================
