---------------------------- MODULE MCPathCache -----------------------------
(***************************************************************************)
(* Four keys compete for a cache of three; a fourth item is allocated      *)
(* before the eviction of the third.                                       *)
(***************************************************************************)
EXTENDS PathCache, TLC

ItemSymmetry == Permutations(Items)
=============================================================================
