---------------------------- MODULE MCQueryCache ----------------------------
(***************************************************************************)
(* A small instance of QueryCache for TLC: one key more than fits twice    *)
(* over, and two values so that an overwrite shows.                        *)
(***************************************************************************)
EXTENDS QueryCache

CONSTANTS k1, k2, k3, v1, v2

MCKeys   == {k1, k2, k3}
MCValues == {v1, v2}

MCSymmetry == Permutations(MCKeys) \cup Permutations(MCValues)
=============================================================================
