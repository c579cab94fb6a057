------------------------------ MODULE MCSearch ------------------------------
(***************************************************************************)
(* Small instances of Search for TLC.                                      *)
(***************************************************************************)
EXTENDS Search

CONSTANTS c1, c2, k1, k2

MCCalls == {c1, c2}
MCKeys  == {k1, k2}
OneKey  == {k1}
=============================================================================
