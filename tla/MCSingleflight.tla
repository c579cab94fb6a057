--------------------------- MODULE MCSingleflight ---------------------------
(***************************************************************************)
(* A small instance of Singleflight for TLC.                               *)
(***************************************************************************)
EXTENDS Singleflight

CONSTANTS c1, c2, c3, k1

MCCalls == {c1, c2, c3}
MCKeys  == {k1}
=============================================================================
