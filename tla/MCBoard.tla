------------------------------ MODULE MCBoard ------------------------------
(* Board, instantiated for TLC. *)
EXTENDS Board

CONSTANTS s1, s2

MCSessions == {s1, s2}
=============================================================================
