------------------------------ MODULE MCServer ------------------------------
(* Server, instantiated for TLC. *)
EXTENDS Server

CONSTANTS c1, c2, c3

MCClients == {c1, c2, c3}
=============================================================================
