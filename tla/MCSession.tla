----------------------------- MODULE MCSession -----------------------------
(* Session, instantiated for TLC. *)
EXTENDS Session

(* A byte of each kind that some reader tells apart; "x" is the rest. *)
MCBytes == {"g", "w", "q", "l", "^C", "^D"}

MCReaders == 0 .. MaxVisits
=============================================================================
