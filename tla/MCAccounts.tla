----------------------------- MODULE MCAccounts -----------------------------
(* Accounts, instantiated for TLC. *)
EXTENDS Accounts, TLC

CONSTANTS s1, s2

MCSessions == {s1, s2}
Symmetry == Permutations(MCSessions)

(* Two spellings of one name, and another name. *)
MCNames == {"ann", "Ann", "bob"}
MCOneName == {"ann"}
MCFold  == [n \in MCNames |-> IF n = "Ann" THEN "ann" ELSE n]

(* A text, too long, and what is left of it. *)
MCTexts == {"", "long", "lo"}
MCClip  == [t \in MCTexts |-> IF t = "long" THEN "lo" ELSE t]
=============================================================================
