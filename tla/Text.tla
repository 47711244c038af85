--------------------------------- MODULE Text ---------------------------------
(***************************************************************************)
(* Messages as the pager and the limits on them see them (session.go,      *)
(* ansi.go).  A line is the sequence of the lengths of its words, which    *)
(* stand one space apart; the empty line has none.  A message is a         *)
(* sequence of lines.                                                      *)
(***************************************************************************)
EXTENDS Integers, Sequences, FiniteSets

Line    == Seq(Nat)
Message == Seq(Line)

(* The columns of a line up to the end of each of its words. *)
Ends(l) ==
    LET end[j \in DOMAIN l] == IF j = 1 THEN l[1] ELSE end[j - 1] + 1 + l[j]
    IN  end

LineLen(l) == IF l = << >> THEN 0 ELSE Ends(l)[Len(l)]

totalLen(ls) ==
    LET total[i \in 0..Len(ls)] ==
            IF i = 0 THEN 0 ELSE total[i - 1] + LineLen(ls[i]) + 1
    IN  total[Len(ls)]

(* Mutants of truncateLines: the line break is left out of the account, and *)
(* a text that is as long as the limit counts as too long.                 *)
TruncatedLate(ls, max) ==
    SubSeq(ls, 1, Cardinality({i \in DOMAIN ls : totalLen(SubSeq(ls, 1, i)) <= max + 1}))

TruncatedEarly(ls, max) ==
    SubSeq(ls, 1, Cardinality({i \in DOMAIN ls : totalLen(SubSeq(ls, 1, i)) < max}))

(* The lines of ls before the first one with which they exceed max. *)
truncateLines(ls, max) ==
    SubSeq(ls, 1, Cardinality({i \in DOMAIN ls : totalLen(SubSeq(ls, 1, i)) <= max}))

(* What a screen shows of ls is "" when joined. *)
IsEmpty(ls) == ls = << >> \/ ls = << << >> >>

-----------------------------------------------------------------------------
(* ansi.Wrap.  Columns(l, w)[j] is the width of the output line that word  *)
(* j ends, once it is written: a word that does not fit begins a new line, *)
(* and is written whole however long it is.                                *)

(* Mutant of Fits: no room is left for the space. *)
FitsTight(col, word, w) == col + word <= w

Fits(col, word, w) == col + 1 + word <= w

Columns(l, w) ==
    LET col[j \in DOMAIN l] ==
            IF j > 1 /\ Fits(col[j - 1], l[j], w) THEN col[j - 1] + 1 + l[j]
            ELSE l[j]
    IN  col

StartsLine(l, w, j) == j = 1 \/ ~Fits(Columns(l, w)[j - 1], l[j], w)

(* Empty lines are kept, except above the first word. *)
KeptBlank(t, i) == t[i] = << >> /\ \E h \in 1..(i - 1) : t[h] # << >>

(* The output lines of message t at width w, named by the place of their   *)
(* first word, 0 for an empty line.                                        *)
Wrapped(t, w) ==
         {<<i, 0>> : i \in {h \in DOMAIN t : KeptBlank(t, h)}}
    \cup UNION {{<<i, j>> : j \in {h \in DOMAIN t[i] : StartsLine(t[i], w, h)}} :
                   i \in DOMAIN t}

Lines(t, w) == Cardinality(Wrapped(t, w))

(* The words of line l that the output line starting at word j holds. *)
Taken(l, w, j) ==
    {k \in j..Len(l) : \A h \in (j + 1)..k : ~StartsLine(l, w, h)}

=============================================================================
