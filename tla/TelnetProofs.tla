---------------------------- MODULE TelnetProofs ----------------------------
(***************************************************************************)
(* Proofs about Telnet: the parser undoes the encoding for every message   *)
(* and every way of cutting the stream, the session follows the window,    *)
(* and the door's output is rendered as the door believes.                 *)
(*                                                                         *)
(* The core is ParseStep.  Agrees says how far the parser is in a message  *)
(* whose groups r are still to come; a byte leads from one such place to   *)
(* the next, and at the last byte exactly the message comes out.           *)
(***************************************************************************)
EXTENDS Telnet, SequenceTheorems, TLAPS

Group == Seq(Byte) \ {<< >>}

(* The groups of m's payload after its k-th byte, and the closing bracket. *)
Rest(m, k) ==
    [i \in 1 .. Len(m.Data) - k + 1 |->
        IF i <= Len(m.Data) - k THEN Doubled(m.Data[k + i]) ELSE <<IAC, SE>>]

(* The parser has the first k bytes of m's payload. *)
HasPayload(p, m, k) ==
    /\ p.sbOpt = m.Opt
    /\ Len(p.sb) = k
    /\ \A i \in 1 .. k : p.sb[i] = m.Data[i]

AgreesData(p, m, r) ==
    m.Kind = "EvData" /\ m = Payload(IAC) /\ p.st = "stIAC" /\ r = << <<IAC>> >>

AgreesCmd(p, m, r) ==
    /\ m.Kind \notin {"EvData", "EvSubneg"}
    /\ \/ p.st = "stIAC" /\ r = << <<cmdOf(m.Kind), m.Opt>> >>
       \/ p.st = "stOpt" /\ p.cmd = cmdOf(m.Kind) /\ r = << <<m.Opt>> >>

AgreesSubneg(p, m, r) ==
    /\ m.Kind = "EvSubneg"
    /\ \/ p.st = "stIAC" /\ r = << <<SB, m.Opt>> >> \o Rest(m, 0)
       \/ p.st = "stSB" /\ p.sbOpt = 0 /\ p.sb = << >> /\ r = << <<m.Opt>> >> \o Rest(m, 0)
       \/ \E k \in 0 .. Len(m.Data) :
             p.st = "stSB" /\ HasPayload(p, m, k) /\ r = Rest(m, k)
       \/ \E k \in 0 .. Len(m.Data) - 1 :
             /\ p.st = "stSBIAC" /\ HasPayload(p, m, k)
             /\ m.Data[k + 1] = IAC
             /\ r = << <<IAC>> >> \o Rest(m, k + 1)
       \/ /\ p.st = "stSBIAC" /\ HasPayload(p, m, Len(m.Data))
          /\ r = << <<SE>> >>

Agrees(p, m, r) == \/ p.st = "stData" /\ r = Encoded(m)
                   \/ AgreesData(p, m, r)
                   \/ AgreesCmd(p, m, r)
                   \/ AgreesSubneg(p, m, r)

-----------------------------------------------------------------------------
(* Sequences of groups. *)

LEMMA GroupStep ==
    ASSUME NEW g \in Group, NEW t \in Seq(Group)
    PROVE  /\ << g >> \o t \in Seq(Group) /\ << g >> \o t # << >>
           /\ NextByte(<< g >> \o t) = g[1]
           /\ AfterByte(<< g >> \o t) = IF Len(g) > 1 THEN <<Tail(g)>> \o t ELSE t
<1> DEFINE r == << g >> \o t
<1>1. << g >> \in Seq(Group) /\ Len(<< g >>) = 1
  OBVIOUS
<1>2. r \in Seq(Group) /\ Len(r) = 1 + Len(t) /\ Len(t) \in Nat
  BY <1>1, ConcatProperties, LenProperties
<1>3. r[1] = g
  BY <1>1, <1>2, ConcatProperties
<1>4. r # << >>
  BY <1>2, EmptySeq
<1>5. Tail(r) \in Seq(Group) /\ Len(Tail(r)) = Len(t)
      /\ \A i \in 1 .. Len(t) : Tail(r)[i] = r[i + 1]
  BY <1>2, <1>4, HeadTailProperties
<1>6. \A i \in 1 .. Len(t) : r[i + 1] = t[i]
  <2> TAKE i \in 1 .. Len(t)
  <2>1. i + 1 \in 1 .. 1 + Len(t) /\ ~(i + 1 <= 1) /\ i + 1 - 1 = i
    BY <1>2
  <2> QED
    BY <1>1, <2>1, ConcatProperties
<1>7. Tail(r) = t
  BY <1>5, <1>6, SeqEqual
<1> QED
  BY <1>2, <1>3, <1>4, <1>7 DEF NextByte, AfterByte

LEMMA DoubledGroup ==
    ASSUME NEW c \in Byte
    PROVE  Doubled(c) \in Group
BY DEF Doubled, Group, Byte, IAC

LEMMA RestStep ==
    ASSUME NEW m \in Event, NEW k \in 0 .. Len(m.Data)
    PROVE  /\ Rest(m, k) \in Seq(Group) /\ Rest(m, k) # << >>
           /\ k < Len(m.Data) =>
                 Rest(m, k) = << Doubled(m.Data[k + 1]) >> \o Rest(m, k + 1)
           /\ k = Len(m.Data) => Rest(m, k) = << <<IAC, SE>> >>
<1> DEFINE n == Len(m.Data)
<1>1. n \in Nat /\ m.Data \in Seq(Byte)
  BY LenProperties DEF Event
<1>2. \A j \in 0 .. n : Rest(m, j) \in Seq(Group) /\ Len(Rest(m, j)) = n - j + 1
  <2> TAKE j \in 0 .. n
  <2>1. \A i \in 1 .. n - j : Doubled(m.Data[j + i]) \in Group
    <3> TAKE i \in 1 .. n - j
    <3>1. j + i \in 1 .. Len(m.Data)
      BY <1>1
    <3> QED
      BY <1>1, <3>1, ElementOfSeq, DoubledGroup
  <2>2. <<IAC, SE>> \in Group
    BY DEF Group, IAC, SE, Byte
  <2>3. \A i \in 1 .. n - j + 1 :
           (IF i <= n - j THEN Doubled(m.Data[j + i]) ELSE <<IAC, SE>>) \in Group
    BY <2>1, <2>2, <1>1
  <2>4. Rest(m, j) = [i \in 1 .. n - j + 1 |->
           IF i <= n - j THEN Doubled(m.Data[j + i]) ELSE <<IAC, SE>>]
    BY DEF Rest
  <2>5. n - j + 1 \in Nat
    BY <1>1
  <2>6. Rest(m, j) \in [1 .. n - j + 1 -> Group]
    <3> DEFINE E(i) == IF i <= n - j THEN Doubled(m.Data[j + i]) ELSE <<IAC, SE>>
    <3>1. Rest(m, j) = [i \in 1 .. n - j + 1 |-> E(i)]
      BY <2>4
    <3>2. \A i \in 1 .. n - j + 1 : E(i) \in Group
      BY <2>3
    <3> HIDE DEF E
    <3> QED
      BY <3>1, <3>2
  <2> QED
    BY <2>5, <2>6
<1>3. Rest(m, k) # << >>
  BY <1>1, <1>2, EmptySeq
<1>4. ASSUME k < n
      PROVE  Rest(m, k) = << Doubled(m.Data[k + 1]) >> \o Rest(m, k + 1)
  <2> DEFINE d == Doubled(m.Data[k + 1])
  <2>1. d \in Group
    BY <1>1, <1>4, ElementOfSeq, DoubledGroup
  <2>2. << d >> \in Seq(Group) /\ Len(<< d >>) = 1
    BY <2>1
  <2>3. Rest(m, k + 1) \in Seq(Group) /\ Len(Rest(m, k + 1)) = n - k
    <3>1. k + 1 \in 0 .. n /\ n - (k + 1) + 1 = n - k
      BY <1>1, <1>4
    <3> QED
      BY <3>1, <1>2
  <2>4. /\ << d >> \o Rest(m, k + 1) \in Seq(Group)
        /\ Len(<< d >> \o Rest(m, k + 1)) = n - k + 1
        /\ \A i \in 1 .. n - k + 1 : (<< d >> \o Rest(m, k + 1))[i] =
              IF i <= 1 THEN << d >>[i] ELSE Rest(m, k + 1)[i - 1]
    <3> HIDE DEF d
    <3> QED
      BY <2>2, <2>3, <1>1, ConcatProperties
  <2>5. ASSUME NEW i \in 1 .. n - k + 1
        PROVE  Rest(m, k)[i] = IF i <= 1 THEN << d >>[i] ELSE Rest(m, k + 1)[i - 1]
    <3>1. CASE i = 1
      BY <3>1, <1>1, <1>4 DEF Rest
    <3>2. CASE i > 1
      <4>1. i - 1 \in 1 .. n - (k + 1) + 1
        BY <3>2, <1>1
      <4>2. Rest(m, k + 1)[i - 1] =
              IF i - 1 <= n - (k + 1) THEN Doubled(m.Data[(k + 1) + (i - 1)])
              ELSE <<IAC, SE>>
        BY <4>1 DEF Rest
      <4>3. (k + 1) + (i - 1) = k + i /\ (i - 1 <= n - (k + 1) <=> i <= n - k)
        BY <1>1
      <4>4. Rest(m, k)[i] = IF i <= n - k THEN Doubled(m.Data[k + i]) ELSE <<IAC, SE>>
        BY <1>1 DEF Rest
      <4> QED
        BY <4>2, <4>3, <4>4, <3>2
    <3> QED
      BY <3>1, <3>2, <1>1
  <2> HIDE DEF d
  <2>6. Rest(m, k) = << d >> \o Rest(m, k + 1)
    <3>1. PICK t \in Seq(Group) : t = << d >> \o Rest(m, k + 1)
      BY <2>4
    <3>2. Rest(m, k) \in Seq(Group) /\ Len(Rest(m, k)) = n - k + 1
      BY <1>2
    <3>3. Len(t) = n - k + 1 /\ \A i \in 1 .. n - k + 1 : Rest(m, k)[i] = t[i]
      BY <3>1, <2>4, <2>5
    <3> QED
      BY <3>1, <3>2, <3>3, SeqEqual
  <2> QED
    BY <2>6 DEF d
<1>5. ASSUME k = n
      PROVE  Rest(m, k) = << <<IAC, SE>> >>
  <2>1. Len(Rest(m, k)) = 1 /\ Rest(m, k)[1] = <<IAC, SE>>
    BY <1>1, <1>2, <1>5 DEF Rest
  <2>2. Rest(m, k) \in Seq(Group) /\ << <<IAC, SE>> >> \in Seq(Group)
    BY <1>2 DEF Group, IAC, SE, Byte
  <2> QED
    BY <2>1, <2>2, SeqEqual
<1> QED
  BY <1>2, <1>3, <1>4, <1>5

LEMMA EncodedRest ==
    ASSUME NEW m, IsMessage(m)
    PROVE  /\ m.Kind = "EvData" => Encoded(m) = << Doubled(m.Data[1]) >> /\ m.Data[1] \in Byte
           /\ m.Kind = "EvSubneg" => Encoded(m) = << <<IAC, SB, m.Opt>> >> \o Rest(m, 0)
           /\ m.Kind \notin {"EvData", "EvSubneg"} =>
                 Encoded(m) = << <<IAC, cmdOf(m.Kind), m.Opt>> >>
<1> DEFINE n == Len(m.Data)
<1>1. m \in Event /\ n \in Nat /\ m.Data \in Seq(Byte)
  BY LenProperties DEF Event, IsMessage
<1>2. ASSUME m.Kind = "EvData"
      PROVE  Encoded(m) = << Doubled(m.Data[1]) >> /\ m.Data[1] \in Byte
  <2>1. PICK c : c = m.Data[1]
    OBVIOUS
  <2>2. m.Data = << c >>
    BY <1>2, <2>1 DEF IsMessage, Payload
  <2>3. n = 1 /\ c \in Byte
    BY <2>1, <2>2, <1>1, ElementOfSeq
  <2>4. Encoded(m) = [i \in 1 .. 1 |-> Doubled(m.Data[i])]
    BY <1>2, <2>3 DEF Encoded, Escaped
  <2> QED
    BY <2>1, <2>3, <2>4
<1>3. ASSUME m.Kind = "EvSubneg"
      PROVE  Encoded(m) = << <<IAC, SB, m.Opt>> >> \o Rest(m, 0)
  <2>1. Encoded(m) = << <<IAC, SB, m.Opt>> >> \o Escaped(m.Data) \o << <<IAC, SE>> >>
    BY <1>3 DEF Encoded
  <2>2. \A i \in 1 .. n : Doubled(m.Data[i]) \in Group
    BY <1>1, ElementOfSeq, DoubledGroup
  <2>3. Escaped(m.Data) \in Seq(Group) /\ Len(Escaped(m.Data)) = n
        /\ \A i \in 1 .. n : Escaped(m.Data)[i] = Doubled(m.Data[i])
    BY <2>2, <1>1 DEF Escaped
  <2>4. <<IAC, SB, m.Opt>> \in Group /\ <<IAC, SE>> \in Group
    BY <1>1 DEF Group, IAC, SB, SE, Byte, Event
  <2>5. << <<IAC, SB, m.Opt>> >> \in Seq(Group) /\ << <<IAC, SE>> >> \in Seq(Group)
        /\ Len(<< <<IAC, SE>> >>) = 1
    BY <2>4
  <2>6. << <<IAC, SB, m.Opt>> >> \o Escaped(m.Data) \o << <<IAC, SE>> >>
        = << <<IAC, SB, m.Opt>> >> \o (Escaped(m.Data) \o << <<IAC, SE>> >>)
    BY <2>3, <2>5, ConcatAssociative
  <2>7. Escaped(m.Data) \o << <<IAC, SE>> >> = Rest(m, 0)
    <3>1. PICK e \in Seq(Group) : e = Escaped(m.Data)
      BY <2>3
    <3>2. PICK b \in Seq(Group) : b = << <<IAC, SE>> >>
      BY <2>5
    <3>3. /\ e \o b \in Seq(Group) /\ Len(e \o b) = n + 1
          /\ \A i \in 1 .. n + 1 : (e \o b)[i] = IF i <= n THEN e[i] ELSE b[i - n]
      BY <2>3, <2>5, <3>1, <3>2, ConcatProperties
    <3>4. Rest(m, 0) \in Seq(Group)
      <4>1. 0 \in 0 .. Len(m.Data)
        BY <1>1
      <4> QED
        BY <4>1, <1>1, RestStep
    <3>5. /\ Len(Rest(m, 0)) = n + 1
          /\ \A i \in 1 .. n + 1 : Rest(m, 0)[i] =
                IF i <= n THEN Doubled(m.Data[i]) ELSE <<IAC, SE>>
      BY <1>1 DEF Rest
    <3>6. \A i \in 1 .. n + 1 : (e \o b)[i] = Rest(m, 0)[i]
      <4> TAKE i \in 1 .. n + 1
      <4>1. CASE i <= n
        BY <4>1, <3>3, <3>5, <3>1, <2>3, <1>1
      <4>2. CASE i = n + 1
        <5>1. ~(i <= n) /\ i - n = 1 /\ i \in 1 .. n + 1
          BY <4>2, <1>1
        <5>2. (e \o b)[i] = b[1]
          BY <5>1, <3>3
        <5>3. Rest(m, 0)[i] = <<IAC, SE>>
          BY <5>1, <3>5
        <5> QED
          BY <5>2, <5>3, <3>2
      <4> QED
        <5>1. i <= n \/ i = n + 1
          BY <1>1
        <5> QED
          BY <5>1, <4>1, <4>2
    <3>7. e \o b = Rest(m, 0)
      BY <3>3, <3>4, <3>5, <3>6, SeqEqual
    <3> QED
      BY <3>1, <3>2, <3>7
  <2> QED
    BY <2>1, <2>6, <2>7
<1>4. m.Kind \notin {"EvData", "EvSubneg"} =>
        Encoded(m) = << <<IAC, cmdOf(m.Kind), m.Opt>> >>
  BY DEF Encoded
<1> QED
  BY <1>2, <1>3, <1>4

LEMMA OneByte ==
    ASSUME NEW b \in Byte, NEW t \in Seq(Group), NEW r, r = << << b >> >> \o t
    PROVE  r \in Seq(Group) /\ r # << >> /\ NextByte(r) = b /\ AfterByte(r) = t
<1>0. << b >> \in Group
  BY DEF Group
<1>1. PICK g \in Group : g = << b >>
  BY <1>0
<1>2. g[1] = b /\ ~(Len(g) > 1) /\ r = << g >> \o t
  BY <1>1
<1> QED
  BY <1>2, GroupStep

(* The same for a last group. *)
LEMMA LastGroup ==
    ASSUME NEW g \in Group
    PROVE  << g >> = << g >> \o << >> /\ << >> \in Seq(Group)
<1>1. << g >> \in Seq(Group) /\ << >> \in Seq(Group)
  OBVIOUS
<1> QED
  BY <1>1, ConcatEmptySeq

LEMMA LastByte ==
    ASSUME NEW b \in Byte, NEW r, r = << << b >> >>
    PROVE  r \in Seq(Group) /\ r # << >> /\ NextByte(r) = b /\ AfterByte(r) = << >>
<1>1. << b >> \in Group
  BY DEF Group
<1>2. r = << << b >> >> \o << >> /\ << >> \in Seq(Group)
  BY <1>1, LastGroup
<1> QED
  BY <1>2, OneByte

LEMMA LastTwoBytes ==
    ASSUME NEW b \in Byte, NEW c \in Byte, NEW r, r = << << b, c >> >>
    PROVE  /\ r \in Seq(Group) /\ r # << >>
           /\ NextByte(r) = b /\ AfterByte(r) = << << c >> >>
           /\ AfterByte(r) \in Seq(Group) /\ AfterByte(r) # << >>
<1>1. << b, c >> \in Group /\ << c >> \in Group
  BY DEF Group
<1>2. r = << << b, c >> >> \o << >> /\ << >> \in Seq(Group)
  BY <1>1, LastGroup
<1>3. << << c >> >> = << << c >> >> \o << >>
  BY <1>1, LastGroup
<1>4. << << c >> >> \in Seq(Group) /\ << << c >> >> # << >>
  BY <1>1
<1>5. PICK g \in Group : g = << b, c >>
  BY <1>1
<1>6. g[1] = b /\ Len(g) > 1 /\ Tail(g) = << c >> /\ r = << g >> \o << >>
  BY <1>2, <1>5
<1>7. r \in Seq(Group) /\ r # << >> /\ NextByte(r) = b /\ AfterByte(r) = << << c >> >> \o << >>
  BY <1>2, <1>6, GroupStep
<1> QED
  BY <1>3, <1>4, <1>7

LEMMA LastThreeBytes ==
    ASSUME NEW b \in Byte, NEW c \in Byte, NEW d \in Byte, NEW r, r = << << b, c, d >> >>
    PROVE  /\ r \in Seq(Group) /\ r # << >>
           /\ NextByte(r) = b /\ AfterByte(r) = << << c, d >> >>
           /\ AfterByte(r) \in Seq(Group) /\ AfterByte(r) # << >>
<1>1. << b, c, d >> \in Group /\ << c, d >> \in Group
  BY DEF Group
<1>2. r = << << b, c, d >> >> \o << >> /\ << >> \in Seq(Group)
  BY <1>1, LastGroup
<1>3. << << c, d >> >> = << << c, d >> >> \o << >>
  BY <1>1, LastGroup
<1>4. << << c, d >> >> \in Seq(Group) /\ << << c, d >> >> # << >>
  BY <1>1
<1>5. PICK g \in Group : g = << b, c, d >>
  BY <1>1
<1>6. g[1] = b /\ Len(g) > 1 /\ Tail(g) = << c, d >> /\ r = << g >> \o << >>
  BY <1>2, <1>5
<1>7. r \in Seq(Group) /\ r # << >> /\ NextByte(r) = b /\ AfterByte(r) = << << c, d >> >> \o << >>
  BY <1>2, <1>6, GroupStep
<1> QED
  BY <1>3, <1>4, <1>7

LEMMA Constants ==
    /\ {IAC, SB, SE} \subseteq Byte /\ Commands \subseteq Byte
    /\ IAC # SE /\ IAC # SB /\ IAC \notin Commands /\ SB \notin Commands
BY DEF IAC, SB, SE, Commands, DO, DONT, WILL, WONT, Byte

LEMMA CommandOf ==
    ASSUME NEW k \in Kinds \ {"EvData", "EvSubneg"}
    PROVE  cmdOf(k) \in Commands /\ kindForCmd(cmdOf(k)) = k
BY DEF Kinds, cmdOf, kindForCmd, Commands, DO, DONT, WILL, WONT

(* What ParseStep says of a byte. *)
Parsed(p, m, r) ==
    LET c == NextByte(r) IN
    /\ r \in Seq(Group) /\ r # << >> /\ c \in Byte /\ AfterByte(r) \in Seq(Group)
    /\ AfterByte(r) # << >> =>
          Events(p, c) = << >> /\ Agrees(Digest(p, c), m, AfterByte(r))
    /\ AfterByte(r) = << >> =>
          Events(p, c) = << m >> /\ Digest(p, c).st = "stData"

LEMMA ParseData ==
    ASSUME NEW p \in Parser, NEW m, IsMessage(m), NEW r, m.Kind = "EvData",
           (p.st = "stData" /\ r = Encoded(m)) \/ AgreesData(p, m, r)
    PROVE  Parsed(p, m, r)
<1>1. m.Data[1] \in Byte /\ m = Payload(m.Data[1])
  BY EncodedRest DEF IsMessage
<1>2. PICK b \in Byte : b = m.Data[1]
  BY <1>1
<1>3. CASE p.st = "stData" /\ r = Encoded(m) /\ b # IAC
  <2>1. r = << << b >> >>
    BY <1>2, <1>3, EncodedRest DEF Doubled
  <2>2. /\ r \in Seq(Group) /\ r # << >> /\ NextByte(r) = b /\ AfterByte(r) = << >>
        /\ << >> \in Seq(Group)
    BY <2>1, LastByte
  <2>3. Events(p, b) = << Payload(b) >> /\ Digest(p, b) = p
    BY <1>3 DEF Events, Digest
  <2> QED
    BY <1>1, <1>2, <1>3, <2>2, <2>3 DEF Parsed
<1>4. CASE p.st = "stData" /\ r = Encoded(m) /\ b = IAC
  <2>1. r = << << IAC, IAC >> >> /\ IAC \in Byte
    BY <1>2, <1>4, EncodedRest DEF Doubled
  <2>2. /\ r \in Seq(Group) /\ r # << >>
        /\ NextByte(r) = IAC /\ AfterByte(r) = << << IAC >> >>
        /\ AfterByte(r) \in Seq(Group) /\ AfterByte(r) # << >>
    BY <2>1, LastTwoBytes
  <2>3. Events(p, IAC) = << >> /\ Digest(p, IAC).st = "stIAC"
    BY <1>4 DEF Events, Digest, Parser
  <2>4. AgreesData(Digest(p, IAC), m, AfterByte(r))
    BY <1>1, <1>2, <1>4, <2>2, <2>3 DEF AgreesData
  <2> QED
    BY <2>1, <2>2, <2>3, <2>4 DEF Parsed, Agrees
<1>5. CASE AgreesData(p, m, r)
  <2>1. r = << << IAC >> >> /\ IAC \in Byte
    BY <1>5, Constants DEF AgreesData
  <2>2. /\ r \in Seq(Group) /\ r # << >> /\ NextByte(r) = IAC /\ AfterByte(r) = << >>
        /\ << >> \in Seq(Group)
    BY <2>1, LastByte
  <2>3. Events(p, IAC) = << Payload(IAC) >> /\ Digest(p, IAC).st = "stData"
    BY <1>5, Constants DEF Events, Digest, Parser, AgreesData
  <2> QED
    BY <1>5, <2>1, <2>2, <2>3 DEF Parsed, AgreesData
<1> QED
  BY <1>3, <1>4, <1>5

LEMMA ParseCmd ==
    ASSUME NEW p \in Parser, NEW m, IsMessage(m), NEW r,
           m.Kind \notin {"EvData", "EvSubneg"},
           (p.st = "stData" /\ r = Encoded(m)) \/ AgreesCmd(p, m, r)
    PROVE  Parsed(p, m, r)
<1>1. m \in Event /\ m.Opt \in Byte /\ m.Kind \in Kinds \ {"EvData", "EvSubneg"}
      /\ m.Data = << >>
  BY DEF IsMessage, Event
<1>2. PICK d \in Commands : d = cmdOf(m.Kind) /\ kindForCmd(d) = m.Kind /\ d \in Byte
  BY <1>1, CommandOf, Constants
<1>3. PICK o \in Byte : o = m.Opt
  BY <1>1
<1>4. m = Cmd(d, o)
  BY <1>1, <1>2, <1>3 DEF Cmd, Event
<1>8. CASE p.st = "stData" /\ r = Encoded(m)
  <2>1. r = << << IAC, d, o >> >>
    BY <1>2, <1>3, <1>8, <1>1, EncodedRest
  <2>2. /\ r \in Seq(Group) /\ r # << >> /\ NextByte(r) = IAC
        /\ AfterByte(r) = << << d, o >> >>
        /\ AfterByte(r) \in Seq(Group) /\ AfterByte(r) # << >>
    BY <2>1, Constants, <1>2, LastThreeBytes
  <2>3. Events(p, IAC) = << >> /\ Digest(p, IAC).st = "stIAC"
    BY <1>8 DEF Events, Digest, Parser
  <2>4. AgreesCmd(Digest(p, IAC), m, AfterByte(r))
    BY <1>1, <1>2, <1>3, <2>2, <2>3 DEF AgreesCmd
  <2> QED
    BY <2>2, <2>3, <2>4, Constants DEF Parsed, Agrees
<1>9. CASE p.st = "stIAC" /\ r = << << d, o >> >>
  <2>1. /\ r \in Seq(Group) /\ r # << >> /\ NextByte(r) = d
        /\ AfterByte(r) = << << o >> >>
        /\ AfterByte(r) \in Seq(Group) /\ AfterByte(r) # << >>
    BY <1>9, <1>2, LastTwoBytes
  <2>2. Events(p, d) = << >> /\ Digest(p, d).st = "stOpt" /\ Digest(p, d).cmd = d
    BY <1>9, <1>2, Constants DEF Events, Digest, Parser
  <2>3. AgreesCmd(Digest(p, d), m, AfterByte(r))
    BY <1>1, <1>2, <1>3, <2>1, <2>2 DEF AgreesCmd
  <2> QED
    BY <1>2, <2>1, <2>2, <2>3 DEF Parsed, Agrees
<1>10. CASE p.st = "stOpt" /\ p.cmd = d /\ r = << << o >> >>
  <2>1. /\ r \in Seq(Group) /\ r # << >> /\ NextByte(r) = o
        /\ AfterByte(r) = << >> /\ AfterByte(r) \in Seq(Group)
    <3>1. << >> \in Seq(Group)
      OBVIOUS
    <3> QED
      BY <1>10, <3>1, LastByte
  <2>2. Events(p, o) = << Cmd(d, o) >> /\ Digest(p, o).st = "stData"
    BY <1>10 DEF Events, Digest, Parser
  <2> QED
    BY <1>4, <2>1, <2>2 DEF Parsed
<1> QED
  BY <1>1, <1>2, <1>3, <1>8, <1>9, <1>10 DEF AgreesCmd

(* The opening bracket of a subnegotiation. *)
LEMMA ParseOpening ==
    ASSUME NEW p \in Parser, NEW m, IsMessage(m), NEW r, m.Kind = "EvSubneg",
           \/ p.st = "stData" /\ r = Encoded(m)
           \/ p.st = "stIAC" /\ r = << <<SB, m.Opt>> >> \o Rest(m, 0)
           \/ p.st = "stSB" /\ p.sbOpt = 0 /\ p.sb = << >> /\ r = << <<m.Opt>> >> \o Rest(m, 0)
    PROVE  Parsed(p, m, r)
<1>1. m \in Event /\ Len(m.Data) \in Nat /\ 0 \in 0 .. Len(m.Data)
  BY LenProperties DEF IsMessage, Event
<1>2. PICK o \in Byte : o = m.Opt /\ o # 0
  BY <1>1 DEF Event, IsMessage
<1>3. PICK t \in Seq(Group) : t = Rest(m, 0) /\ t # << >>
  BY <1>1, RestStep
<1>4. IAC \in Byte /\ SB \in Byte
  BY Constants
<1>5. << SB, o >> \in Group /\ << o >> \in Group
  BY <1>4 DEF Group
<1>6. << << SB, o >> >> \o t \in Seq(Group) /\ << << SB, o >> >> \o t # << >>
      /\ << << o >> >> \o t \in Seq(Group) /\ << << o >> >> \o t # << >>
  BY <1>5, GroupStep
<1>7. CASE p.st = "stData" /\ r = Encoded(m)
  <2>1. r = << << IAC, SB, o >> >> \o t
    BY <1>2, <1>3, <1>7, EncodedRest
  <2>2. /\ r \in Seq(Group) /\ r # << >>
        /\ NextByte(r) = IAC /\ AfterByte(r) = << << SB, o >> >> \o t
    <3>1. << IAC, SB, o >> \in Group
      BY <1>4 DEF Group
    <3>2. PICK g \in Group : g = << IAC, SB, o >>
      BY <3>1
    <3>3. g[1] = IAC /\ Len(g) > 1 /\ Tail(g) = << SB, o >> /\ r = << g >> \o t
      BY <2>1, <3>2
    <3> QED
      BY <3>3, GroupStep
  <2>3. Events(p, IAC) = << >> /\ Digest(p, IAC).st = "stIAC"
    BY <1>7 DEF Events, Digest, Parser
  <2>4. AgreesSubneg(Digest(p, IAC), m, AfterByte(r))
    BY <1>2, <1>3, <2>2, <2>3 DEF AgreesSubneg
  <2> QED
    BY <1>4, <1>6, <2>2, <2>3, <2>4 DEF Parsed, Agrees
<1>8. CASE p.st = "stIAC" /\ r = << << SB, m.Opt >> >> \o Rest(m, 0)
  <2>1. r = << << SB, o >> >> \o t
    BY <1>2, <1>3, <1>8
  <2>2. /\ r \in Seq(Group) /\ r # << >>
        /\ NextByte(r) = SB /\ AfterByte(r) = << << o >> >> \o t
    <3>1. << SB, o >> \in Group
      BY <1>4 DEF Group
    <3>2. PICK g \in Group : g = << SB, o >>
      BY <3>1
    <3>3. g[1] = SB /\ Len(g) > 1 /\ Tail(g) = << o >> /\ r = << g >> \o t
      BY <2>1, <3>2
    <3> QED
      BY <3>3, GroupStep
  <2>3. /\ Events(p, SB) = << >> /\ Digest(p, SB).st = "stSB"
        /\ Digest(p, SB).sbOpt = 0 /\ Digest(p, SB).sb = << >>
    BY <1>8, Constants DEF Events, Digest, Parser
  <2>4. AgreesSubneg(Digest(p, SB), m, AfterByte(r))
    BY <1>2, <1>3, <2>2, <2>3 DEF AgreesSubneg
  <2> QED
    BY <1>4, <1>6, <2>2, <2>3, <2>4 DEF Parsed, Agrees
<1>9. CASE /\ p.st = "stSB" /\ p.sbOpt = 0 /\ p.sb = << >>
           /\ r = << << m.Opt >> >> \o Rest(m, 0)
  <2>1. r = << << o >> >> \o t
    BY <1>2, <1>3, <1>9
  <2>2. r \in Seq(Group) /\ r # << >> /\ NextByte(r) = o /\ AfterByte(r) = t
    BY <2>1, OneByte
  <2>3. /\ Events(p, o) = << >> /\ Digest(p, o).st = "stSB"
        /\ Digest(p, o).sbOpt = o /\ Digest(p, o).sb = << >>
    BY <1>9 DEF Events, Digest, Parser
  <2>4. HasPayload(Digest(p, o), m, 0)
    BY <1>2, <2>3 DEF HasPayload
  <2>5. AgreesSubneg(Digest(p, o), m, AfterByte(r))
    BY <1>1, <1>3, <2>2, <2>3, <2>4 DEF AgreesSubneg
  <2> QED
    BY <1>3, <2>2, <2>3, <2>5 DEF Parsed, Agrees
<1> QED
  BY <1>7, <1>8, <1>9

(* One more byte of the payload. *)
LEMMA PayloadGrows ==
    ASSUME NEW p \in Parser, NEW m \in Event, NEW k \in 0 .. Len(m.Data) - 1,
           HasPayload(p, m, k), NEW q, NEW c \in Byte, c = m.Data[k + 1],
           q.sb = Append(p.sb, c), q.sbOpt = p.sbOpt
    PROVE  HasPayload(q, m, k + 1)
<1>1. Len(m.Data) \in Nat /\ p.sb \in Seq(Byte) /\ Len(p.sb) = k
  BY LenProperties DEF Event, Parser, HasPayload
<1>2. /\ Len(q.sb) = k + 1 /\ q.sb[k + 1] = c
      /\ \A i \in 1 .. k : q.sb[i] = p.sb[i]
  BY <1>1, AppendProperties
<1>3. \A i \in 1 .. k + 1 : i \in 1 .. k \/ i = k + 1
  BY <1>1
<1> QED
  BY <1>2, <1>3 DEF HasPayload

(* Its payload and its closing bracket. *)
LEMMA ParsePayload ==
    ASSUME NEW p \in Parser, NEW m, IsMessage(m), NEW r, m.Kind = "EvSubneg",
           \/ \E k \in 0 .. Len(m.Data) :
                p.st = "stSB" /\ HasPayload(p, m, k) /\ r = Rest(m, k)
           \/ \E k \in 0 .. Len(m.Data) - 1 :
                /\ p.st = "stSBIAC" /\ HasPayload(p, m, k)
                /\ m.Data[k + 1] = IAC
                /\ r = << <<IAC>> >> \o Rest(m, k + 1)
           \/ /\ p.st = "stSBIAC" /\ HasPayload(p, m, Len(m.Data))
              /\ r = << <<SE>> >>
    PROVE  Parsed(p, m, r)
<1> DEFINE n == Len(m.Data)
<1>1. m \in Event /\ n \in Nat /\ m.Data \in Seq(Byte) /\ m.Opt # 0
  BY LenProperties DEF IsMessage, Event
<1>2. IAC \in Byte /\ SE \in Byte /\ IAC # SE
  BY Constants
<1>3. ASSUME NEW k \in 0 .. n - 1, p.st = "stSB", HasPayload(p, m, k), r = Rest(m, k)
      PROVE  Parsed(p, m, r)
  <2>1. k \in 0 .. n /\ k + 1 \in 0 .. n /\ k + 1 \in 1 .. n /\ k < n
    BY <1>1
  <2>2. PICK c \in Byte : c = m.Data[k + 1]
    BY <1>1, <2>1, ElementOfSeq
  <2>3. PICK t \in Seq(Group) : t = Rest(m, k + 1) /\ t # << >>
    BY <1>1, <2>1, RestStep
  <2>4. r = << Doubled(c) >> \o t
    BY <1>1, <1>3, <2>1, <2>2, <2>3, RestStep
  <2>5. p.sbOpt # 0
    BY <1>1, <1>3 DEF HasPayload
  <2>6. CASE c # IAC
    <3>1. r \in Seq(Group) /\ r # << >> /\ NextByte(r) = c /\ AfterByte(r) = t
      BY <2>4, <2>6, OneByte DEF Doubled
    <3>2. /\ Events(p, c) = << >> /\ Digest(p, c).st = "stSB"
          /\ Digest(p, c).sb = Append(p.sb, c) /\ Digest(p, c).sbOpt = p.sbOpt
      BY <1>3, <2>5, <2>6 DEF Events, Digest, Parser
    <3>3. HasPayload(Digest(p, c), m, k + 1)
      BY <1>1, <1>3, <2>2, <3>2, PayloadGrows
    <3>4. AgreesSubneg(Digest(p, c), m, AfterByte(r))
      BY <2>1, <2>3, <3>1, <3>2, <3>3 DEF AgreesSubneg
    <3> QED
      BY <2>3, <3>1, <3>2, <3>4 DEF Parsed, Agrees
  <2>7. CASE c = IAC
    <3>1. << IAC >> \in Group
      BY <1>2 DEF Group
    <3>2. << << IAC >> >> \o t \in Seq(Group) /\ << << IAC >> >> \o t # << >>
      BY <3>1, GroupStep
    <3>3. /\ r \in Seq(Group) /\ r # << >>
          /\ NextByte(r) = IAC /\ AfterByte(r) = << << IAC >> >> \o t
      <4>0. r = << << IAC, IAC >> >> \o t
        BY <2>4, <2>7 DEF Doubled
      <4>1. << IAC, IAC >> \in Group
        BY <1>2 DEF Group
      <4>2. PICK g \in Group : g = << IAC, IAC >>
        BY <4>1
      <4>3. g[1] = IAC /\ Len(g) > 1 /\ Tail(g) = << IAC >> /\ r = << g >> \o t
        BY <4>0, <4>2
      <4> QED
        BY <4>3, GroupStep
    <3>4. /\ Events(p, IAC) = << >> /\ Digest(p, IAC).st = "stSBIAC"
          /\ Digest(p, IAC).sb = p.sb /\ Digest(p, IAC).sbOpt = p.sbOpt
      BY <1>3, <2>5 DEF Events, Digest, Parser
    <3>5. HasPayload(Digest(p, IAC), m, k)
      BY <1>3, <3>4 DEF HasPayload
    <3>6. AgreesSubneg(Digest(p, IAC), m, AfterByte(r))
      BY <2>1, <2>2, <2>3, <2>7, <3>3, <3>4, <3>5 DEF AgreesSubneg
    <3> QED
      BY <1>2, <3>2, <3>3, <3>4, <3>6 DEF Parsed, Agrees
  <2> QED
    BY <2>6, <2>7
<1>4. ASSUME p.st = "stSB", HasPayload(p, m, n), r = Rest(m, n)
      PROVE  Parsed(p, m, r)
  <2>1. n \in 0 .. n
    BY <1>1
  <2>2. r = << << IAC, SE >> >>
    BY <1>1, <1>4, <2>1, RestStep
  <2>3. /\ r \in Seq(Group) /\ r # << >>
        /\ NextByte(r) = IAC /\ AfterByte(r) = << << SE >> >>
        /\ AfterByte(r) \in Seq(Group) /\ AfterByte(r) # << >>
    BY <1>2, <2>2, LastTwoBytes
  <2>4. p.sbOpt # 0
    BY <1>1, <1>4 DEF HasPayload
  <2>5. /\ Events(p, IAC) = << >> /\ Digest(p, IAC).st = "stSBIAC"
        /\ Digest(p, IAC).sb = p.sb /\ Digest(p, IAC).sbOpt = p.sbOpt
    BY <1>4, <2>4 DEF Events, Digest, Parser
  <2>6. HasPayload(Digest(p, IAC), m, n)
    BY <1>4, <2>5 DEF HasPayload
  <2>7. AgreesSubneg(Digest(p, IAC), m, AfterByte(r))
    BY <2>3, <2>5, <2>6 DEF AgreesSubneg
  <2> QED
    BY <1>2, <2>3, <2>5, <2>7 DEF Parsed, Agrees
<1>5. ASSUME NEW k \in 0 .. n - 1, p.st = "stSBIAC", HasPayload(p, m, k),
             m.Data[k + 1] = IAC, r = << <<IAC>> >> \o Rest(m, k + 1)
      PROVE  Parsed(p, m, r)
  <2>1. k + 1 \in 0 .. n
    BY <1>1
  <2>2. PICK t \in Seq(Group) : t = Rest(m, k + 1) /\ t # << >>
    BY <1>1, <2>1, RestStep
  <2>3. r = << << IAC >> >> \o t
    BY <1>5, <2>2
  <2>4. r \in Seq(Group) /\ r # << >> /\ NextByte(r) = IAC /\ AfterByte(r) = t
    BY <1>2, <2>3, OneByte
  <2>5. /\ Events(p, IAC) = << >> /\ Digest(p, IAC).st = "stSB"
        /\ Digest(p, IAC).sb = Append(p.sb, IAC) /\ Digest(p, IAC).sbOpt = p.sbOpt
    BY <1>2, <1>5 DEF Events, Digest, Parser
  <2>6. HasPayload(Digest(p, IAC), m, k + 1)
    BY <1>1, <1>2, <1>5, <2>5, PayloadGrows
  <2>7. AgreesSubneg(Digest(p, IAC), m, AfterByte(r))
    BY <2>1, <2>2, <2>4, <2>5, <2>6 DEF AgreesSubneg
  <2> QED
    BY <1>2, <2>2, <2>4, <2>5, <2>7 DEF Parsed, Agrees
<1>6. ASSUME p.st = "stSBIAC", HasPayload(p, m, n), r = << <<SE>> >>
      PROVE  Parsed(p, m, r)
  <2>1. /\ r \in Seq(Group) /\ r # << >> /\ NextByte(r) = SE
        /\ AfterByte(r) = << >> /\ << >> \in Seq(Group)
    BY <1>2, <1>6, LastByte
  <2>2. p.sb = m.Data
    BY <1>1, <1>6, SeqEqual DEF HasPayload, Parser
  <2>3. m = Subneg(p.sbOpt, p.sb)
    BY <1>1, <1>6, <2>2 DEF HasPayload, Subneg, Event
  <2>4. Events(p, SE) = << Subneg(p.sbOpt, p.sb) >> /\ Digest(p, SE).st = "stData"
    BY <1>2, <1>6 DEF Events, Digest, Parser
  <2> QED
    BY <1>2, <2>1, <2>3, <2>4 DEF Parsed
<1>7. \A k \in 0 .. n : k \in 0 .. n - 1 \/ k = n
  BY <1>1
<1> QED
  BY <1>3, <1>4, <1>5, <1>6, <1>7

(* A byte of a message leads to the next place in it, and the last byte to *)
(* the message itself.                                                     *)
LEMMA ParseStep ==
    ASSUME NEW p \in Parser, NEW m, IsMessage(m), NEW r, Agrees(p, m, r)
    PROVE  Parsed(p, m, r)
<1>1. CASE m.Kind = "EvData"
  BY <1>1, ParseData DEF Agrees, AgreesCmd, AgreesSubneg
<1>2. CASE m.Kind \notin {"EvData", "EvSubneg"}
  BY <1>2, ParseCmd DEF Agrees, AgreesData, AgreesSubneg
<1>3. CASE m.Kind = "EvSubneg"
  <2>1. (p.st = "stData" /\ r = Encoded(m)) \/ AgreesSubneg(p, m, r)
    BY <1>3 DEF Agrees, AgreesData, AgreesCmd
  <2> QED
    BY <1>3, <2>1, ParseOpening, ParsePayload DEF AgreesSubneg
<1> QED
  BY <1>1, <1>2, <1>3

-----------------------------------------------------------------------------
(* Types of the operators. *)

LEMMA DigestType ==
    ASSUME NEW p \in Parser, NEW c \in Byte
    PROVE  Digest(p, c) \in Parser /\ Events(p, c) \in Seq(Event)
<1>1. p.sb \in Seq(Byte) /\ p.cmd \in Byte /\ p.sbOpt \in Byte /\ IAC \in Byte
  BY Constants DEF Parser
<1>2. Append(p.sb, c) \in Seq(Byte) /\ Append(p.sb, IAC) \in Seq(Byte)
  BY <1>1, AppendProperties
<1>3. << >> \in Seq(Byte) /\ 0 \in Byte
  BY DEF Byte
<1>4. Digest(p, c) \in Parser
  <2>1. CASE p.st = "stData"
    BY <2>1 DEF Digest, Parser
  <2>2. CASE p.st = "stIAC"
    BY <2>2, <1>3 DEF Digest, Parser
  <2>3. CASE p.st = "stOpt"
    BY <2>3 DEF Digest, Parser
  <2>4. CASE p.st = "stSB"
    BY <2>4, <1>2 DEF Digest, Parser
  <2>5. CASE p.st = "stSBIAC"
    BY <2>5, <1>2 DEF Digest, Parser
  <2> QED
    BY <2>1, <2>2, <2>3, <2>4, <2>5 DEF Parser
<1>5. kindForCmd(p.cmd) \in Kinds
  BY DEF kindForCmd, Kinds
<1>6. Cmd(p.cmd, c) \in Event
  BY <1>5, <1>3 DEF Cmd, Event
<1>7. Payload(c) \in Event /\ Payload(IAC) \in Event
  <2>1. << c >> \in Seq(Byte) /\ << IAC >> \in Seq(Byte)
    BY <1>1
  <2> QED
    BY <2>1, <1>3 DEF Payload, Event, Kinds
<1>8. Subneg(p.sbOpt, p.sb) \in Event
  BY <1>1 DEF Subneg, Event, Kinds
<1>9. Events(p, c) \in {<< >>, << Payload(c) >>, << Payload(IAC) >>, << Cmd(p.cmd, c) >>,
                        << Subneg(p.sbOpt, p.sb) >>}
  BY DEF Events
<1>10. Events(p, c) \in Seq(Event)
  <2>1. << >> \in Seq(Event) /\ \A e \in Event : << e >> \in Seq(Event)
    OBVIOUS
  <2>2. << Payload(c) >> \in Seq(Event) /\ << Payload(IAC) >> \in Seq(Event)
        /\ << Cmd(p.cmd, c) >> \in Seq(Event) /\ << Subneg(p.sbOpt, p.sb) >> \in Seq(Event)
    BY <2>1, <1>6, <1>7, <1>8
  <2> QED
    BY <2>1, <2>2, <1>9
<1> QED
  BY <1>4, <1>10

LEMMA CmdType ==
    ASSUME NEW c \in Commands, NEW o \in Byte
    PROVE  Cmd(c, o) \in Event /\ IsMessage(Cmd(c, o))
<1>1. kindForCmd(c) \in Kinds \ {"EvData", "EvSubneg"}
  BY DEF Commands, kindForCmd, Kinds, DO, DONT, WILL, WONT
<1>2. << >> \in Seq(Byte)
  OBVIOUS
<1>3. Cmd(c, o) \in Event
  BY <1>1, <1>2 DEF Cmd, Event
<1> QED
  BY <1>1, <1>3 DEF Cmd, IsMessage

LEMMA OptionType == Options \subseteq Byte /\ OptTTYPE # 0 /\ OptNAWS # 0
BY DEF Options, Byte, OptBinary, OptEcho, OptSGA, OptTTYPE, OptNAWS

LEMMA SubnegType ==
    ASSUME NEW o \in Byte \ {0}, NEW d \in Seq(Byte)
    PROVE  Subneg(o, d) \in Event /\ IsMessage(Subneg(o, d))
<1>1. Subneg(o, d) \in Event
  BY DEF Subneg, Event, Kinds
<1> QED
  BY <1>1 DEF Subneg, IsMessage

LEMMA PayloadType ==
    ASSUME NEW c \in Byte
    PROVE  Payload(c) \in Event /\ IsMessage(Payload(c))
<1>1. << c >> \in Seq(Byte) /\ << c >>[1] = c /\ 0 \in Byte
  BY DEF Byte
<1>2. Payload(c) \in Event
  BY <1>1 DEF Payload, Event, Kinds
<1>3. Payload(c).Data[1] = c
  BY <1>1 DEF Payload
<1> QED
  BY <1>2, <1>3 DEF Payload, IsMessage

LEMMA ReplyType ==
    ASSUME NEW ev \in Event
    PROVE  Reply(ev) \in Seq(Event)
<1>1. ev.Opt \in Byte /\ OptSGA \in Byte /\ OptTTYPE \in Byte \ {0}
  BY OptionType DEF Event, Options
<1>2. ANSI \in Seq(Byte)
  BY DEF ANSI, Byte, TTYPEIS
<1>3. \A c \in Commands : << Cmd(c, OptSGA) >> \in Seq(Event) /\ << Cmd(c, ev.Opt) >> \in Seq(Event)
  BY <1>1, CmdType
<1>4. << Subneg(OptTTYPE, ANSI) >> \in Seq(Event)
  BY <1>1, <1>2, SubnegType
<1>5. {DO, DONT, WILL, WONT} \subseteq Commands
  BY DEF Commands
<1>6. Reply(ev) \in {<< >>, << Cmd(DO, OptSGA) >>, << Cmd(DONT, ev.Opt) >>,
                     << Cmd(WILL, ev.Opt) >>, << Cmd(WONT, ev.Opt) >>,
                     << Subneg(OptTTYPE, ANSI) >>}
  BY DEF Reply
<1>7. << Cmd(DO, OptSGA) >> \in Seq(Event) /\ << Cmd(DONT, ev.Opt) >> \in Seq(Event)
      /\ << Cmd(WILL, ev.Opt) >> \in Seq(Event) /\ << Cmd(WONT, ev.Opt) >> \in Seq(Event)
      /\ << >> \in Seq(Event)
  BY <1>3, <1>5
<1> QED
  BY <1>4, <1>6, <1>7

LEMMA LearnType ==
    ASSUME NEW p \in Policy, NEW ev \in Event
    PROVE  Learn(p, ev) \in Policy
<1>1. ev.Data \in Seq(Byte)
  BY DEF Event
<1>2. \A b \in Byte, c \in Byte : Word(b, c) \in Nat
  BY DEF Word, Byte
<1>3. CASE ev.Kind = "EvSubneg" /\ ev.Opt = OptNAWS /\ Len(ev.Data) >= 4
  <2>1. \A i \in 1 .. 4 : ev.Data[i] \in Byte
    BY <1>1, <1>3, ElementOfSeq, LenProperties
  <2>2. Word(ev.Data[1], ev.Data[2]) \in Nat /\ Word(ev.Data[3], ev.Data[4]) \in Nat
    BY <1>2, <2>1
  <2> QED
    BY <1>3, <2>2 DEF Learn, Policy
<1>4. CASE ev.Kind = "EvSubneg" /\ ~(ev.Opt = OptNAWS /\ Len(ev.Data) >= 4)
           /\ ev.Opt = OptTTYPE /\ Len(ev.Data) > 1 /\ ev.Data[1] = TTYPEIS
  <2>1. Tail(ev.Data) \in Seq(Byte)
    BY <1>1, <1>4, EmptySeq, HeadTailProperties
  <2> QED
    BY <1>4, <2>1 DEF Learn, Policy
<1>5. CASE ~(ev.Kind = "EvSubneg" /\ ev.Opt = OptNAWS /\ Len(ev.Data) >= 4)
           /\ ~(ev.Kind = "EvSubneg" /\ ev.Opt = OptTTYPE /\ Len(ev.Data) > 1 /\ ev.Data[1] = TTYPEIS)
  BY <1>5 DEF Learn
<1> QED
  BY <1>3, <1>4, <1>5

LEMMA WindowType ==
    ASSUME NEW w \in Windows
    PROVE  /\ w \in Seq(Byte) /\ Len(w) = 4 /\ w # << >>
           /\ \A i \in 1 .. 4 : w[i] \in Byte
           /\ Subneg(OptNAWS, w) \in Event /\ IsMessage(Subneg(OptNAWS, w))
<1>1. w \in Byte \X Byte \X Byte \X Byte
  BY TelnetAssumption
<1>2. w \in Seq(Byte) /\ Len(w) = 4 /\ w # << >>
  <2>1. PICK a \in Byte, b \in Byte, c \in Byte, d \in Byte : w = << a, b, c, d >>
    BY <1>1
  <2>2. << a, b, c, d >> \in Seq(Byte) /\ Len(<< a, b, c, d >>) = 4
    OBVIOUS
  <2> QED
    BY <2>1, <2>2, EmptySeq
<1>3. \A i \in 1 .. 4 : w[i] \in Byte
  BY <1>2, ElementOfSeq
<1>4. OptNAWS \in Byte \ {0}
  BY OptionType DEF Options
<1> QED
  BY <1>2, <1>3, <1>4, SubnegType

LEMMA PreambleType == Preamble \in Seq(Event)
<1>1. {OptEcho, OptSGA, OptNAWS, OptBinary, OptTTYPE} \subseteq Byte /\ OptTTYPE \in Byte \ {0}
  BY OptionType DEF Options
<1>2. Cmd(WILL, OptEcho) \in Event /\ Cmd(WILL, OptSGA) \in Event /\ Cmd(DO, OptNAWS) \in Event
      /\ Cmd(DO, OptBinary) \in Event /\ Cmd(DO, OptTTYPE) \in Event
  BY <1>1, CmdType DEF Commands
<1>3. << TTYPESEND >> \in Seq(Byte)
  BY DEF TTYPESEND, Byte
<1>4. Subneg(OptTTYPE, << TTYPESEND >>) \in Event
  BY <1>1, <1>3, SubnegType
<1> QED
  BY <1>2, <1>4 DEF Preamble

-----------------------------------------------------------------------------
(* The stream to the server. *)

Seg == [msg : Event, rest : Groups \ {<< >>}]

Msgs(w) == [i \in DOMAIN w |-> w[i].msg]

(* Only the first message on the wire has been begun, and the parser is    *)
(* where its bytes have led.                                               *)
StreamOK ==
    /\ \A i \in DOMAIN wire : IsMessage(wire[i].msg)
    /\ \A i \in DOMAIN wire : i > 1 => wire[i].rest = Encoded(wire[i].msg)
    /\ wire # << >> => Agrees(parser, wire[1].msg, wire[1].rest)
    /\ wire = << >> => parser.st = "stData"

StreamTypes ==
    /\ wire \in Seq(Seg) /\ pending \in Seq(Event) /\ events \in Seq(Event)
    /\ parser \in Parser

IsNaws(m) == m.Kind = "EvSubneg" /\ m.Opt = OptNAWS

(* What a client may send in one step. *)
ClientMessages(ms) ==
    /\ ms \in Seq(Event)
    /\ \A i \in DOMAIN ms : IsMessage(ms[i])

LEMMA SegmentType ==
    ASSUME NEW m, IsMessage(m)
    PROVE  Segment(m) \in Seg /\ Encoded(m) \in Groups /\ Encoded(m) # << >>
<1>1. NewParser \in Parser /\ NewParser.st = "stData"
  BY DEF NewParser, Parser, Byte
<1>2. PICK p \in Parser : p.st = "stData"
  BY <1>1
<1>3. Parsed(p, m, Encoded(m))
  BY <1>2, ParseStep DEF Agrees
<1>4. Encoded(m) \in Seq(Group) /\ Encoded(m) # << >>
  BY <1>3 DEF Parsed
<1> QED
  BY <1>4 DEF Segment, Seg, Groups, Group, IsMessage

LEMMA SentWire ==
    ASSUME NEW w \in Seq(Seg), NEW ms, ClientMessages(ms)
    PROVE  LET v == w \o [i \in DOMAIN ms |-> Segment(ms[i])] IN
           /\ v \in Seq(Seg) /\ Len(v) = Len(w) + Len(ms)
           /\ \A i \in 1 .. Len(w) : v[i] = w[i]
           /\ \A i \in 1 .. Len(ms) : v[Len(w) + i] = Segment(ms[i])
<1> DEFINE u == [i \in DOMAIN ms |-> Segment(ms[i])]
<1>1. ms \in Seq(Event) /\ Len(ms) \in Nat /\ DOMAIN ms = 1 .. Len(ms) /\ Len(w) \in Nat
  BY LenProperties DEF ClientMessages
<1>2. \A i \in 1 .. Len(ms) : Segment(ms[i]) \in Seg
  BY <1>1, SegmentType DEF ClientMessages
<1>3. u = [i \in 1 .. Len(ms) |-> Segment(ms[i])]
  BY <1>1
<1>4. u \in Seq(Seg) /\ Len(u) = Len(ms) /\ \A i \in 1 .. Len(ms) : u[i] = Segment(ms[i])
  BY <1>1, <1>2, <1>3
<1> HIDE DEF u
<1>5. /\ w \o u \in Seq(Seg) /\ Len(w \o u) = Len(w) + Len(u)
      /\ \A i \in 1 .. Len(w) + Len(u) : (w \o u)[i] =
            IF i <= Len(w) THEN w[i] ELSE u[i - Len(w)]
  BY <1>4, ConcatProperties
<1>6. \A i \in 1 .. Len(w) : (w \o u)[i] = w[i]
  BY <1>1, <1>4, <1>5
<1>7. \A i \in 1 .. Len(ms) : (w \o u)[Len(w) + i] = Segment(ms[i])
  <2> TAKE i \in 1 .. Len(ms)
  <2>1. /\ Len(w) + i \in 1 .. Len(w) + Len(u) /\ ~(Len(w) + i <= Len(w))
        /\ Len(w) + i - Len(w) = i
    BY <1>1, <1>4
  <2> QED
    BY <2>1, <1>4, <1>5
<1> QED
  BY <1>4, <1>5, <1>6, <1>7 DEF u

LEMMA MsgsType ==
    ASSUME NEW w \in Seq(Seg)
    PROVE  /\ Msgs(w) \in Seq(Event) /\ Len(Msgs(w)) = Len(w)
           /\ \A i \in 1 .. Len(w) : Msgs(w)[i] = w[i].msg
<1>1. Len(w) \in Nat /\ DOMAIN w = 1 .. Len(w)
  BY LenProperties
<1>2. \A i \in 1 .. Len(w) : w[i].msg \in Event
  <2>1. \A i \in 1 .. Len(w) : w[i] \in Seg
    BY ElementOfSeq
  <2>2. \A x \in Seg : x.msg \in Event
    BY DEF Seg
  <2> QED
    BY <2>1, <2>2
<1> QED
  BY <1>1, <1>2 DEF Msgs

LEMMA SentMsgs ==
    ASSUME NEW w \in Seq(Seg), NEW ms, ClientMessages(ms), NEW v,
           v = w \o [i \in DOMAIN ms |-> Segment(ms[i])]
    PROVE  Msgs(v) = Msgs(w) \o ms
<1>1. ms \in Seq(Event) /\ Len(ms) \in Nat /\ Len(w) \in Nat
  BY LenProperties DEF ClientMessages
<1>2. /\ v \in Seq(Seg) /\ Len(v) = Len(w) + Len(ms)
      /\ \A i \in 1 .. Len(w) : v[i] = w[i]
      /\ \A i \in 1 .. Len(ms) : v[Len(w) + i] = Segment(ms[i])
  BY SentWire
<1>3. PICK a \in Seq(Event) : a = Msgs(w)
  BY MsgsType
<1>4. PICK b \in Seq(Event) : b = Msgs(v)
  BY <1>2, MsgsType
<1>5. Len(a) = Len(w) /\ Len(b) = Len(w) + Len(ms)
  BY <1>2, <1>3, <1>4, MsgsType
<1>6. /\ a \o ms \in Seq(Event) /\ Len(a \o ms) = Len(w) + Len(ms)
      /\ \A i \in 1 .. Len(w) + Len(ms) : (a \o ms)[i] =
            IF i <= Len(w) THEN a[i] ELSE ms[i - Len(w)]
  BY <1>1, <1>5, ConcatProperties
<1>7. ASSUME NEW i \in 1 .. Len(w) + Len(ms)
      PROVE  b[i] = (a \o ms)[i]
  <2>1. b[i] = v[i].msg
    BY <1>2, <1>4, MsgsType
  <2>2. CASE i \in 1 .. Len(w)
    <3>1. v[i] = w[i] /\ a[i] = w[i].msg /\ (a \o ms)[i] = a[i]
      BY <2>2, <1>1, <1>2, <1>3, <1>6, MsgsType
    <3> QED
      BY <2>1, <3>1
  <2>3. CASE i \notin 1 .. Len(w)
    <3>1. i - Len(w) \in 1 .. Len(ms) /\ Len(w) + (i - Len(w)) = i /\ ~(i <= Len(w))
      BY <2>3, <1>1
    <3>2. v[i] = Segment(ms[i - Len(w)])
      BY <3>1, <1>2
    <3>3. v[i].msg = ms[i - Len(w)]
      <4>1. PICK x : x = ms[i - Len(w)]
        OBVIOUS
      <4>2. Segment(x).msg = x
        BY DEF Segment
      <4> QED
        BY <3>2, <4>1, <4>2
    <3> QED
      BY <2>1, <3>1, <3>3, <1>6
  <2> QED
    BY <2>2, <2>3
<1>8. b = a \o ms
  BY <1>4, <1>5, <1>6, <1>7, SeqEqual
<1> QED
  BY <1>3, <1>4, <1>8

LEMMA StreamSend ==
    ASSUME StreamTypes, StreamOK, MessagesIntact, NEW ms, ClientMessages(ms), Send(ms),
           parser' = parser, events' = events
    PROVE  StreamTypes' /\ StreamOK' /\ MessagesIntact'
<1>1. PICK w \in Seq(Seg) : w = wire
  BY DEF StreamTypes
<1>2. PICK v : v = w \o [i \in DOMAIN ms |-> Segment(ms[i])]
  OBVIOUS
<1>3. wire' = v /\ pending' = pending \o ms
  BY <1>1, <1>2 DEF Send
<1>4. ms \in Seq(Event) /\ Len(ms) \in Nat /\ DOMAIN ms = 1 .. Len(ms) /\ Len(w) \in Nat
      /\ DOMAIN w = 1 .. Len(w)
  BY LenProperties DEF ClientMessages
<1>5. /\ v \in Seq(Seg) /\ Len(v) = Len(w) + Len(ms) /\ DOMAIN v = 1 .. Len(v)
      /\ \A i \in 1 .. Len(w) : v[i] = w[i]
      /\ \A i \in 1 .. Len(ms) : v[Len(w) + i] = Segment(ms[i])
  BY <1>2, SentWire, LenProperties
<1>6. \A i \in 1 .. Len(v) :
         i \in 1 .. Len(w) \/ (i - Len(w) \in 1 .. Len(ms) /\ Len(w) + (i - Len(w)) = i)
  BY <1>4, <1>5
<1>7. \A i \in DOMAIN v : IsMessage(v[i].msg)
  <2> TAKE i \in DOMAIN v
  <2>1. CASE i \in 1 .. Len(w)
    BY <2>1, <1>1, <1>4, <1>5 DEF StreamOK
  <2>2. CASE i - Len(w) \in 1 .. Len(ms) /\ Len(w) + (i - Len(w)) = i
    <3>1. v[i] = Segment(ms[i - Len(w)])
      BY <2>2, <1>5
    <3> QED
      BY <2>2, <3>1, <1>4 DEF Segment, ClientMessages
  <2> QED
    BY <2>1, <2>2, <1>5, <1>6
<1>8. \A i \in DOMAIN v : i > 1 \/ w = << >> => v[i].rest = Encoded(v[i].msg)
  <2> TAKE i \in DOMAIN v
  <2>1. CASE i \in 1 .. Len(w)
    BY <2>1, <1>1, <1>4, <1>5, EmptySeq DEF StreamOK
  <2>2. CASE i - Len(w) \in 1 .. Len(ms) /\ Len(w) + (i - Len(w)) = i
    <3>1. v[i] = Segment(ms[i - Len(w)])
      BY <2>2, <1>5
    <3> QED
      BY <3>1 DEF Segment
  <2> QED
    BY <2>1, <2>2, <1>5, <1>6
<1>9. v # << >> => Agrees(parser, v[1].msg, v[1].rest)
  <2>1. CASE w # << >>
    <3>1. 1 \in 1 .. Len(w)
      BY <2>1, <1>4, EmptySeq
    <3> QED
      BY <2>1, <3>1, <1>1, <1>5 DEF StreamOK
  <2>2. CASE w = << >> /\ v # << >>
    <3>1. 1 \in DOMAIN v
      BY <2>2, <1>5, EmptySeq
    <3>2. v[1].rest = Encoded(v[1].msg)
      BY <2>2, <3>1, <1>8
    <3> QED
      BY <2>2, <3>2, <1>1 DEF StreamOK, Agrees
  <2> QED
    BY <2>1, <2>2
<1>10. v = << >> => parser.st = "stData"
  <2>1. v = << >> => w = << >>
    BY <1>4, <1>5, EmptySeq
  <2> QED
    BY <2>1, <1>1 DEF StreamOK
<1>11. StreamOK'
  BY <1>3, <1>7, <1>8, <1>9, <1>10 DEF StreamOK
<1>12. pending' \in Seq(Event)
  BY <1>3, <1>4, ConcatProperties DEF StreamTypes
<1>13. pending \o ms = events \o Msgs(v)
  <2>1. PICK e \in Seq(Event) : e = events
    BY DEF StreamTypes
  <2>2. PICK a \in Seq(Event) : a = Msgs(w)
    BY MsgsType
  <2>3. pending = e \o a
    BY <2>1, <2>2, <1>1 DEF MessagesIntact, Msgs
  <2>4. Msgs(v) = a \o ms
    BY <2>2, <1>2, SentMsgs
  <2>5. (e \o a) \o ms = e \o (a \o ms)
    BY <1>4, ConcatAssociative
  <2> QED
    BY <2>1, <2>3, <2>4, <2>5
<1>14. MessagesIntact'
  BY <1>3, <1>13 DEF MessagesIntact, Msgs
<1> QED
  BY <1>3, <1>5, <1>11, <1>12, <1>14 DEF StreamTypes

(* The stream after its next byte. *)
LEMMA Replaced ==
    ASSUME NEW S, NEW w \in Seq(S), w # << >>, NEW x \in S
    PROVE  LET v == << x >> \o Tail(w) IN
           /\ v \in Seq(S) /\ Len(v) = Len(w) /\ v # << >> /\ v[1] = x
           /\ \A i \in 2 .. Len(w) : v[i] = w[i]
<1>1. Tail(w) \in Seq(S) /\ Len(Tail(w)) = Len(w) - 1 /\ Len(w) \in Nat \ {0}
      /\ \A i \in 1 .. Len(w) - 1 : Tail(w)[i] = w[i + 1]
  BY HeadTailProperties, EmptySeq
<1>2. PICK t \in Seq(S) : t = Tail(w)
  BY <1>1
<1>. << x >> \in Seq(S) /\ Len(<< x >>) = 1 /\ << x >>[1] = x
  OBVIOUS
<1>3. PICK u \in Seq(S) : u = << x >> /\ Len(u) = 1 /\ u[1] = x
  OBVIOUS
<1>4. /\ u \o t \in Seq(S) /\ Len(u \o t) = Len(w)
      /\ \A i \in 1 .. Len(w) : (u \o t)[i] = IF i <= 1 THEN u[i] ELSE t[i - 1]
  BY <1>1, <1>2, <1>3, ConcatProperties
<1>5. \A i \in 2 .. Len(w) : (u \o t)[i] = w[i]
  <2> TAKE i \in 2 .. Len(w)
  <2>1. i \in 1 .. Len(w) /\ ~(i <= 1) /\ i - 1 \in 1 .. Len(w) - 1 /\ (i - 1) + 1 = i
    BY <1>1
  <2>2. (u \o t)[i] = t[i - 1]
    BY <2>1, <1>4
  <2>3. t[i - 1] = w[(i - 1) + 1]
    BY <2>1, <1>1, <1>2
  <2> QED
    BY <2>1, <2>2, <2>3
<1>6. 1 \in 1 .. Len(w) /\ (u \o t)[1] = x
  BY <1>1, <1>3, <1>4
<1>7. u \o t # << >>
  BY <1>1, <1>4, EmptySeq
<1> QED
  BY <1>2, <1>3, <1>4, <1>5, <1>6, <1>7

LEMMA StreamDigest ==
    ASSUME StreamTypes, StreamOK, MessagesIntact, wire # << >>,
           LET c == NextByte(wire[1].rest) IN
           parser' = Digest(parser, c) /\ events' = events \o Events(parser, c),
           wire' = Advance(wire), pending' = pending
    PROVE  StreamTypes' /\ StreamOK' /\ MessagesIntact'
<1>1. PICK w \in Seq(Seg) : w = wire
  BY DEF StreamTypes
<1>2. w # << >> /\ Len(w) \in Nat \ {0} /\ DOMAIN w = 1 .. Len(w) /\ 1 \in 1 .. Len(w)
  BY <1>1, EmptySeq, LenProperties
<1>3. PICK s \in Seg : s = w[1]
  BY <1>2, ElementOfSeq
<1>4. PICK m \in Event : m = s.msg /\ IsMessage(m) /\ m = w[1].msg
  BY <1>1, <1>2, <1>3 DEF StreamOK, IsMessage
<1>5. PICK r : r = s.rest /\ r = w[1].rest
  BY <1>3
<1>6. PICK p \in Parser : p = parser
  BY DEF StreamTypes
<1>7. Agrees(p, m, r)
  BY <1>1, <1>2, <1>4, <1>5, <1>6 DEF StreamOK
<1>8. PICK c : c = NextByte(r)
  OBVIOUS
<1>9. Parsed(p, m, r)
  BY <1>4, <1>6, <1>7, ParseStep
<1>10. PICK q : q = Digest(p, c) /\ q = parser'
  BY <1>1, <1>5, <1>6, <1>8
<1>11. PICK e \in Seq(Event) : e = events
  BY DEF StreamTypes
<1>12. events' = e \o Events(p, c)
  BY <1>1, <1>5, <1>6, <1>8, <1>11
<1>13. PICK y : y = AfterByte(r)
  OBVIOUS
<1>14. /\ c \in Byte /\ y \in Seq(Group)
       /\ y # << >> => Events(p, c) = << >> /\ Agrees(q, m, y)
       /\ y = << >> => Events(p, c) = << m >> /\ q.st = "stData"
  BY <1>8, <1>9, <1>10, <1>13 DEF Parsed
<1>15. q \in Parser /\ Events(p, c) \in Seq(Event)
  BY <1>6, <1>10, <1>14, DigestType
<1>16. events' \in Seq(Event)
  BY <1>12, <1>15, ConcatProperties
<1>17. PICK a \in Seq(Event) : a = Msgs(w)
  BY MsgsType
<1>18. /\ Len(a) = Len(w) /\ \A i \in 1 .. Len(w) : a[i] = w[i].msg
  BY <1>17, MsgsType
<1>19. pending = e \o a
  BY <1>1, <1>11, <1>17 DEF MessagesIntact, Msgs
<1>20. \A i \in 2 .. Len(w) : w[i].rest = Encoded(w[i].msg) /\ IsMessage(w[i].msg)
  BY <1>1, <1>2 DEF StreamOK
<1>21. CASE y # << >>
  <2>1. PICK x : x = [s EXCEPT !.rest = y]
    OBVIOUS
  <2>2. x \in Seg /\ x.msg = m /\ x.rest = y
    BY <2>1, <1>3, <1>4, <1>14, <1>21 DEF Seg, Groups, Group
  <2>3. PICK v : v = << x >> \o Tail(w)
    OBVIOUS
  <2>4. wire' = v
    BY <2>1, <2>3, <1>1, <1>3, <1>5, <1>13, <1>21 DEF Advance
  <2>5. /\ v \in Seq(Seg) /\ Len(v) = Len(w) /\ v # << >> /\ v[1] = x
        /\ \A i \in 2 .. Len(w) : v[i] = w[i]
    BY <2>2, <2>3, <1>2, Replaced
  <2>6. DOMAIN v = 1 .. Len(w) /\ \A i \in 1 .. Len(w) : i = 1 \/ i \in 2 .. Len(w)
    BY <2>5, <1>2, LenProperties
  <2>7. /\ \A i \in DOMAIN v : IsMessage(v[i].msg)
        /\ \A i \in DOMAIN v : i > 1 => v[i].rest = Encoded(v[i].msg)
    BY <2>2, <2>5, <2>6, <1>4, <1>20
  <2>8. Agrees(q, v[1].msg, v[1].rest)
    BY <2>2, <2>5, <1>14, <1>21
  <2>9. StreamOK'
    BY <2>4, <2>5, <2>7, <2>8, <1>10 DEF StreamOK
  <2>10. PICK b \in Seq(Event) : b = Msgs(v)
    BY <2>5, MsgsType
  <2>11. /\ Len(b) = Len(w) /\ \A i \in 1 .. Len(w) : b[i] = v[i].msg
    BY <2>5, <2>10, MsgsType
  <2>12. \A i \in 1 .. Len(w) : b[i] = a[i]
    BY <2>2, <2>5, <2>6, <2>11, <1>4, <1>18
  <2>13. b = a
    BY <2>11, <2>12, <1>18, SeqEqual
  <2>14. events' = e
    BY <1>12, <1>14, <1>21, ConcatEmptySeq
  <2>15. MessagesIntact'
    BY <2>4, <2>10, <2>13, <2>14, <1>19 DEF MessagesIntact, Msgs
  <2> QED
    BY <2>4, <2>5, <2>9, <2>15, <1>10, <1>15, <1>16 DEF StreamTypes
<1>22. CASE y = << >>
  <2>1. PICK v : v = Tail(w)
    OBVIOUS
  <2>2. wire' = v
    BY <2>1, <1>1, <1>5, <1>13, <1>22 DEF Advance
  <2>3. /\ v \in Seq(Seg) /\ Len(v) = Len(w) - 1 /\ DOMAIN v = 1 .. Len(v)
        /\ \A i \in 1 .. Len(w) - 1 : v[i] = w[i + 1]
    BY <2>1, <1>2, HeadTailProperties, LenProperties
  <2>4. \A i \in 1 .. Len(w) - 1 : i + 1 \in 2 .. Len(w)
    BY <1>2
  <2>5. \A i \in DOMAIN v : IsMessage(v[i].msg) /\ v[i].rest = Encoded(v[i].msg)
    BY <2>3, <2>4, <1>20
  <2>6. v # << >> => Agrees(q, v[1].msg, v[1].rest)
    <3>1. v # << >> => 1 \in DOMAIN v
      BY <2>3, EmptySeq
    <3> QED
      BY <3>1, <2>5, <1>14, <1>22 DEF Agrees
  <2>7. StreamOK'
    BY <2>2, <2>5, <2>6, <1>10, <1>14, <1>22 DEF StreamOK
  <2>8. PICK b \in Seq(Event) : b = Msgs(v)
    BY <2>3, MsgsType
  <2>9. Len(b) = Len(w) - 1 /\ \A i \in 1 .. Len(w) - 1 : b[i] = v[i].msg
    BY <2>3, <2>8, MsgsType
  <2>10. << m >> \in Seq(Event) /\ Len(<< m >>) = 1 /\ << m >>[1] = m
    BY <1>4
  <2>11. PICK n \in Seq(Event) : n = << m >> /\ Len(n) = 1 /\ n[1] = m
    BY <2>10
  <2>12. /\ n \o b \in Seq(Event) /\ Len(n \o b) = Len(w)
         /\ \A i \in 1 .. Len(w) : (n \o b)[i] = IF i <= 1 THEN n[i] ELSE b[i - 1]
    BY <2>9, <2>11, <1>2, ConcatProperties
  <2>13. \A i \in 1 .. Len(w) : (n \o b)[i] = a[i]
    <3> TAKE i \in 1 .. Len(w)
    <3>1. CASE i = 1
      BY <3>1, <2>11, <2>12, <1>4, <1>18
    <3>2. CASE i # 1
      <4>1. i - 1 \in 1 .. Len(w) - 1 /\ (i - 1) + 1 = i /\ ~(i <= 1)
        BY <3>2, <1>2
      <4>2. (n \o b)[i] = b[i - 1] /\ b[i - 1] = v[i - 1].msg /\ v[i - 1] = w[(i - 1) + 1]
        BY <4>1, <2>3, <2>9, <2>12
      <4> QED
        BY <4>1, <4>2, <1>18
    <3> QED
      BY <3>1, <3>2
  <2>14. n \o b = a
    BY <2>12, <2>13, <1>18, SeqEqual
  <2>15. (e \o n) \o b = e \o (n \o b)
    BY <1>11, <2>8, <2>11, ConcatAssociative
  <2>16. events' = e \o n
    BY <2>11, <1>12, <1>14, <1>22
  <2>17. MessagesIntact'
    BY <2>2, <2>8, <2>14, <2>15, <2>16, <1>19 DEF MessagesIntact, Msgs
  <2> QED
    BY <2>2, <2>3, <2>7, <2>17, <1>10, <1>15, <1>16 DEF StreamTypes
<1> QED
  BY <1>21, <1>22

LEMMA StreamHandle ==
    ASSUME StreamTypes, StreamOK, MessagesIntact, events # << >>,
           events' = Tail(events), pending' = Tail(pending),
           wire' = wire, parser' = parser
    PROVE  /\ StreamTypes' /\ StreamOK' /\ MessagesIntact'
           /\ pending # << >> /\ pending[1] = events[1] /\ events[1] \in Event
<1>1. PICK e \in Seq(Event) : e = events /\ e # << >>
  BY DEF StreamTypes
<1>2. PICK w \in Seq(Seg) : w = wire
  BY DEF StreamTypes
<1>3. PICK a \in Seq(Event) : a = Msgs(w)
  BY MsgsType
<1>4. pending = e \o a
  BY <1>1, <1>2, <1>3 DEF MessagesIntact, Msgs
<1>5. /\ Len(e) \in Nat \ {0} /\ Len(a) \in Nat
      /\ Tail(e) \in Seq(Event) /\ Len(Tail(e)) = Len(e) - 1
      /\ \A i \in 1 .. Len(e) - 1 : Tail(e)[i] = e[i + 1]
  BY <1>1, HeadTailProperties, EmptySeq, LenProperties
<1>6. PICK t \in Seq(Event) : t = Tail(e)
  BY <1>5
<1>. /\ e \o a \in Seq(Event) /\ Len(e \o a) = Len(e) + Len(a)
     /\ \A i \in 1 .. Len(e) + Len(a) : (e \o a)[i] = IF i <= Len(e) THEN e[i] ELSE a[i - Len(e)]
  BY ConcatProperties
<1>7. PICK f \in Seq(Event) : /\ f = e \o a /\ Len(f) = Len(e) + Len(a)
           /\ \A i \in 1 .. Len(e) + Len(a) : f[i] = IF i <= Len(e) THEN e[i] ELSE a[i - Len(e)]
  OBVIOUS
<1>8. f # << >> /\ f[1] = e[1] /\ e[1] \in Event
  BY <1>5, <1>7, EmptySeq, ElementOfSeq
<1>9. /\ Tail(f) \in Seq(Event) /\ Len(Tail(f)) = Len(f) - 1
      /\ \A i \in 1 .. Len(f) - 1 : Tail(f)[i] = f[i + 1]
  BY <1>8, HeadTailProperties
<1>10. /\ t \o a \in Seq(Event) /\ Len(t \o a) = Len(t) + Len(a)
       /\ \A i \in 1 .. Len(t) + Len(a) : (t \o a)[i] = IF i <= Len(t) THEN t[i] ELSE a[i - Len(t)]
  BY ConcatProperties
<1>11. ASSUME NEW i \in 1 .. Len(f) - 1
       PROVE  Tail(f)[i] = (t \o a)[i]
  <2>1. i + 1 \in 1 .. Len(e) + Len(a) /\ i \in 1 .. Len(t) + Len(a) /\ Len(t) = Len(e) - 1
    BY <1>5, <1>6, <1>7
  <2>2. Tail(f)[i] = f[i + 1]
    BY <1>9
  <2>3. CASE i <= Len(t)
    <3>1. i + 1 <= Len(e) /\ i \in 1 .. Len(e) - 1
      BY <2>1, <2>3, <1>5
    <3> QED
      BY <3>1, <2>1, <2>2, <2>3, <1>5, <1>6, <1>7, <1>10
  <2>4. CASE ~(i <= Len(t))
    <3>1. ~(i + 1 <= Len(e)) /\ i + 1 - Len(e) = i - Len(t)
      BY <2>1, <2>4, <1>5
    <3> QED
      BY <3>1, <2>1, <2>2, <2>4, <1>7, <1>10
  <2> QED
    BY <2>3, <2>4
<1>12. Tail(f) = t \o a
  <2>1. Len(Tail(f)) = Len(t \o a)
    BY <1>5, <1>6, <1>7, <1>9, <1>10
  <2> QED
    BY <2>1, <1>9, <1>10, <1>11, SeqEqual
<1>13. MessagesIntact'
  BY <1>1, <1>2, <1>3, <1>4, <1>6, <1>7, <1>12 DEF MessagesIntact, Msgs
<1>14. StreamOK'
  BY DEF StreamOK
<1> QED
  BY <1>1, <1>4, <1>6, <1>7, <1>8, <1>9, <1>13, <1>14 DEF StreamTypes

-----------------------------------------------------------------------------
(* The door.  Between two messages the client's cursor is where the door   *)
(* believes it is; while message m is on its way, it is where it was       *)
(* before m; after a carriage return it is in column 0.                    *)
Before(m, d) ==
    drawn = IF m.Kind = "EvData" THEN Drawn(d, m.Data[1]) ELSE d

DoorOK ==
    /\ ~screen.esc
    /\ lastCR => screen.col = 0
    /\ doorWire = << >> => remote.st = "stData" /\ <<screen.row, screen.col>> = drawn
    /\ doorWire # << >> =>
          \E m : /\ IsMessage(m) /\ Agrees(remote, m, doorWire)
                /\ Before(m, <<screen.row, screen.col>>)

DoorTypes ==
    /\ doorWire \in Groups /\ remote \in Parser
    /\ ack \in BOOLEAN /\ lastCR \in BOOLEAN
    /\ screen \in Cursor /\ drawn \in Nat \X Nat

(* A cursor, and the cursor after one byte. *)
At(row, col, e) == [row |-> row, col |-> col, esc |-> e]

LEMMA ShownByte ==
    ASSUME NEW row \in Nat, NEW col \in Nat, NEW c \in Byte
    PROVE  /\ c = LF  => Shown(At(row, col, FALSE), c) = At(row + 1, col, FALSE)
           /\ c = CR  => Shown(At(row, col, FALSE), c) = At(row, 0, FALSE)
           /\ c = IAC => Shown(At(row, col, FALSE), c) = At(row, col, TRUE)
           /\ c = IAC => Shown(At(row, col, TRUE), c) = At(row, col + 1, FALSE)
           /\ c \notin {LF, CR, IAC, 0} => Shown(At(row, col, FALSE), c) = At(row, col + 1, FALSE)
           /\ c = 0 => Shown(At(row, col, FALSE), c) = At(row, col, FALSE)
<1>1. LF # CR /\ LF # IAC /\ CR # IAC /\ 0 \notin {LF, CR, IAC}
  BY DEF LF, CR, IAC
<1> QED
  BY <1>1 DEF Shown, At

(* One payload byte of a door, encoded and shown. *)
LEMMA DoorShows ==
    ASSUME NEW t \in Cursor, ~t.esc, NEW l \in BOOLEAN, l => t.col = 0, NEW c \in Byte
    PROVE  LET u == ShownAll(t, DoorEncode(l, c)) IN
           /\ u \in Cursor /\ ~u.esc
           /\ <<u.row, u.col>> = Drawn(<<t.row, t.col>>, c)
           /\ c = CR => u.col = 0
<1>1. t = [row |-> t.row, col |-> t.col, esc |-> FALSE] /\ t.row \in Nat /\ t.col \in Nat
  BY Zenon DEF Cursor
<1>2. PICK row \in Nat, col \in Nat : row = t.row /\ col = t.col
  BY <1>1
<1>3. t = At(row, col, FALSE) /\ (l => col = 0)
  BY <1>1, <1>2 DEF At
<1>4. PICK out : out = DoorEncode(l, c)
  OBVIOUS
<1>5. LF # CR /\ LF # IAC /\ CR # IAC /\ 0 \notin {LF, CR, IAC}
      /\ LF \in Byte /\ CR \in Byte /\ IAC \in Byte
  BY DEF LF, CR, IAC, Byte
<1>6. PICK down \in Nat, right \in Nat, zero \in Nat :
        down = row + 1 /\ right = col + 1 /\ zero = 0
  OBVIOUS
<1>7. SUFFICES \E i, j \in Nat :
         /\ ShownAll(t, out) = At(i, j, FALSE)
         /\ <<i, j>> = Drawn(<<row, col>>, c)
         /\ c = CR => j = 0
  <2>1. PICK i \in Nat, j \in Nat :
         /\ ShownAll(t, out) = At(i, j, FALSE)
         /\ <<i, j>> = Drawn(<<row, col>>, c)
         /\ c = CR => j = 0
    BY <1>7
  <2>2. PICK u : u = At(i, j, FALSE)
    OBVIOUS
  <2>3. u \in Cursor /\ ~u.esc /\ u.row = i /\ u.col = j
    BY <2>2 DEF At, Cursor
  <2>4. u = ShownAll(t, DoorEncode(l, c)) /\ <<u.row, u.col>> = Drawn(<<t.row, t.col>>, c)
    BY <2>1, <2>2, <2>3, <1>2, <1>4
  <2> QED
    BY <2>1, <2>3, <2>4
<1>8. CASE c = LF /\ l
  <2>1. out = << LF >>
    BY <1>8, <1>4 DEF DoorEncode
  <2>2. ShownAll(t, out) = Shown(t, c)
    BY <2>1, <1>8 DEF ShownAll
  <2>3. Shown(t, c) = At(down, col, FALSE) /\ col = zero
    BY <1>3, <1>6, <1>8, ShownByte
  <2>4. Drawn(<<row, col>>, c) = <<down, zero>>
    BY <1>6, <1>8 DEF Drawn
  <2> QED
    BY <2>2, <2>3, <2>4, <1>5, <1>8
<1>9. CASE c = LF /\ ~l
  <2>1. out = << CR, LF >>
    BY <1>9, <1>4 DEF DoorEncode
  <2>2. ShownAll(t, out) = Shown(Shown(t, CR), LF)
    BY <2>1 DEF ShownAll
  <2>3. PICK b \in Byte : b = CR
    BY <1>5
  <2>4. Shown(t, b) = At(row, zero, FALSE)
    BY <2>3, <1>3, <1>6, ShownByte
  <2>5. Shown(At(row, zero, FALSE), c) = At(down, zero, FALSE)
    BY <1>6, <1>9, ShownByte
  <2>6. Drawn(<<row, col>>, c) = <<down, zero>>
    BY <1>6, <1>9 DEF Drawn
  <2> QED
    BY <2>2, <2>3, <2>4, <2>5, <2>6, <1>5, <1>9
<1>10. CASE c = IAC
  <2>1. out = << IAC, IAC >>
    BY <1>10, <1>4, <1>5 DEF DoorEncode, Doubled
  <2>2. ShownAll(t, out) = Shown(Shown(t, c), c)
    BY <2>1, <1>10 DEF ShownAll
  <2>3. Shown(t, c) = At(row, col, TRUE)
    BY <1>3, <1>10, ShownByte
  <2>4. Shown(At(row, col, TRUE), c) = At(row, right, FALSE)
    BY <1>6, <1>10, ShownByte, ZenonT(20)
  <2>5. Drawn(<<row, col>>, c) = <<row, right>>
    BY <1>5, <1>6, <1>10 DEF Drawn
  <2> QED
    BY <2>2, <2>3, <2>4, <2>5, <1>5, <1>10
<1>11. CASE c # LF /\ c # IAC
  <2>1. out = << c >>
    BY <1>11, <1>4 DEF DoorEncode, Doubled
  <2>2. ShownAll(t, out) = Shown(t, c)
    BY <2>1 DEF ShownAll
  <2>3. CASE c = CR
    <3>1. Shown(t, c) = At(row, zero, FALSE)
      BY <2>3, <1>3, <1>6, ShownByte
    <3>2. Drawn(<<row, col>>, c) = <<row, zero>>
      BY <2>3, <1>5, <1>6 DEF Drawn
    <3> QED
      BY <3>1, <3>2, <2>2, <1>6
  <2>4. CASE c = 0
    <3>1. Shown(t, c) = At(row, col, FALSE)
      BY <2>4, <1>3, ShownByte
    <3>2. Drawn(<<row, col>>, c) = <<row, col>>
      BY <2>4, <1>5 DEF Drawn
    <3> QED
      BY <3>1, <3>2, <2>2, <2>4, <1>5
  <2>5. CASE c # CR /\ c # 0
    <3>1. Shown(t, c) = At(row, right, FALSE)
      <4>1. c \notin {LF, CR, IAC, 0}
        BY <2>5, <1>11
      <4>2. Shown(At(row, col, FALSE), c) = At(row, col + 1, FALSE)
        BY <4>1, ShownByte
      <4> QED
        BY <4>2, <1>3, <1>6
    <3>2. Drawn(<<row, col>>, c) = <<row, right>>
      BY <2>5, <1>6, <1>11 DEF Drawn
    <3> QED
      BY <3>1, <3>2, <2>2, <2>5
  <2> QED
    BY <2>3, <2>4, <2>5
<1> QED
  BY <1>8, <1>9, <1>10, <1>11

(* What the pump does with one byte of the door. *)
LEMMA DoorPump ==
    ASSUME DoorTypes, DoorOK, RemotePump, toClient \in Seq(Event), leaked \subseteq Byte
    PROVE  DoorTypes' /\ DoorOK' /\ toClient' \in Seq(Event) /\ leaked' \subseteq Byte
<1>1. PICK m : /\ IsMessage(m) /\ Agrees(remote, m, doorWire)
               /\ Before(m, <<screen.row, screen.col>>)
  BY DEF RemotePump, DoorOK
<1>2. PICK r : r = doorWire
  OBVIOUS
<1>3. PICK p \in Parser : p = remote
  BY DEF DoorTypes
<1>4. Parsed(p, m, r)
  BY <1>1, <1>2, <1>3, ParseStep
<1>5. PICK c : c = NextByte(r)
  OBVIOUS
<1>6. PICK y : y = AfterByte(r)
  OBVIOUS
<1>7. PICK q : q = Digest(p, c)
  OBVIOUS
<1>8. PICK evs : evs = Events(p, c)
  OBVIOUS
<1>9. /\ c \in Byte /\ y \in Seq(Group)
      /\ y # << >> => evs = << >> /\ Agrees(q, m, y)
      /\ y = << >> => evs = << m >> /\ q.st = "stData"
  BY <1>4, <1>5, <1>6, <1>7, <1>8 DEF Parsed
<1>10. q \in Parser
  BY <1>7, <1>9, DigestType
<1>11. remote' = q /\ doorWire' = y /\ UNCHANGED drawn
  BY <1>2, <1>3, <1>5, <1>6, <1>7 DEF RemotePump
<1>12. remote' \in Parser /\ doorWire' \in Groups /\ drawn' \in Nat \X Nat
  BY <1>9, <1>10, <1>11 DEF DoorTypes, Groups, Group
<1>13. CASE evs = << >>
  <2>1. /\ lastCR' = (lastCR /\ ~RunEnds(p, c))
        /\ UNCHANGED <<toClient, ack, screen, leaked>>
    BY <1>2, <1>3, <1>5, <1>8, <1>13, Zenon DEF RemotePump
  <2>2. y # << >>
    BY <1>9, <1>13
  <2>3. UNCHANGED toClient /\ UNCHANGED ack /\ UNCHANGED screen /\ UNCHANGED leaked
    BY <2>1
  <2>4. lastCR' \in BOOLEAN /\ (lastCR' => lastCR)
    BY <2>1, Zenon DEF RunEnds
  <2>5. DoorTypes'
    BY <1>12, <2>3, <2>4, Zenon DEF DoorTypes
  <2>6. Agrees(q, m, y)
    BY <1>9, <2>2
  <2>7. DoorOK'
    BY <1>1, <1>11, <2>2, <2>3, <2>4, <2>6, Zenon DEF DoorOK, Before
  <2> QED
    BY <2>3, <2>5, <2>7
<1>14. CASE y = << >> /\ evs = << m >> /\ m.Kind = "EvData"
  <2>1. evs # << >> /\ evs[1] = m
    BY <1>14
  <2>2. PumpPayload(m.Data[1])
    BY <2>1, <1>2, <1>3, <1>5, <1>8, <1>14 DEF RemotePump
  <2>3. m = Payload(m.Data[1]) /\ m \in Event
    BY <1>1, <1>14 DEF IsMessage
  <2>4. PICK b : b = m.Data[1]
    OBVIOUS
  <2>5. b \in Byte
    <3>1. m.Data = << b >> /\ m.Data \in Seq(Byte)
      BY <2>3, <2>4 DEF Payload, Event
    <3> QED
      BY <3>1, OneByte
  <2>6. /\ ack' = FALSE
        /\ \/ b = 0 /\ UNCHANGED <<lastCR, screen>>
           \/ screen' = ShownAll(screen, DoorEncode(lastCR, b)) /\ lastCR' = (b = CR)
        /\ UNCHANGED toClient /\ UNCHANGED leaked
    BY <2>2, <2>4 DEF PumpPayload
  <2>7. drawn = Drawn(<<screen.row, screen.col>>, b)
    BY <1>1, <1>14, <2>4 DEF Before
  <2>8. CASE b = 0 /\ UNCHANGED <<lastCR, screen>>
    <3>1. UNCHANGED lastCR /\ UNCHANGED screen
      BY <2>8
    <3>2. drawn = <<screen.row, screen.col>>
      BY <2>7, <2>8 DEF Drawn, LF, CR
    <3>3. DoorTypes'
      BY <1>12, <2>6, <3>1, Zenon DEF DoorTypes
    <3>4. DoorOK'
      BY <1>9, <1>11, <1>14, <3>1, <3>2, Zenon DEF DoorOK
    <3> QED
      BY <2>6, <3>3, <3>4
  <2>9. CASE screen' = ShownAll(screen, DoorEncode(lastCR, b)) /\ lastCR' = (b = CR)
    <3>1. /\ screen' \in Cursor /\ ~screen'.esc
          /\ <<screen'.row, screen'.col>> = drawn
          /\ b = CR => screen'.col = 0
      <4>1. PICK t \in Cursor : t = screen
        BY DEF DoorTypes
      <4>2. PICK l \in BOOLEAN : l = lastCR
        BY Zenon DEF DoorTypes
      <4>3. ~t.esc /\ (l => t.col = 0)
        BY <4>1, <4>2, Zenon DEF DoorOK
      <4>4. LET u == ShownAll(t, DoorEncode(l, b)) IN
              /\ u \in Cursor /\ ~u.esc
              /\ <<u.row, u.col>> = Drawn(<<t.row, t.col>>, b)
              /\ b = CR => u.col = 0
        BY <2>5, <4>3, DoorShows, Zenon
      <4> QED
        BY <2>7, <2>9, <4>1, <4>2, <4>4, Zenon
    <3>2. DoorTypes'
      BY <1>12, <2>6, <2>9, <3>1, Zenon DEF DoorTypes
    <3>3. DoorOK'
      BY <1>9, <1>11, <1>14, <2>9, <3>1, Zenon DEF DoorOK
    <3> QED
      BY <2>6, <3>2, <3>3
  <2> QED
    BY <2>6, <2>8, <2>9
<1>15. CASE y = << >> /\ evs = << m >> /\ m.Kind # "EvData"
  <2>1. evs # << >> /\ evs[1] = m /\ m \in Event
    BY <1>1, <1>15 DEF IsMessage
  <2>2. PumpCommand(m)
    BY <2>1, <1>2, <1>3, <1>5, <1>8, <1>15 DEF RemotePump
  <2>3. UNCHANGED ack /\ UNCHANGED lastCR /\ UNCHANGED screen
    BY <2>2 DEF PumpCommand
  <2>4. PICK n : n = Reply(m)
    OBVIOUS
  <2>5. n \in Seq(Event)
    BY <2>1, <2>4, ReplyType
  <2>6. toClient' = toClient \o n /\ leaked' = leaked \cup {x.Opt : x \in {n[i] : i \in DOMAIN n}}
    BY <2>2, <2>4 DEF PumpCommand
  <2>7. toClient' \in Seq(Event)
    BY <2>5, <2>6, ConcatProperties
  <2>8. leaked' \subseteq Byte
    <3>1. \A i \in DOMAIN n : n[i] \in Event
      BY <2>5, ElementOfSeq, LenProperties
    <3>2. \A i \in DOMAIN n : n[i].Opt \in Byte
      BY <3>1 DEF Event
    <3> QED
      BY <2>6, <3>2
  <2>9. drawn = <<screen.row, screen.col>>
    BY <1>1, <1>15 DEF Before
  <2>10. DoorTypes'
    BY <1>12, <2>3, Zenon DEF DoorTypes
  <2>11. DoorOK'
    BY <1>9, <1>11, <1>15, <2>3, <2>9, Zenon DEF DoorOK
  <2> QED
    BY <2>7, <2>8, <2>10, <2>11
<1> QED
  BY <1>9, <1>13, <1>14, <1>15

-----------------------------------------------------------------------------
(* The window.  The last NAWS on its way carries the size that the client  *)
(* announced last; when none is on its way the policy has that size, and   *)
(* between two chunks so has the session.                                  *)
LastNaws(i) == /\ i \in DOMAIN pending /\ IsNaws(pending[i])
               /\ \A j \in DOMAIN pending : j > i => ~IsNaws(pending[j])

Knows(p, w) == p.Width = Word(w[1], w[2]) /\ p.Height = Word(w[3], w[4])

WindowOK ==
    /\ \A i : LastNaws(i) => pending[i].Data = announced
    /\ (\A i \in DOMAIN pending : ~IsNaws(pending[i])) /\ announced # << >> =>
          Knows(policy, announced)
    /\ phase = "read" =>
          /\ policy.Width > 0 => size[1] = LeastOf(policy.Width, screenWidth)
          /\ policy.Height > 0 => size[2] = LeastOf(policy.Height, screenHeight)
    /\ phase = "read" /\ ~fed => events = << >>

(* What the client says of its window in one step. *)
Told(ms) ==
    /\ \A i \in DOMAIN ms : IsNaws(ms[i]) => ms[i].Data = announced'
    /\ (\A i \in DOMAIN ms : ~IsNaws(ms[i])) => announced' = announced

LEMMA WindowSend ==
    ASSUME WindowOK, pending \in Seq(Event), NEW ms \in Seq(Event),
           pending' = pending \o ms, Told(ms),
           UNCHANGED policy, UNCHANGED size, UNCHANGED phase, UNCHANGED fed, UNCHANGED events
    PROVE  WindowOK'
<1>1. PICK a \in Seq(Event) : a = pending
  OBVIOUS
<1>2. Len(a) \in Nat /\ DOMAIN a = 1 .. Len(a) /\ Len(ms) \in Nat /\ DOMAIN ms = 1 .. Len(ms)
  BY LenProperties
<1>3. /\ a \o ms \in Seq(Event) /\ Len(a \o ms) = Len(a) + Len(ms)
      /\ \A i \in 1 .. Len(a) + Len(ms) : (a \o ms)[i] =
            IF i <= Len(a) THEN a[i] ELSE ms[i - Len(a)]
  BY ConcatProperties
<1>4. PICK b \in Seq(Event) : b = a \o ms
  BY <1>3
<1>5. pending' = b /\ DOMAIN b = 1 .. Len(a) + Len(ms)
  BY <1>1, <1>3, <1>4, LenProperties
<1>6. \A i \in DOMAIN a : i \in DOMAIN b /\ b[i] = a[i]
  BY <1>2, <1>3, <1>4, <1>5
<1>7. \A i \in DOMAIN ms : Len(a) + i \in DOMAIN b /\ b[Len(a) + i] = ms[i]
  <2> TAKE i \in DOMAIN ms
  <2>1. Len(a) + i \in 1 .. Len(a) + Len(ms) /\ ~(Len(a) + i <= Len(a)) /\ Len(a) + i - Len(a) = i
    BY <1>2
  <2> QED
    BY <2>1, <1>3, <1>4, <1>5
<1>8. \A i \in DOMAIN b : i \in DOMAIN a \/ (i - Len(a) \in DOMAIN ms /\ Len(a) + (i - Len(a)) = i)
  BY <1>2, <1>5
<1>9. ASSUME NEW i \in DOMAIN b, IsNaws(b[i]),
             \A j \in DOMAIN b : j > i => ~IsNaws(b[j])
      PROVE  b[i].Data = announced'
  <2>1. CASE i \in DOMAIN a
    <3>1. ASSUME NEW k \in DOMAIN ms
          PROVE  ~IsNaws(ms[k])
      <4>1. Len(a) + k > i
        BY <2>1, <1>2
      <4> QED
        BY <4>1, <1>7, <1>9
    <3>2. announced' = announced
      BY <3>1 DEF Told
    <3>3. IsNaws(a[i]) /\ \A j \in DOMAIN a : j > i => ~IsNaws(a[j])
      BY <2>1, <1>6, <1>9
    <3>4. a[i].Data = announced
      BY <2>1, <3>3, <1>1 DEF WindowOK, LastNaws
    <3> QED
      BY <2>1, <3>2, <3>4, <1>6
  <2>2. CASE i - Len(a) \in DOMAIN ms /\ Len(a) + (i - Len(a)) = i
    BY <2>2, <1>7, <1>9 DEF Told
  <2> QED
    BY <2>1, <2>2, <1>8
<1>10. ASSUME \A i \in DOMAIN b : ~IsNaws(b[i]), announced' # << >>
       PROVE  Knows(policy, announced')
  <2>1. \A i \in DOMAIN ms : ~IsNaws(ms[i])
    BY <1>7, <1>10
  <2>2. announced' = announced
    BY <2>1 DEF Told
  <2>3. \A i \in DOMAIN a : ~IsNaws(a[i])
    BY <1>6, <1>10
  <2> QED
    BY <2>2, <2>3, <1>1, <1>10 DEF WindowOK
<1> QED
  BY <1>5, <1>9, <1>10 DEF WindowOK, LastNaws

(* What Handle learns from the message that it takes. *)
LEMMA WindowHandle ==
    ASSUME WindowOK, phase = "handle", UNCHANGED phase, UNCHANGED announced,
           pending \in Seq(Event), pending # << >>, pending' = Tail(pending),
           policy \in Policy, policy' = Learn(policy, pending[1]),
           announced \in Windows \cup {<< >>}
    PROVE  WindowOK'
<1>1. PICK a \in Seq(Event) : a = pending /\ a # << >>
  OBVIOUS
<1>2. Len(a) \in Nat \ {0} /\ DOMAIN a = 1 .. Len(a)
  BY <1>1, EmptySeq, LenProperties
<1>3. /\ Tail(a) \in Seq(Event) /\ Len(Tail(a)) = Len(a) - 1
      /\ \A i \in 1 .. Len(a) - 1 : Tail(a)[i] = a[i + 1]
  BY <1>1, HeadTailProperties
<1>4. PICK b \in Seq(Event) : b = Tail(a)
  BY <1>3
<1>5. pending' = b /\ DOMAIN b = 1 .. Len(a) - 1
  BY <1>1, <1>3, <1>4, LenProperties
<1>6. \A i \in DOMAIN b : i + 1 \in DOMAIN a /\ b[i] = a[i + 1]
  BY <1>2, <1>3, <1>4, <1>5
<1>7. \A j \in DOMAIN a : j = 1 \/ (j - 1 \in DOMAIN b /\ (j - 1) + 1 = j)
  BY <1>2, <1>5
<1>8. ASSUME NEW i \in DOMAIN b, IsNaws(b[i]),
             \A j \in DOMAIN b : j > i => ~IsNaws(b[j])
      PROVE  b[i].Data = announced
  <2>1. ASSUME NEW j \in DOMAIN a, j > i + 1
        PROVE  ~IsNaws(a[j])
    <3>1. j - 1 \in DOMAIN b /\ (j - 1) + 1 = j /\ j - 1 > i
      BY <2>1, <1>2, <1>5
    <3> QED
      BY <3>1, <1>6, <1>8
  <2>2. LastNaws(i + 1)
    BY <2>1, <1>1, <1>6, <1>8 DEF LastNaws
  <2> QED
    BY <2>2, <1>1, <1>6 DEF WindowOK
<1>9. ASSUME \A i \in DOMAIN b : ~IsNaws(b[i]), announced # << >>
      PROVE  Knows(policy', announced)
  <2>1. ASSUME NEW j \in DOMAIN a, j > 1
        PROVE  ~IsNaws(a[j])
    <3>1. j - 1 \in DOMAIN b /\ (j - 1) + 1 = j
      BY <2>1, <1>2, <1>5
    <3> QED
      BY <3>1, <1>6, <1>9
  <2>2. 1 \in DOMAIN a
    BY <1>2
  <2>3. PICK m \in Event : m = a[1]
    BY <2>2, <1>2, ElementOfSeq
  <2>4. PICK w \in Windows : w = announced
    BY <1>9
  <2>5. policy' = Learn(policy, m)
    BY <2>3, <1>1
  <2>6. CASE IsNaws(m)
    <3>1. LastNaws(1)
      BY <2>1, <2>2, <2>3, <2>6, <1>1 DEF LastNaws
    <3>2. m.Data = w
      BY <3>1, <2>3, <2>4, <1>1 DEF WindowOK
    <3>3. Len(m.Data) >= 4
      BY <3>2, WindowType
    <3>4. policy' = [policy EXCEPT !.Width = Word(w[1], w[2]), !.Height = Word(w[3], w[4])]
      BY <2>5, <2>6, <3>2, <3>3 DEF IsNaws, Learn
    <3> QED
      BY <2>4, <3>4 DEF Knows, Policy
  <2>7. CASE ~IsNaws(m)
    <3>1. \A j \in DOMAIN a : ~IsNaws(a[j])
      BY <2>1, <2>3, <2>7, <1>7, <1>2
    <3>2. Knows(policy, w)
      BY <3>1, <2>4, <1>1, <1>9 DEF WindowOK
    <3>3. policy'.Width = policy.Width /\ policy'.Height = policy.Height
      BY <2>5, <2>7 DEF IsNaws, Learn, Policy
    <3> QED
      BY <2>4, <3>2, <3>3 DEF Knows
  <2> QED
    BY <2>6, <2>7
<1> QED
  BY <1>5, <1>8, <1>9 DEF WindowOK, LastNaws

(* applyDims brings the session's size to the policy's. *)
LEMMA AppliedSize ==
    ASSUME NEW told \in Nat, NEW current \in Nat, NEW limit \in Nat, current <= limit
    PROVE  /\ Applied(told, current, limit) \in 0 .. limit
           /\ told > 0 => Applied(told, current, limit) = LeastOf(told, limit)
BY DEF Applied, LeastOf

LEMMA WindowApply ==
    ASSUME WindowOK, applyDims, policy \in Policy,
           size \in (0 .. screenWidth) \X (0 .. screenHeight)
    PROVE  WindowOK' /\ size' \in (0 .. screenWidth) \X (0 .. screenHeight)
<1>1. PICK w \in 0 .. screenWidth, h \in 0 .. screenHeight : size = <<w, h>>
  OBVIOUS
<1>2. policy.Width \in Nat /\ policy.Height \in Nat
  BY DEF Policy
<1>3. screenWidth \in Nat /\ screenHeight \in Nat /\ w \in Nat /\ h \in Nat
      /\ w <= screenWidth /\ h <= screenHeight
  BY DEF screenWidth, screenHeight
<1>4. PICK W : W = Applied(policy.Width, w, screenWidth)
  OBVIOUS
<1>5. PICK H : H = Applied(policy.Height, h, screenHeight)
  OBVIOUS
<1>6. /\ W \in 0 .. screenWidth /\ H \in 0 .. screenHeight
      /\ policy.Width > 0 => W = LeastOf(policy.Width, screenWidth)
      /\ policy.Height > 0 => H = LeastOf(policy.Height, screenHeight)
  BY <1>2, <1>3, <1>4, <1>5, AppliedSize
<1>7. size' = <<W, H>> /\ UNCHANGED pending /\ UNCHANGED announced /\ UNCHANGED policy
      /\ events' = << >>
  BY <1>1, <1>4, <1>5 DEF applyDims, clientVars
<1>8. size'[1] = W /\ size'[2] = H
  BY <1>7
<1> QED
  BY <1>6, <1>7, <1>8 DEF WindowOK, LastNaws

-----------------------------------------------------------------------------
(* What the client sends when it hears a message. *)

Fit(ms) ==
    /\ ClientMessages(ms)
    /\ \A i \in DOMAIN ms : IsNaws(ms[i]) => ms[i] = Subneg(OptNAWS, window)

LEMMA FitNone == Fit(<< >>)
BY DEF Fit, ClientMessages

LEMMA FitOne ==
    ASSUME NEW m, IsMessage(m), IsNaws(m) => m = Subneg(OptNAWS, window)
    PROVE  Fit(<< m >>)
<1>1. m \in Event
  BY DEF IsMessage
<1>2. << m >> \in Seq(Event) /\ DOMAIN << m >> = {1} /\ << m >>[1] = m
  BY <1>1
<1>3. PICK ms : ms = << m >>
  OBVIOUS
<1>4. Fit(ms)
  BY <1>2, <1>3 DEF Fit, ClientMessages
<1> QED
  BY <1>3, <1>4

LEMMA FitTwo ==
    ASSUME NEW m, IsMessage(m), IsNaws(m) => m = Subneg(OptNAWS, window),
           NEW n, IsMessage(n), IsNaws(n) => n = Subneg(OptNAWS, window)
    PROVE  Fit(<< m >> \o << n >>)
<1>1. m \in Event /\ n \in Event
  BY DEF IsMessage
<1>2. /\ << m >> \in Seq(Event) /\ Len(<< m >>) = 1 /\ << m >>[1] = m
      /\ << n >> \in Seq(Event) /\ Len(<< n >>) = 1 /\ << n >>[1] = n
  BY <1>1
<1>3. PICK a \in Seq(Event), b \in Seq(Event) :
        /\ a = << m >> /\ Len(a) = 1 /\ a[1] = m
        /\ b = << n >> /\ Len(b) = 1 /\ b[1] = n
  BY <1>2
<1>4. /\ a \o b \in Seq(Event) /\ Len(a \o b) = Len(a) + Len(b)
      /\ \A i \in 1 .. Len(a) + Len(b) : (a \o b)[i] =
            IF i <= Len(a) THEN a[i] ELSE b[i - Len(a)]
  BY ConcatProperties
<1>5. PICK ms \in Seq(Event) : ms = a \o b
  BY <1>4
<1>6. DOMAIN ms = {1, 2} /\ ms[1] = m /\ ms[2] = n
  BY <1>3, <1>4, <1>5, LenProperties
<1>7. Fit(ms)
  BY <1>6 DEF Fit, ClientMessages
<1> QED
  BY <1>3, <1>5, <1>7

LEMMA CmdFits ==
    ASSUME NEW c \in Commands, NEW o \in Byte
    PROVE  IsMessage(Cmd(c, o)) /\ ~IsNaws(Cmd(c, o)) /\ Fit(<< Cmd(c, o) >>)
<1>1. IsMessage(Cmd(c, o))
  BY CmdType
<1>2. kindForCmd(c) # "EvSubneg"
  BY DEF kindForCmd
<1>3. ~IsNaws(Cmd(c, o))
  BY <1>2 DEF IsNaws, Cmd
<1> QED
  BY <1>1, <1>3, FitOne

(* The client's answers leave a stream that still fits. *)
LEMMA AnswerTold ==
    ASSUME NEW ms, Fit(ms), Announce(ms), window \in Windows,
           announced \in Windows \cup {<< >>}
    PROVE  Told(ms) /\ announced' \in Windows \cup {<< >>}
<1>1. Subneg(OptNAWS, window).Data = window /\ IsNaws(Subneg(OptNAWS, window))
  BY DEF Subneg, IsNaws
<1>2. ASSUME NEW i \in DOMAIN ms, IsNaws(ms[i])
      PROVE  ms[i].Data = announced'
  <2>1. ms[i] = Subneg(OptNAWS, window)
    BY <1>2 DEF Fit
  <2>2. announced' = window
    BY <2>1 DEF Announce
  <2> QED
    BY <2>1, <2>2, <1>1
<1>3. ASSUME \A i \in DOMAIN ms : ~IsNaws(ms[i])
      PROVE  announced' = announced
  BY <1>1, <1>3 DEF Announce
<1> QED
  BY <1>2, <1>3 DEF Told, Announce

HearTypes ==
    /\ client \in Clients /\ window \in Windows
    /\ us \in [Options -> Answers] /\ him \in [Options -> Answers]

LEMMA HearSends ==
    ASSUME HearTypes, Hear
    PROVE  /\ \E ms : Fit(ms) /\ Answer(ms)
           /\ us' \in [Options -> Answers] /\ him' \in [Options -> Answers]
<1>1. {DO, DONT, WILL, WONT} \subseteq Commands /\ "no" \in Answers /\ "yes" \in Answers
  BY DEF Commands, Answers
<1>2. \A o \in Options, x \in Answers :
        /\ [us EXCEPT ![o] = x] \in [Options -> Answers]
        /\ [him EXCEPT ![o] = x] \in [Options -> Answers]
  BY DEF HearTypes
<1>3. Fit(<< >>)
  BY FitNone
<1>4. ASSUME NEW o \in Options
      PROVE  /\ Fit(<< Cmd(DO, o) >>) /\ Fit(<< Cmd(DONT, o) >>)
             /\ Fit(<< Cmd(WILL, o) >>) /\ Fit(<< Cmd(WONT, o) >>)
  BY <1>1, OptionType, CmdFits
<1>5. IsMessage(Subneg(OptNAWS, window))
  BY WindowType DEF HearTypes
<1>6. Fit(<< Subneg(OptNAWS, window) >>)
  BY <1>5, FitOne
<1>7. \A o : Fit(Opening(o))
  BY <1>3, <1>6 DEF Opening
<1>8. ASSUME NEW o \in Options
      PROVE  Fit(<< Cmd(WILL, o) >> \o Opening(o))
  <2>1. IsMessage(Cmd(WILL, o)) /\ ~IsNaws(Cmd(WILL, o))
    BY <1>1, OptionType, CmdFits
  <2>2. << Cmd(WILL, o) >> \o << >> = << Cmd(WILL, o) >>
    OBVIOUS
  <2>3. Fit(<< Cmd(WILL, o) >> \o << Subneg(OptNAWS, window) >>)
    BY <2>1, <1>5, FitTwo
  <2> QED
    BY <2>2, <2>3, <1>4 DEF Opening
<1>9. ASSUME NEW o \in Options, HearDo(o)
      PROVE  /\ \E ms : Fit(ms) /\ Answer(ms)
             /\ us' \in [Options -> Answers] /\ him' \in [Options -> Answers]
  <2>1. him' \in [Options -> Answers]
    BY <1>9 DEF HearDo, HearTypes
  <2>2. us' \in [Options -> Answers]
    BY <1>1, <1>2, <1>9 DEF HearDo, HearTypes
  <2>3. \/ Answer(<< Cmd(WILL, o) >> \o Opening(o)) \/ Answer(<< Cmd(WONT, o) >>)
        \/ Answer(Opening(o)) \/ Answer(<< >>)
    BY <1>9 DEF HearDo
  <2> QED
    BY <2>1, <2>2, <2>3, <1>3, <1>4, <1>7, <1>8
<1>10. ASSUME NEW o \in Options, HearDont(o)
       PROVE  /\ \E ms : Fit(ms) /\ Answer(ms)
              /\ us' \in [Options -> Answers] /\ him' \in [Options -> Answers]
  <2>1. Answer(<< Cmd(WONT, o) >>) \/ Answer(<< >>)
    BY <1>10 DEF HearDont
  <2>2. us' \in [Options -> Answers] /\ him' \in [Options -> Answers]
    BY <1>1, <1>2, <1>10 DEF HearDont, HearTypes
  <2> QED
    BY <2>1, <2>2, <1>3, <1>4
<1>11. ASSUME NEW o \in Options, HearWill(o)
       PROVE  /\ \E ms : Fit(ms) /\ Answer(ms)
              /\ us' \in [Options -> Answers] /\ him' \in [Options -> Answers]
  <2>1. Answer(<< Cmd(DO, o) >>) \/ Answer(<< Cmd(DONT, o) >>) \/ Answer(<< >>)
    BY <1>11 DEF HearWill
  <2>2. us' \in [Options -> Answers] /\ him' \in [Options -> Answers]
    BY <1>1, <1>2, <1>11 DEF HearWill, HearTypes
  <2> QED
    BY <2>1, <2>2, <1>3, <1>4
<1>12. ASSUME NEW o \in Options, HearWont(o)
       PROVE  /\ \E ms : Fit(ms) /\ Answer(ms)
              /\ us' \in [Options -> Answers] /\ him' \in [Options -> Answers]
  <2>1. Answer(<< Cmd(DONT, o) >>) \/ Answer(<< >>)
    BY <1>12 DEF HearWont
  <2>2. us' \in [Options -> Answers] /\ him' \in [Options -> Answers]
    BY <1>1, <1>2, <1>12 DEF HearWont, HearTypes
  <2> QED
    BY <2>1, <2>2, <1>3, <1>4
<1>13. ASSUME HearSubneg
       PROVE  /\ \E ms : Fit(ms) /\ Answer(ms)
              /\ us' \in [Options -> Answers] /\ him' \in [Options -> Answers]
  <2>1. PICK d : d = << TTYPEIS >> \o TermName
    OBVIOUS
  <2>2. d \in Seq(Byte)
    <3>1. << TTYPEIS >> \in Seq(Byte) /\ TermName \in Seq(Byte)
      BY TelnetAssumption DEF TTYPEIS, Byte
    <3>2. PICK s \in Seq(Byte) : s = << TTYPEIS >>
      BY <3>1
    <3> QED
      BY <2>1, <3>1, <3>2, ConcatProperties
  <2>3. OptTTYPE \in Byte \ {0} /\ OptTTYPE # OptNAWS
    BY DEF OptTTYPE, OptNAWS, Byte
  <2>4. IsMessage(Subneg(OptTTYPE, d)) /\ ~IsNaws(Subneg(OptTTYPE, d))
    BY <2>2, <2>3, SubnegType DEF Subneg, IsNaws
  <2>5. Fit(<< Subneg(OptTTYPE, d) >>)
    BY <2>4, FitOne
  <2>6. Answer(<< Subneg(OptTTYPE, d) >>) \/ Answer(<< >>)
    BY <2>1, <1>13 DEF HearSubneg
  <2>7. UNCHANGED us /\ UNCHANGED him
    BY <1>13 DEF HearSubneg
  <2> QED
    BY <2>5, <2>6, <2>7, <1>3 DEF HearTypes
<1>14. ASSUME HearOther
       PROVE  /\ \E ms : Fit(ms) /\ Answer(ms)
              /\ us' \in [Options -> Answers] /\ him' \in [Options -> Answers]
  BY <1>3, <1>14 DEF HearOther, HearTypes
<1> QED
  BY <1>9, <1>10, <1>11, <1>12, <1>13, <1>14 DEF Hear

-----------------------------------------------------------------------------
(* The inductive invariant.  TypeOK, in parts. *)

RestTypes ==
    /\ announced \in Windows \cup {<< >>}
    /\ moves \in Nat /\ doorMoves \in Nat
    /\ toClient \in Seq(Event) /\ leaked \subseteq Byte
    /\ phase \in {"read", "handle"} /\ fed \in BOOLEAN
    /\ policy \in Policy /\ size \in (0 .. screenWidth) \X (0 .. screenHeight)

LEMMA TypeParts == TypeOK <=> HearTypes /\ StreamTypes /\ DoorTypes /\ RestTypes
BY Zenon DEF TypeOK, HearTypes, StreamTypes, DoorTypes, RestTypes, Seg

IInv == /\ HearTypes /\ StreamTypes /\ DoorTypes /\ RestTypes
        /\ StreamOK /\ MessagesIntact /\ DoorOK /\ WindowOK

LEMMA InitWindow ==
    ASSUME pending \in Seq(Event), \A i \in DOMAIN pending : ~IsNaws(pending[i]),
           announced = << >>, policy = NewPolicy, phase = "read", events = << >>
    PROVE  WindowOK
BY DEF WindowOK, LastNaws, NewPolicy

LEMMA InitIInv == Init => IInv
<1> SUFFICES ASSUME Init PROVE IInv
  OBVIOUS
<1>1. client \in Clients /\ client \in Client /\ client.asks \in Seq(Event)
      /\ client.us \in SUBSET Options /\ client.him \in SUBSET Options
  BY TelnetAssumption DEF Init, Client
<1>2. PICK ms \in Seq(Event) : ms = client.asks
  BY <1>1
<1>3. \A i \in DOMAIN ms : IsMessage(ms[i]) /\ ~IsNaws(ms[i])
  <2> TAKE i \in DOMAIN ms
  <2>1. ms[i] \in {Cmd(WILL, o) : o \in client.us} \cup {Cmd(DO, o) : o \in client.him}
    BY <1>1, <1>2, TelnetAssumption
  <2>2. PICK c \in Commands, o \in Options : ms[i] = Cmd(c, o)
    BY <2>1, <1>1 DEF Commands
  <2>3. o \in Byte
    BY <2>2, OptionType
  <2> QED
    BY <2>2, <2>3, CmdFits
<1>4. ClientMessages(ms)
  BY <1>3 DEF ClientMessages
<1>. << >> \in Seq(Seg)
  OBVIOUS
<1>5. PICK none \in Seq(Seg) : none = << >>
  OBVIOUS
<1>6. PICK v : v = none \o [i \in DOMAIN ms |-> Segment(ms[i])]
  OBVIOUS
<1>7. /\ v \in Seq(Seg) /\ Len(v) = Len(ms) /\ Len(ms) \in Nat
      /\ DOMAIN v = 1 .. Len(ms) /\ DOMAIN ms = 1 .. Len(ms)
      /\ \A i \in 1 .. Len(ms) : v[i] = Segment(ms[i])
  <2>1. Len(none) = 0 /\ Len(ms) \in Nat /\ DOMAIN ms = 1 .. Len(ms)
    BY <1>5, LenProperties
  <2>2. /\ v \in Seq(Seg) /\ Len(v) = Len(none) + Len(ms)
        /\ \A i \in 1 .. Len(ms) : v[Len(none) + i] = Segment(ms[i])
    BY <1>4, <1>6, SentWire
  <2>3. \A i \in 1 .. Len(ms) : Len(none) + i = i
    BY <2>1
  <2> QED
    BY <2>1, <2>2, <2>3, LenProperties
<1>8. wire = v
  <2>1. v = [i \in 1 .. Len(ms) |-> Segment(ms[i])]
    BY <1>7
  <2> QED
    BY <2>1, <1>2, <1>7 DEF Init
<1>9. HearTypes
  BY <1>1 DEF Init, HearTypes, Answers
<1>10. NewParser \in Parser /\ NewParser.st = "stData"
  BY DEF NewParser, Parser, Byte
<1>11. StreamTypes
  BY <1>1, <1>7, <1>8, <1>10 DEF Init, StreamTypes
<1>12. StreamOK
  <2>1. \A i \in DOMAIN wire : wire[i].msg = ms[i] /\ wire[i].rest = Encoded(wire[i].msg)
    BY <1>7, <1>8 DEF Segment
  <2>2. wire # << >> => 1 \in DOMAIN wire
    BY <1>7, <1>8, EmptySeq
  <2>3. wire # << >> => Agrees(parser, wire[1].msg, wire[1].rest)
    BY <2>1, <2>2, <1>10 DEF Agrees, Init
  <2>4. \A i \in DOMAIN wire : IsMessage(wire[i].msg)
    BY <2>1, <1>3, <1>7, <1>8
  <2> QED
    BY <2>1, <2>3, <2>4, <1>10 DEF StreamOK, Init
<1>13. MessagesIntact
  <2>1. Msgs(v) = Msgs(none) \o ms
    BY <1>4, <1>6, SentMsgs
  <2>2. Msgs(none) = << >>
    BY <1>5, MsgsType, EmptySeq
  <2>3. << >> \o ms = ms
    BY ConcatEmptySeq
  <2>4. Msgs(v) = ms
    BY <2>1, <2>2, <2>3
  <2>5. pending = ms /\ events = << >>
    BY <1>2 DEF Init
  <2>6. events \o Msgs(v) = ms
    BY <2>3, <2>4, <2>5
  <2> QED
    BY <2>5, <2>6, <1>8 DEF MessagesIntact, Msgs
<1>14. DoorTypes
  <2>1. NoCursor \in Cursor /\ << >> \in Groups /\ <<0, 0>> \in Nat \X Nat
    BY DEF NoCursor, Cursor, Groups
  <2> QED
    BY <2>1, <1>10 DEF Init, DoorTypes
<1>15. DoorOK
  BY <1>10 DEF Init, DoorOK, NoCursor
<1>16. RestTypes
  <2>1. client.moves \in Nat /\ client.door \in Nat
    BY <1>1 DEF Client
  <2>2. NewPolicy \in Policy
    BY DEF NewPolicy, Policy
  <2>3. <<screenWidth, screenHeight>> \in (0 .. screenWidth) \X (0 .. screenHeight)
    BY DEF screenWidth, screenHeight
  <2> QED
    BY <2>1, <2>2, <2>3, PreambleType DEF Init, RestTypes
<1>17. WindowOK
  BY <1>2, <1>3, InitWindow DEF Init
<1> QED
  BY <1>9, <1>11, <1>12, <1>13, <1>14, <1>15, <1>16, <1>17 DEF IInv

(* A step in which the client sends ms. *)
LEMMA SendStep ==
    ASSUME IInv, NEW ms, ClientMessages(ms), Send(ms), Told(ms),
           UNCHANGED parser, UNCHANGED events, UNCHANGED policy, UNCHANGED size,
           UNCHANGED phase, UNCHANGED fed
    PROVE  StreamTypes' /\ StreamOK' /\ MessagesIntact' /\ WindowOK'
<1>1. StreamTypes' /\ StreamOK' /\ MessagesIntact'
  BY StreamSend DEF IInv
<1>2. WindowOK'
  BY WindowSend DEF IInv, StreamTypes, Send, ClientMessages
<1> QED
  BY <1>1, <1>2

(* The door's part in a step of the others, and theirs in a step of it. *)
LEMMA DoorStays ==
    ASSUME DoorTypes, DoorOK, UNCHANGED doorVars
    PROVE  DoorTypes' /\ DoorOK' /\ UNCHANGED doorMoves /\ UNCHANGED leaked
<1>1. /\ UNCHANGED doorWire /\ UNCHANGED remote /\ UNCHANGED ack /\ UNCHANGED lastCR
      /\ UNCHANGED screen /\ UNCHANGED drawn /\ UNCHANGED doorMoves /\ UNCHANGED leaked
  BY DEF doorVars
<1>2. DoorTypes'
  BY <1>1, Zenon DEF DoorTypes
<1>3. DoorOK'
  BY <1>1, Zenon DEF DoorOK, Before
<1> QED
  BY <1>1, <1>2, <1>3

LEMMA StreamStays ==
    ASSUME StreamTypes, StreamOK, MessagesIntact,
           UNCHANGED wire, UNCHANGED pending, UNCHANGED parser, UNCHANGED events
    PROVE  StreamTypes' /\ StreamOK' /\ MessagesIntact'
BY Zenon DEF StreamTypes, StreamOK, MessagesIntact

LEMMA WindowStays ==
    ASSUME WindowOK, UNCHANGED pending, UNCHANGED announced, UNCHANGED policy,
           UNCHANGED size, UNCHANGED phase, UNCHANGED fed, UNCHANGED events
    PROVE  WindowOK'
BY Zenon DEF WindowOK, LastNaws

LEMMA Unchanged ==
    /\ clientVars' = clientVars =>
          /\ UNCHANGED client /\ UNCHANGED us /\ UNCHANGED him /\ UNCHANGED window
          /\ UNCHANGED announced /\ UNCHANGED moves
    /\ readVars' = readVars =>
          /\ UNCHANGED phase /\ UNCHANGED fed /\ UNCHANGED parser /\ UNCHANGED events
          /\ UNCHANGED policy /\ UNCHANGED size
BY DEF clientVars, readVars

(* Every step keeps the invariant; one step of the proof per action. *)
LEMMA NextIInv == IInv /\ [Next]_vars => IInv'
<1> SUFFICES ASSUME IInv, [Next]_vars PROVE IInv'
  OBVIOUS
<1>1. CASE Hear
  <2>1. PICK ms : Fit(ms) /\ Answer(ms)
    BY <1>1, HearSends DEF IInv
  <2>2. us' \in [Options -> Answers] /\ him' \in [Options -> Answers]
    BY <1>1, HearSends DEF IInv
  <2>3. /\ toClient # << >> /\ toClient' = Tail(toClient)
        /\ UNCHANGED client /\ UNCHANGED window /\ UNCHANGED moves
        /\ readVars' = readVars /\ doorVars' = doorVars
    BY <1>1 DEF Hear
  <2>4. ClientMessages(ms) /\ Send(ms) /\ Announce(ms)
    BY <2>1 DEF Fit, Answer
  <2>5. Told(ms) /\ announced' \in Windows \cup {<< >>}
    BY <2>1, <2>4, AnswerTold DEF IInv, HearTypes, RestTypes
  <2>6. StreamTypes' /\ StreamOK' /\ MessagesIntact' /\ WindowOK'
    BY <2>3, <2>4, <2>5, SendStep, Unchanged
  <2>7. DoorTypes' /\ DoorOK' /\ UNCHANGED doorMoves /\ UNCHANGED leaked
    BY <2>3, DoorStays DEF IInv
  <2>8. toClient' \in Seq(Event)
    BY <2>3, HeadTailProperties DEF IInv, RestTypes
  <2>9. HearTypes'
    BY <2>2, <2>3 DEF IInv, HearTypes
  <2>10. RestTypes'
    BY <2>3, <2>5, <2>7, <2>8, Unchanged, Zenon DEF IInv, RestTypes
  <2> QED
    BY <2>6, <2>7, <2>9, <2>10 DEF IInv
<1>2. ASSUME NEW b \in Keys, Type(b)
      PROVE  IInv'
  <2>1. /\ moves > 0 /\ moves' = moves - 1 /\ Send(<< Payload(b) >>)
        /\ UNCHANGED client /\ UNCHANGED us /\ UNCHANGED him /\ UNCHANGED window
        /\ UNCHANGED announced /\ UNCHANGED toClient
        /\ readVars' = readVars /\ doorVars' = doorVars
    BY <1>2 DEF Type
  <2>2. b \in Byte
    BY TelnetAssumption
  <2>3. IsMessage(Payload(b)) /\ ~IsNaws(Payload(b))
    BY <2>2, PayloadType DEF Payload, IsNaws
  <2>4. PICK ms : ms = << Payload(b) >>
    OBVIOUS
  <2>5. Fit(ms)
    BY <2>3, <2>4, FitOne
  <2>6. ClientMessages(ms) /\ \A i \in DOMAIN ms : ~IsNaws(ms[i])
    <3>1. DOMAIN ms = {1} /\ ms[1] = Payload(b)
      BY <2>4
    <3> QED
      BY <3>1, <2>3, <2>5 DEF Fit
  <2>7. Told(ms)
    BY <2>1, <2>6 DEF Told
  <2>8. StreamTypes' /\ StreamOK' /\ MessagesIntact' /\ WindowOK'
    BY <2>1, <2>4, <2>6, <2>7, SendStep, Unchanged
  <2>9. DoorTypes' /\ DoorOK' /\ UNCHANGED doorMoves /\ UNCHANGED leaked
    BY <2>1, DoorStays DEF IInv
  <2>10. HearTypes'
    BY <2>1 DEF IInv, HearTypes
  <2>11. moves' \in Nat
    BY <2>1 DEF IInv, RestTypes
  <2>12. RestTypes'
    BY <2>1, <2>9, <2>11, Unchanged, Zenon DEF IInv, RestTypes
  <2> QED
    BY <2>8, <2>9, <2>10, <2>12 DEF IInv
<1>3. ASSUME NEW w \in Windows, Resize(w)
      PROVE  IInv'
  <2>1. /\ moves > 0 /\ moves' = moves - 1 /\ window' = w
        /\ UNCHANGED client /\ UNCHANGED us /\ UNCHANGED him /\ UNCHANGED toClient
        /\ readVars' = readVars /\ doorVars' = doorVars
        /\ \/ Send(<< Subneg(OptNAWS, w) >>) /\ announced' = w
           \/ NoSend /\ UNCHANGED announced
    BY <1>3 DEF Resize
  <2>2. DoorTypes' /\ DoorOK' /\ UNCHANGED doorMoves /\ UNCHANGED leaked
    BY <2>1, DoorStays DEF IInv
  <2>3. HearTypes'
    BY <2>1 DEF IInv, HearTypes
  <2>4. moves' \in Nat /\ announced' \in Windows \cup {<< >>}
    BY <2>1 DEF IInv, RestTypes
  <2>5. RestTypes'
    BY <2>1, <2>2, <2>4, Unchanged, Zenon DEF IInv, RestTypes
  <2>6. CASE Send(<< Subneg(OptNAWS, w) >>) /\ announced' = w
    <3>1. PICK m : m = Subneg(OptNAWS, w)
      OBVIOUS
    <3>2. m \in Event /\ IsMessage(m) /\ IsNaws(m) /\ m.Data = w
      BY <3>1, WindowType DEF Subneg, IsNaws
    <3>3. << m >> \in Seq(Event) /\ DOMAIN << m >> = {1} /\ << m >>[1] = m
      BY <3>2
    <3>4. PICK ms : ms = << m >>
      OBVIOUS
    <3>5. ClientMessages(ms) /\ Told(ms)
      BY <3>2, <3>3, <3>4, <2>6 DEF ClientMessages, Told
    <3>6. StreamTypes' /\ StreamOK' /\ MessagesIntact' /\ WindowOK'
      BY <3>1, <3>4, <3>5, <2>1, <2>6, SendStep, Unchanged
    <3> QED
      BY <3>6, <2>2, <2>3, <2>5 DEF IInv
  <2>7. CASE NoSend /\ UNCHANGED announced
    <3>1. StreamTypes' /\ StreamOK' /\ MessagesIntact' /\ WindowOK'
      BY <2>1, <2>7, StreamStays, WindowStays, Unchanged DEF IInv, NoSend
    <3> QED
      BY <3>1, <2>2, <2>3, <2>5 DEF IInv
  <2> QED
    BY <2>1, <2>6, <2>7
<1>4. CASE DigestByte
  <2>1. PICK c : c = NextByte(wire[1].rest)
    OBVIOUS
  <2>2. /\ phase = "read" /\ wire # << >> /\ fed' = TRUE
        /\ parser' = Digest(parser, c) /\ events' = events \o Events(parser, c)
        /\ wire' = Advance(wire)
        /\ clientVars' = clientVars /\ UNCHANGED toClient /\ UNCHANGED pending
        /\ UNCHANGED phase /\ UNCHANGED policy /\ UNCHANGED size /\ doorVars' = doorVars
    BY <1>4, <2>1 DEF DigestByte
  <2>3. StreamTypes' /\ StreamOK' /\ MessagesIntact'
    BY <2>1, <2>2, StreamDigest DEF IInv
  <2>4. DoorTypes' /\ DoorOK' /\ UNCHANGED doorMoves /\ UNCHANGED leaked
    BY <2>2, DoorStays DEF IInv
  <2>5. HearTypes'
    BY <2>2, Unchanged DEF IInv, HearTypes
  <2>6. RestTypes'
    BY <2>2, <2>4, Unchanged, Zenon DEF IInv, RestTypes
  <2>7. WindowOK'
    BY <2>2, Unchanged DEF IInv, WindowOK, LastNaws
  <2> QED
    BY <2>3, <2>4, <2>5, <2>6, <2>7 DEF IInv
<1>5. CASE EndChunk
  <2>1. /\ phase' = "handle" /\ fed' = FALSE
        /\ clientVars' = clientVars /\ UNCHANGED toClient /\ UNCHANGED wire
        /\ UNCHANGED pending /\ UNCHANGED parser /\ UNCHANGED events
        /\ UNCHANGED policy /\ UNCHANGED size /\ doorVars' = doorVars
    BY <1>5 DEF EndChunk
  <2>2. StreamTypes' /\ StreamOK' /\ MessagesIntact'
    BY <2>1, StreamStays DEF IInv
  <2>3. DoorTypes' /\ DoorOK' /\ UNCHANGED doorMoves /\ UNCHANGED leaked
    BY <2>1, DoorStays DEF IInv
  <2>4. HearTypes'
    BY <2>1, Unchanged DEF IInv, HearTypes
  <2>5. RestTypes'
    BY <2>1, <2>3, Unchanged, Zenon DEF IInv, RestTypes
  <2>6. WindowOK'
    BY <2>1, Unchanged DEF IInv, WindowOK, LastNaws
  <2> QED
    BY <2>2, <2>3, <2>4, <2>5, <2>6 DEF IInv
<1>6. CASE HandleEvent
  <2>1. /\ phase = "handle" /\ events # << >>
        /\ policy' = Learn(policy, events[1]) /\ toClient' = toClient \o Reply(events[1])
        /\ events' = Tail(events) /\ pending' = Tail(pending)
        /\ clientVars' = clientVars /\ UNCHANGED wire /\ UNCHANGED phase
        /\ UNCHANGED fed /\ UNCHANGED parser /\ UNCHANGED size /\ doorVars' = doorVars
    BY <1>6 DEF HandleEvent
  <2>2. /\ StreamTypes' /\ StreamOK' /\ MessagesIntact'
        /\ pending # << >> /\ pending[1] = events[1] /\ events[1] \in Event
    BY <2>1, StreamHandle DEF IInv
  <2>3. DoorTypes' /\ DoorOK' /\ UNCHANGED doorMoves /\ UNCHANGED leaked
    BY <2>1, DoorStays DEF IInv
  <2>4. HearTypes'
    BY <2>1, Unchanged DEF IInv, HearTypes
  <2>5. policy' \in Policy
    BY <2>1, <2>2, LearnType DEF IInv, RestTypes
  <2>6. toClient' \in Seq(Event)
    <3>1. PICK n \in Seq(Event) : n = Reply(events[1])
      BY <2>2, ReplyType
    <3> QED
      BY <3>1, <2>1, ConcatProperties DEF IInv, RestTypes
  <2>7. RestTypes'
    BY <2>1, <2>3, <2>5, <2>6, Unchanged, Zenon DEF IInv, RestTypes
  <2>8. WindowOK'
    BY <2>1, <2>2, WindowHandle, Unchanged DEF IInv, StreamTypes, RestTypes
  <2> QED
    BY <2>2, <2>3, <2>4, <2>7, <2>8 DEF IInv
<1>7. CASE applyDims
  <2>1. /\ phase' = "read"
        /\ clientVars' = clientVars /\ UNCHANGED toClient /\ UNCHANGED wire
        /\ UNCHANGED pending /\ UNCHANGED fed /\ UNCHANGED parser /\ UNCHANGED events
        /\ UNCHANGED policy /\ doorVars' = doorVars
    BY <1>7 DEF applyDims
  <2>2. StreamTypes' /\ StreamOK' /\ MessagesIntact'
    BY <2>1, StreamStays DEF IInv
  <2>3. DoorTypes' /\ DoorOK' /\ UNCHANGED doorMoves /\ UNCHANGED leaked
    BY <2>1, DoorStays DEF IInv
  <2>4. HearTypes'
    BY <2>1, Unchanged DEF IInv, HearTypes
  <2>5. WindowOK' /\ size' \in (0 .. screenWidth) \X (0 .. screenHeight)
    BY <1>7, WindowApply DEF IInv, RestTypes
  <2>6. RestTypes'
    BY <2>1, <2>3, <2>5, Unchanged, Zenon DEF IInv, RestTypes
  <2> QED
    BY <2>2, <2>3, <2>4, <2>5, <2>6 DEF IInv
<1>8. ASSUME NEW m \in DoorMessages, DoorSends(m)
      PROVE  IInv'
  <2>1. /\ doorMoves > 0 /\ doorWire = << >> /\ doorMoves' = doorMoves - 1
        /\ doorWire' = Encoded(m)
        /\ drawn' = IF m.Kind = "EvData" THEN Drawn(drawn, m.Data[1]) ELSE drawn
        /\ clientVars' = clientVars /\ UNCHANGED toClient /\ UNCHANGED wire
        /\ UNCHANGED pending /\ readVars' = readVars /\ UNCHANGED remote
        /\ UNCHANGED ack /\ UNCHANGED lastCR /\ UNCHANGED screen /\ UNCHANGED leaked
    BY <1>8 DEF DoorSends
  <2>2. StreamTypes' /\ StreamOK' /\ MessagesIntact' /\ WindowOK'
    BY <2>1, StreamStays, WindowStays, Unchanged DEF IInv
  <2>3. HearTypes'
    BY <2>1, Unchanged DEF IInv, HearTypes
  <2>4. doorMoves' \in Nat
    BY <2>1 DEF IInv, RestTypes
  <2>5. RestTypes'
    BY <2>1, <2>4, Unchanged, Zenon DEF IInv, RestTypes
  <2>6. IsMessage(m) /\ m \in Event
    BY TelnetAssumption DEF IsMessage
  <2>7. Encoded(m) \in Groups /\ Encoded(m) # << >>
    BY <2>6, SegmentType
  <2>8. Agrees(remote, m, Encoded(m))
    BY <2>1 DEF IInv, DoorOK, Agrees
  <2>9. drawn = <<screen.row, screen.col>>
    BY <2>1 DEF IInv, DoorOK
  <2>10. DoorOK'
    <3>1. Before(m, <<screen.row, screen.col>>)'
      BY <2>1, <2>9, Zenon DEF Before
    <3> QED
      BY <3>1, <2>1, <2>6, <2>7, <2>8, Zenon DEF IInv, DoorOK
  <2>11. drawn' \in Nat \X Nat
    <3>1. CASE m.Kind = "EvData"
      <4>1. PICK r \in Nat, k \in Nat : drawn = <<r, k>>
        BY DEF IInv, DoorTypes
      <4>2. PICK c : c = m.Data[1]
        OBVIOUS
      <4>3. drawn' = Drawn(<<r, k>>, c)
        BY <4>1, <4>2, <3>1, <2>1
      <4>4. Drawn(<<r, k>>, c) \in {<<r + 1, 0>>, <<r, 0>>, <<r, k>>, <<r, k + 1>>}
        BY DEF Drawn
      <4> QED
        BY <4>3, <4>4
    <3>2. CASE m.Kind # "EvData"
      BY <3>2, <2>1 DEF IInv, DoorTypes
    <3> QED
      BY <3>1, <3>2
  <2>12. DoorTypes'
    BY <2>1, <2>7, <2>11, Zenon DEF IInv, DoorTypes
  <2> QED
    BY <2>2, <2>3, <2>5, <2>10, <2>12 DEF IInv
<1>9. CASE RemotePump
  <2>1. /\ clientVars' = clientVars /\ UNCHANGED wire /\ UNCHANGED pending
        /\ readVars' = readVars /\ UNCHANGED doorMoves
    BY <1>9 DEF RemotePump
  <2>2. StreamTypes' /\ StreamOK' /\ MessagesIntact' /\ WindowOK'
    BY <2>1, StreamStays, WindowStays, Unchanged DEF IInv
  <2>3. HearTypes'
    BY <2>1, Unchanged DEF IInv, HearTypes
  <2>4. DoorTypes' /\ DoorOK' /\ toClient' \in Seq(Event) /\ leaked' \subseteq Byte
    BY <1>9, DoorPump DEF IInv, RestTypes
  <2>5. RestTypes'
    BY <2>1, <2>4, Unchanged, Zenon DEF IInv, RestTypes
  <2> QED
    BY <2>2, <2>3, <2>4, <2>5 DEF IInv
<1>10. CASE EndDoorChunk
  <2>1. /\ lastCR' = FALSE
        /\ clientVars' = clientVars /\ UNCHANGED toClient /\ UNCHANGED wire
        /\ UNCHANGED pending /\ readVars' = readVars /\ UNCHANGED doorWire
        /\ UNCHANGED remote /\ UNCHANGED ack /\ UNCHANGED screen /\ UNCHANGED drawn
        /\ UNCHANGED doorMoves /\ UNCHANGED leaked
    BY <1>10 DEF EndDoorChunk
  <2>2. StreamTypes' /\ StreamOK' /\ MessagesIntact' /\ WindowOK'
    BY <2>1, StreamStays, WindowStays, Unchanged DEF IInv
  <2>3. HearTypes'
    BY <2>1, Unchanged DEF IInv, HearTypes
  <2>4. RestTypes'
    BY <2>1, Unchanged, Zenon DEF IInv, RestTypes
  <2>5. DoorTypes'
    BY <2>1, Zenon DEF IInv, DoorTypes
  <2>6. DoorOK'
    BY <2>1, Zenon DEF IInv, DoorOK, Before
  <2> QED
    BY <2>2, <2>3, <2>4, <2>5, <2>6 DEF IInv
<1>11. CASE UNCHANGED vars
  <2>1. /\ clientVars' = clientVars /\ UNCHANGED toClient /\ UNCHANGED wire
        /\ UNCHANGED pending /\ readVars' = readVars /\ doorVars' = doorVars
    BY <1>11 DEF vars
  <2>2. StreamTypes' /\ StreamOK' /\ MessagesIntact' /\ WindowOK'
    BY <2>1, StreamStays, WindowStays, Unchanged DEF IInv
  <2>3. DoorTypes' /\ DoorOK' /\ UNCHANGED doorMoves /\ UNCHANGED leaked
    BY <2>1, DoorStays DEF IInv
  <2>4. HearTypes'
    BY <2>1, Unchanged DEF IInv, HearTypes
  <2>5. RestTypes'
    BY <2>1, <2>3, Unchanged, Zenon DEF IInv, RestTypes
  <2> QED
    BY <2>2, <2>3, <2>4, <2>5 DEF IInv
<1> QED
  BY <1>1, <1>2, <1>3, <1>4, <1>5, <1>6, <1>7, <1>8, <1>9, <1>10, <1>11 DEF Next, Idle

LEMMA InvariantIInv == Spec => []IInv
BY InitIInv, NextIInv, PTL DEF Spec

-----------------------------------------------------------------------------
(* The types of the specification; the session's window never exceeds the  *)
(* screen that the pages are made for.                                     *)
THEOREM TypesHold == Spec => []TypeOK
<1>1. IInv => TypeOK
  BY TypeParts DEF IInv
<1> QED
  BY <1>1, InvariantIInv, PTL

(* Wherever the Reads end, the server's Feed returns the messages that the *)
(* client sent, whole and in order, for any keys, windows and clients.     *)
THEOREM FeedIntact == Spec => []MessagesIntact
<1>1. IInv => MessagesIntact
  BY DEF IInv
<1> QED
  BY <1>1, InvariantIInv, PTL

(* At rest every message of the client has been handled. *)
LEMMA QuietEmpty ==
    ASSUME IInv, Quiet
    PROVE  /\ wire = << >> /\ phase = "read" /\ ~fed
           /\ events = << >> /\ pending = << >>
<1>1. wire = << >> /\ phase = "read" /\ ~fed
  BY DEF Quiet
<1>2. events = << >>
  BY <1>1 DEF IInv, WindowOK
<1>3. PICK none \in Seq(Seg) : none = wire
  BY DEF IInv, StreamTypes
<1>4. Msgs(none) = << >>
  BY <1>1, <1>3, MsgsType, EmptySeq
<1>5. pending = << >> \o Msgs(none)
  BY <1>2, <1>3 DEF IInv, MessagesIntact, Msgs
<1>6. << >> \o << >> = << >>
  OBVIOUS
<1> QED
  BY <1>1, <1>2, <1>4, <1>5, <1>6

(* When the line is at rest the session has the window that was announced  *)
(* last, cut to the screen.                                                *)
THEOREM SizeSettled == Spec => []SizeFollows
<1>1. IInv => SizeFollows
  <2> SUFFICES ASSUME IInv, Quiet, announced # << >> PROVE SizeFollows
    BY DEF SizeFollows
  <2>1. phase = "read" /\ ~fed /\ pending = << >>
    BY QuietEmpty
  <2>2. Knows(policy, announced)
    BY <2>1 DEF IInv, WindowOK
  <2> QED
    BY <2>1, <2>2 DEF IInv, WindowOK, Knows, SizeFollows
<1> QED
  BY <1>1, InvariantIInv, PTL

(* However the door's output is cut into Reads, what it wrote stands where *)
(* the door believes it does.                                              *)
THEOREM DoorRendered == Spec => []DoorRendering
<1>1. IInv => DoorRendering
  <2> SUFFICES ASSUME IInv, doorWire = << >>
               PROVE  screen = [row |-> drawn[1], col |-> drawn[2], esc |-> FALSE]
    BY DEF DoorRendering
  <2>1. <<screen.row, screen.col>> = drawn /\ ~screen.esc
    BY DEF IInv, DoorOK
  <2>2. drawn[1] = screen.row /\ drawn[2] = screen.col
    BY <2>1
  <2>3. screen \in Cursor
    BY DEF IInv, DoorTypes
  <2>4. screen = [row |-> screen.row, col |-> screen.col, esc |-> FALSE]
    BY <2>1, <2>3, Zenon DEF Cursor
  <2> QED
    BY <2>2, <2>4
<1> QED
  BY <1>1, InvariantIInv, PTL
=============================================================================
