------------------------- MODULE NegotiationProofs -------------------------
(***************************************************************************)
(* Proof that the negotiation has one outcome (Outcome of Telnet).         *)
(*                                                                         *)
(* For every option the invariant says where the message is that will      *)
(* settle it: NInv speaks of membership of a message in what is on its way *)
(* to the client and to the server, and only for the preamble of order.    *)
(* A step of the client is summed up in Heard, a step of the server in     *)
(* ReplyIs, and each part of NInv then follows from these alone.           *)
(***************************************************************************)
EXTENDS TelnetProofs

(* The message m is on its way in q. *)
In(m, q) == \E i \in DOMAIN q : q[i] = m

LEMMA InNone == \A m : ~In(m, << >>)
BY DEF In

LEMMA InOne ==
    ASSUME NEW x \in Event, NEW m
    PROVE  In(m, << x >>) <=> m = x
<1>1. DOMAIN << x >> = {1} /\ << x >>[1] = x
  OBVIOUS
<1> QED
  BY <1>1 DEF In

LEMMA InConcat ==
    ASSUME NEW q \in Seq(Event), NEW r \in Seq(Event), NEW m
    PROVE  In(m, q \o r) <=> In(m, q) \/ In(m, r)
<1>1. /\ q \o r \in Seq(Event) /\ Len(q \o r) = Len(q) + Len(r)
      /\ \A i \in 1 .. Len(q) + Len(r) : (q \o r)[i] =
            IF i <= Len(q) THEN q[i] ELSE r[i - Len(q)]
  BY ConcatProperties
<1>2. PICK s \in Seq(Event) : s = q \o r
  BY <1>1
<1>3. /\ Len(q) \in Nat /\ DOMAIN q = 1 .. Len(q) /\ Len(r) \in Nat
      /\ DOMAIN r = 1 .. Len(r) /\ DOMAIN s = 1 .. Len(q) + Len(r)
  BY <1>1, <1>2, LenProperties
<1>4. ASSUME NEW i \in DOMAIN q
      PROVE  i \in DOMAIN s /\ s[i] = q[i]
  BY <1>1, <1>2, <1>3
<1>5. ASSUME NEW i \in DOMAIN r
      PROVE  Len(q) + i \in DOMAIN s /\ s[Len(q) + i] = r[i]
  <2>1. Len(q) + i \in 1 .. Len(q) + Len(r) /\ ~(Len(q) + i <= Len(q)) /\ Len(q) + i - Len(q) = i
    BY <1>3
  <2> QED
    BY <2>1, <1>1, <1>2, <1>3
<1>6. ASSUME NEW i \in DOMAIN s
      PROVE  \/ i \in DOMAIN q /\ s[i] = q[i]
             \/ i - Len(q) \in DOMAIN r /\ s[i] = r[i - Len(q)]
  BY <1>1, <1>2, <1>3
<1>7. In(m, s) => In(m, q) \/ In(m, r)
  BY <1>6, Zenon DEF In
<1>8. In(m, q) => In(m, s)
  BY <1>4, Zenon DEF In
<1>9. In(m, r) => In(m, s)
  BY <1>5, Zenon DEF In
<1> QED
  BY <1>2, <1>7, <1>8, <1>9

LEMMA InTail ==
    ASSUME NEW q \in Seq(Event), q # << >>
    PROVE  \A m : In(m, q) <=> m = q[1] \/ In(m, Tail(q))
<1>1. /\ Len(q) \in Nat \ {0} /\ DOMAIN q = 1 .. Len(q)
      /\ Tail(q) \in Seq(Event) /\ Len(Tail(q)) = Len(q) - 1
      /\ \A i \in 1 .. Len(q) - 1 : Tail(q)[i] = q[i + 1]
  BY EmptySeq, LenProperties, HeadTailProperties
<1>2. PICK t \in Seq(Event) : t = Tail(q)
  BY <1>1
<1>3. DOMAIN t = 1 .. Len(q) - 1
  BY <1>1, <1>2, LenProperties
<1>4. \A i \in DOMAIN t : i + 1 \in DOMAIN q /\ t[i] = q[i + 1]
  BY <1>1, <1>2, <1>3
<1>5. \A i \in DOMAIN q : i = 1 \/ (i - 1 \in DOMAIN t /\ t[i - 1] = q[i])
  <2> TAKE i \in DOMAIN q
  <2>1. CASE i # 1
    <3>1. i - 1 \in 1 .. Len(q) - 1 /\ (i - 1) + 1 = i
      BY <2>1, <1>1
    <3> QED
      BY <3>1, <1>1, <1>2, <1>3
  <2> QED
    BY <2>1
<1>6. 1 \in DOMAIN q
  BY <1>1
<1> TAKE m
<1>7. In(m, q) => m = q[1] \/ In(m, t)
  BY <1>5, Zenon DEF In
<1>8. In(m, t) => In(m, q)
  BY <1>4, Zenon DEF In
<1>9. m = q[1] => In(m, q)
  BY <1>6, Zenon DEF In
<1> QED
  BY <1>2, <1>7, <1>8, <1>9

(* Commands are told apart by their verb and their option.                 *)
LEMMA CmdSame ==
    ASSUME NEW c \in Commands, NEW d \in Commands, NEW o, NEW p
    PROVE  /\ Cmd(c, o) = Cmd(d, p) <=> c = d /\ o = p
           /\ Cmd(c, o).Opt = o
           /\ Cmd(c, o).Kind \notin {"EvSubneg", "EvData"}
<1>1. kindForCmd(c) = kindForCmd(d) <=> c = d
  BY DEF kindForCmd, Commands, DO, DONT, WILL, WONT
<1>2. kindForCmd(c) \notin {"EvSubneg", "EvData"}
  BY DEF kindForCmd, Commands, DO, DONT, WILL, WONT
<1>3. Cmd(c, o).Kind = kindForCmd(c) /\ Cmd(c, o).Opt = o /\ Cmd(d, p).Kind = kindForCmd(d)
      /\ Cmd(d, p).Opt = p
  BY DEF Cmd
<1> QED
  BY <1>1, <1>2, <1>3

LEMMA Verbs ==
    /\ DO \in Commands /\ DONT \in Commands /\ WILL \in Commands /\ WONT \in Commands
    /\ DO # DONT /\ DO # WILL /\ DO # WONT /\ DONT # WILL /\ DONT # WONT /\ WILL # WONT
BY DEF Commands, DO, DONT, WILL, WONT

LEMMA Apart ==
    /\ \A o, p : /\ Cmd(DO, o) # Cmd(DONT, p) /\ Cmd(DO, o) # Cmd(WILL, p)
                 /\ Cmd(DO, o) # Cmd(WONT, p) /\ Cmd(DONT, o) # Cmd(WILL, p)
                 /\ Cmd(DONT, o) # Cmd(WONT, p) /\ Cmd(WILL, o) # Cmd(WONT, p)
    /\ \A o, p : /\ Cmd(DO, o) = Cmd(DO, p) => o = p
                 /\ Cmd(DONT, o) = Cmd(DONT, p) => o = p
                 /\ Cmd(WILL, o) = Cmd(WILL, p) => o = p
                 /\ Cmd(WONT, o) = Cmd(WONT, p) => o = p
    /\ \A o, d : \A p : /\ Cmd(DO, o) # Subneg(p, d) /\ Cmd(DONT, o) # Subneg(p, d)
                        /\ Cmd(WILL, o) # Subneg(p, d) /\ Cmd(WONT, o) # Subneg(p, d)
<1>1. \A p, d : Subneg(p, d).Kind = "EvSubneg"
  BY DEF Subneg
<1>2. \A o : /\ Cmd(DO, o).Kind # "EvSubneg" /\ Cmd(DONT, o).Kind # "EvSubneg"
             /\ Cmd(WILL, o).Kind # "EvSubneg" /\ Cmd(WONT, o).Kind # "EvSubneg"
  BY CmdSame, Verbs
<1> QED
  BY <1>1, <1>2, CmdSame, Verbs

LEMMA OptionsDiffer ==
    /\ Options \subseteq Byte
    /\ \A o \in Options : o \in {OptBinary, OptEcho, OptSGA, OptTTYPE, OptNAWS}
    /\ {OptBinary, OptEcho, OptSGA, OptTTYPE, OptNAWS} \subseteq Options
    /\ OptBinary # OptEcho /\ OptBinary # OptSGA /\ OptBinary # OptTTYPE /\ OptBinary # OptNAWS
    /\ OptEcho # OptSGA /\ OptEcho # OptTTYPE /\ OptEcho # OptNAWS
    /\ OptSGA # OptTTYPE /\ OptSGA # OptNAWS /\ OptTTYPE # OptNAWS
    /\ TTYPESEND # TTYPEIS /\ OptTTYPE # 0
BY DEF Options, Byte, OptBinary, OptEcho, OptSGA, OptTTYPE, OptNAWS, TTYPESEND, TTYPEIS

(* The options that the server agrees to perform, what it sends after its  *)
(* preamble, and what a client says of its terminal.                       *)
Agreed == {OptBinary, OptNAWS, OptTTYPE}

Later == {Cmd(DO, OptSGA), Subneg(OptTTYPE, ANSI)}
         \cup {Cmd(DONT, o) : o \in Byte \ {OptSGA}}
         \cup {Cmd(WILL, o) : o \in Agreed}
         \cup {Cmd(WONT, o) : o \in Byte \ (Agreed \cup {OptSGA})}

TypeAnswer == Subneg(OptTTYPE, << TTYPEIS >> \o TermName)

(* Messages 1 to k - 1 of the preamble have been heard: what comes next is *)
(* the rest of it, and then later messages only.                           *)
Ahead(k) ==
    /\ Len(toClient) >= 7 - k
    /\ \A i \in 1 .. 7 - k : toClient[i] = Preamble[k + i - 1]
    /\ \A i \in DOMAIN toClient : i > 7 - k => toClient[i] \in Later

(* What the preamble has led to by then. *)
Progress(k) ==
    /\ k <= 3 => us[OptNAWS] # "yes"
    /\ k > 3 /\ OptNAWS \in client.us => announced # << >>
    /\ k = 6 /\ OptTTYPE \in client.us => us[OptTTYPE] = "yes"
    /\ k = 7 /\ OptTTYPE \in client.us =>
          policy.TermType = TermName \/ In(TypeAnswer, pending)

Ordered == \E k \in 1 .. 7 : Ahead(k) /\ Progress(k)

(* What is on its way to the server; a client has one terminal type. *)
IsType(m) == m.Kind = "EvSubneg" /\ m.Opt = OptTTYPE
Honest(ms) ==
    \A i \in DOMAIN ms : IsMessage(ms[i]) /\ (IsType(ms[i]) => ms[i] = TypeAnswer)

(* An option that the client wants to perform, or performs, and that the   *)
(* server refuses: the request or the refusal is on its way.               *)
Refused(o) ==
    us[o] # "no" => In(Cmd(WILL, o), pending) \/ In(Cmd(DONT, o), toClient)

NoEcho ==
    him[OptEcho] # "no" =>
        In(Cmd(DO, OptEcho), pending) \/ In(Cmd(WONT, OptEcho), toClient)

(* An option that the server agrees to perform: nobody speaks of it unless *)
(* the client asked, or the agreement was meant for the door.              *)
Lent(o) ==
    /\ him[o] # "no" \/ In(Cmd(WILL, o), toClient) \/ In(Cmd(DO, o), pending) =>
          Asks(client, DO, o) \/ o \in leaked
    /\ him[o] = "want" => In(Cmd(DO, o), pending) \/ In(Cmd(WILL, o), toClient)

(* Suppressed go-ahead: the server offers it, the client's agreement makes *)
(* the server ask for it, and each of these is on its way until it is heard. *)
Suppressed ==
    /\ us[OptSGA] = "want" =>
          In(Cmd(WILL, OptSGA), pending) \/ In(Cmd(DO, OptSGA), toClient)
    /\ him[OptSGA] = "want" => In(Cmd(WILL, OptSGA), toClient)
    /\ OptSGA \in client.him => him[OptSGA] = "yes" \/ In(Cmd(WILL, OptSGA), toClient)
    /\ OptSGA \in client.him /\ OptSGA \in client.us =>
          \/ us[OptSGA] = "yes"
          \/ In(Cmd(DO, OptSGA), toClient)
          \/ In(Cmd(DO, OptSGA), pending) \/ In(Cmd(WILL, OptSGA), pending)
          \/ In(Cmd(WILL, OptSGA), toClient) /\ him[OptSGA] = "no"

NInv ==
    /\ Ordered /\ Honest(pending) /\ NoEcho /\ Suppressed
    /\ \A o \in Options \ {OptSGA} : Refused(o)
    /\ \A o \in Agreed : Lent(o)

LEMMA PreambleIs ==
    /\ Len(Preamble) = 6 /\ DOMAIN Preamble = 1 .. 6
    /\ Preamble[1] = Cmd(WILL, OptEcho) /\ Preamble[2] = Cmd(WILL, OptSGA)
    /\ Preamble[3] = Cmd(DO, OptNAWS) /\ Preamble[4] = Cmd(DO, OptBinary)
    /\ Preamble[5] = Cmd(DO, OptTTYPE) /\ Preamble[6] = Subneg(OptTTYPE, << TTYPESEND >>)
BY DEF Preamble

LEMMA TypeAnswerType ==
    /\ << TTYPEIS >> \o TermName \in Seq(Byte)
    /\ TypeAnswer \in Event /\ IsMessage(TypeAnswer) /\ IsType(TypeAnswer)
<1>1. << TTYPEIS >> \in Seq(Byte) /\ TermName \in Seq(Byte)
  BY TelnetAssumption DEF TTYPEIS, Byte
<1>2. PICK s \in Seq(Byte) : s = << TTYPEIS >>
  BY <1>1
<1>3. s \o TermName \in Seq(Byte)
  BY <1>1, ConcatProperties
<1>4. PICK d \in Seq(Byte) : d = << TTYPEIS >> \o TermName
  BY <1>2, <1>3
<1>5. OptTTYPE \in Byte \ {0}
  BY OptionsDiffer
<1> QED
  BY <1>4, <1>5, SubnegType DEF TypeAnswer, IsType, Subneg

(* What a later message is not. *)
LEMMA LaterIs ==
    ASSUME NEW m \in Later
    PROVE  /\ \A o : m = Cmd(DO, o) => o = OptSGA
           /\ \A o : m = Cmd(WILL, o) => o \in Agreed
           /\ m # Cmd(WONT, OptSGA) /\ m # Cmd(DONT, OptSGA)
<1>1. OptSGA \notin Agreed /\ OptSGA \in Byte
  BY OptionsDiffer DEF Agreed
<1>2. CASE m = Cmd(DO, OptSGA)
  BY <1>2, Apart
<1>3. CASE m = Subneg(OptTTYPE, ANSI)
  BY <1>3, Apart
<1>4. ASSUME NEW p \in Byte \ {OptSGA}, m = Cmd(DONT, p)
      PROVE  /\ \A o : m = Cmd(DO, o) => o = OptSGA
             /\ \A o : m = Cmd(WILL, o) => o \in Agreed
             /\ m # Cmd(WONT, OptSGA) /\ m # Cmd(DONT, OptSGA)
  <2>1. p # OptSGA
    OBVIOUS
  <2> QED
    BY <1>4, <2>1, Apart
<1>5. ASSUME NEW p \in Agreed, m = Cmd(WILL, p)
      PROVE  /\ \A o : m = Cmd(DO, o) => o = OptSGA
             /\ \A o : m = Cmd(WILL, o) => o \in Agreed
             /\ m # Cmd(WONT, OptSGA) /\ m # Cmd(DONT, OptSGA)
  BY <1>5, Apart
<1>6. ASSUME NEW p \in Byte \ (Agreed \cup {OptSGA}), m = Cmd(WONT, p)
      PROVE  /\ \A o : m = Cmd(DO, o) => o = OptSGA
             /\ \A o : m = Cmd(WILL, o) => o \in Agreed
             /\ m # Cmd(WONT, OptSGA) /\ m # Cmd(DONT, OptSGA)
  <2>1. p # OptSGA
    OBVIOUS
  <2> QED
    BY <1>6, <2>1, Apart
<1> QED
  BY <1>2, <1>3, <1>4, <1>5, <1>6 DEF Later

(* The message that the client hears. *)
LEMMA HeadIs ==
    ASSUME toClient \in Seq(Event), toClient # << >>, NEW k \in 1 .. 7, Ahead(k)
    PROVE  /\ k < 7 => toClient[1] = Preamble[k]
           /\ k = 7 => toClient[1] \in Later
           /\ toClient[1] # Cmd(WONT, OptSGA) /\ toClient[1] # Cmd(DONT, OptSGA)
<1>1. 1 \in DOMAIN toClient
  BY EmptySeq, LenProperties
<1>2. k < 7 => toClient[1] = Preamble[k]
  BY DEF Ahead
<1>3. k = 7 => toClient[1] \in Later
  BY <1>1 DEF Ahead
<1>4. ASSUME NEW c \in {WONT, DONT}
      PROVE  \A i \in 1 .. 6 : Preamble[i] # Cmd(c, OptSGA)
  <2>1. Subneg(OptTTYPE, << TTYPESEND >>).Kind = "EvSubneg"
    BY DEF Subneg
  <2>2. Cmd(c, OptSGA).Kind # "EvSubneg"
    BY CmdSame, Verbs
  <2>3. Preamble[6] # Cmd(c, OptSGA)
    BY <2>1, <2>2, PreambleIs
  <2>4. \A o : Cmd(DO, o) # Cmd(c, OptSGA) /\ Cmd(WILL, o) # Cmd(c, OptSGA)
    BY CmdSame, Verbs
  <2>5. Preamble[1] # Cmd(c, OptSGA) /\ Preamble[2] # Cmd(c, OptSGA) /\ Preamble[3] # Cmd(c, OptSGA)
        /\ Preamble[4] # Cmd(c, OptSGA) /\ Preamble[5] # Cmd(c, OptSGA)
    BY <2>4, PreambleIs, Zenon
  <2>6. \A i \in 1 .. 6 : i \in {1, 2, 3, 4, 5, 6}
    OBVIOUS
  <2> QED
    BY <2>3, <2>5, <2>6
<1>5. k < 7 => toClient[1] # Cmd(WONT, OptSGA) /\ toClient[1] # Cmd(DONT, OptSGA)
  BY <1>2, <1>4
<1>6. k = 7 => toClient[1] # Cmd(WONT, OptSGA) /\ toClient[1] # Cmd(DONT, OptSGA)
  BY <1>3, LaterIs
<1> QED
  BY <1>2, <1>3, <1>5, <1>6

(* What it does to the client to hear h and answer ms: to the options that *)
(* it performs, to those that the server performs, and what it tells.      *)
UsHeard(h, ms) ==
    \A p \in Options :
       /\ us[p] = "no" /\ us'[p] # "no" => In(Cmd(WILL, p), ms)
       /\ us'[p] = "want" => us[p] = "want" /\ h # Cmd(DO, p)
       /\ us'[p] # "no" => h # Cmd(DONT, p)
       /\ us[p] = "yes" /\ us'[p] # "yes" => h = Cmd(DONT, p)
       /\ us'[p] = "yes" /\ us[p] # "yes" => h = Cmd(DO, p)
       /\ h = Cmd(DO, p) /\ p \in client.us => us'[p] = "yes"

HimHeard(h, ms) ==
    \A p \in Options :
       /\ him[p] = "no" /\ him'[p] # "no" => h = Cmd(WILL, p) /\ In(Cmd(DO, p), ms)
       /\ him'[p] = "want" => him[p] = "want" /\ h # Cmd(WILL, p)
       /\ him'[p] # "no" => h # Cmd(WONT, p)
       /\ him[p] = "yes" /\ him'[p] # "yes" => h = Cmd(WONT, p)
       /\ h = Cmd(WILL, p) /\ p \in client.him => him'[p] = "yes"
       /\ In(Cmd(DO, p), ms) => h = Cmd(WILL, p)

Says(h, ms) ==
    /\ Honest(ms)
    /\ h = Subneg(OptTTYPE, << TTYPESEND >>) /\ us[OptTTYPE] = "yes" => In(TypeAnswer, ms)
    /\ h = Cmd(DO, OptNAWS) /\ OptNAWS \in client.us /\ us[OptNAWS] # "yes" =>
          announced' # << >>

Heard(ms) ==
    /\ Fit(ms) /\ Answer(ms)
    /\ UsHeard(toClient[1], ms) /\ HimHeard(toClient[1], ms) /\ Says(toClient[1], ms)

LEMMA UsStays ==
    ASSUME UNCHANGED us, NEW h, NEW ms,
           \A p \in Options : h # Cmd(DO, p) /\ h # Cmd(DONT, p)
    PROVE  UsHeard(h, ms)
BY DEF UsHeard

LEMMA HimStays ==
    ASSUME UNCHANGED him, NEW h, NEW ms,
           \A p \in Options : h # Cmd(WILL, p) /\ h # Cmd(WONT, p),
           \A p \in Options : ~In(Cmd(DO, p), ms)
    PROVE  HimHeard(h, ms)
BY DEF HimHeard

LEMMA HonestIn ==
    ASSUME NEW ms, Fit(ms), \A m : In(m, ms) /\ IsType(m) => m = TypeAnswer
    PROVE  Honest(ms)
<1>1. \A i \in DOMAIN ms : IsMessage(ms[i]) /\ In(ms[i], ms)
  BY DEF Fit, ClientMessages, In
<1> QED
  BY <1>1, Zenon DEF Honest

(* Commands and window sizes are no terminal types, and no DO.             *)
LEMMA NoType ==
    /\ \A c \in Commands : \A o : ~IsType(Cmd(c, o))
    /\ \A w : ~IsType(Subneg(OptNAWS, w))
<1>1. \A c \in Commands : \A o : Cmd(c, o).Kind # "EvSubneg"
  BY CmdSame
<1>2. \A w : Subneg(OptNAWS, w).Opt = OptNAWS
  BY DEF Subneg
<1> QED
  BY <1>1, <1>2, OptionsDiffer DEF IsType

LEMMA HeardDo ==
    ASSUME HearTypes, NEW o \in Options, HearDo(o)
    PROVE  \E ms : Heard(ms)
<1>1. PICK h : h = toClient[1]
  OBVIOUS
<1>2. h = Cmd(DO, o) /\ UNCHANGED him
  BY <1>1 DEF HearDo
<1>. DEFINE naws == Subneg(OptNAWS, window)
<1>3. /\ Cmd(WILL, o) \in Event /\ Cmd(WONT, o) \in Event /\ naws \in Event
      /\ IsMessage(naws)
  BY CmdType, WindowType, OptionsDiffer, Verbs DEF HearTypes
<1>4. PICK say : say = Opening(o)
  OBVIOUS
<1>5. /\ say \in Seq(Event) /\ Fit(say)
      /\ \A m : In(m, say) <=> o = OptNAWS /\ m = naws
  <2>1. CASE o = OptNAWS
    <3>1. say = << naws >>
      BY <2>1, <1>4 DEF Opening
    <3>2. Fit(<< naws >>)
      BY <1>3, FitOne
    <3> QED
      BY <3>1, <3>2, <2>1, <1>3, InOne
  <2>2. CASE o # OptNAWS
    <3>1. say = << >>
      BY <2>2, <1>4 DEF Opening
    <3> QED
      BY <3>1, <2>2, InNone, FitNone
  <2> QED
    BY <2>1, <2>2
<1>6. PICK ms :
        /\ Answer(ms) /\ Fit(ms)
        /\ \A m : In(m, ms) => m \in {Cmd(WILL, o), Cmd(WONT, o), naws}
        /\ \/ /\ us[o] = "no" /\ o \in client.us /\ us' = [us EXCEPT ![o] = "yes"]
              /\ In(Cmd(WILL, o), ms) /\ (o = OptNAWS => In(naws, ms))
           \/ us[o] = "no" /\ o \notin client.us /\ us' = us
           \/ /\ us[o] = "want" /\ us' = [us EXCEPT ![o] = "yes"]
              /\ (o = OptNAWS => In(naws, ms))
           \/ us[o] = "yes" /\ us' = us
  <2>1. CASE /\ us[o] = "no" /\ o \in client.us /\ us' = [us EXCEPT ![o] = "yes"]
             /\ Answer(<< Cmd(WILL, o) >> \o say)
    <3>. << Cmd(WILL, o) >> \in Seq(Event)
      BY <1>3
    <3>1. PICK one \in Seq(Event) : one = << Cmd(WILL, o) >>
      OBVIOUS
    <3>2. PICK ms : ms = one \o say
      OBVIOUS
    <3>3. \A m : In(m, ms) <=> m = Cmd(WILL, o) \/ (o = OptNAWS /\ m = naws)
      BY <3>1, <3>2, <1>3, <1>5, InOne, InConcat
    <3>4. Fit(ms)
      <4>1. IsMessage(Cmd(WILL, o)) /\ ~IsNaws(Cmd(WILL, o)) /\ Fit(<< Cmd(WILL, o) >>)
        BY CmdFits, OptionsDiffer, Verbs
      <4>2. CASE o = OptNAWS
        <5>1. Fit(<< Cmd(WILL, o) >> \o << naws >>)
          BY <4>1, <1>3, FitTwo
        <5> QED
          BY <5>1, <4>2, <3>1, <3>2, <1>4 DEF Opening
      <4>3. CASE o # OptNAWS
        <5>1. << Cmd(WILL, o) >> \o << >> = << Cmd(WILL, o) >>
          OBVIOUS
        <5> QED
          BY <5>1, <4>1, <4>3, <3>1, <3>2, <1>4 DEF Opening
      <4> QED
        BY <4>2, <4>3
    <3> QED
      BY <3>1, <3>2, <3>3, <3>4, <2>1
  <2>2. CASE us[o] = "no" /\ o \notin client.us /\ us' = us /\ Answer(<< Cmd(WONT, o) >>)
    <3>1. Fit(<< Cmd(WONT, o) >>)
      BY CmdFits, OptionsDiffer, Verbs
    <3>2. \A m : In(m, << Cmd(WONT, o) >>) => m = Cmd(WONT, o)
      BY <1>3, InOne
    <3> QED
      BY <3>1, <3>2, <2>2
  <2>3. CASE us[o] = "want" /\ us' = [us EXCEPT ![o] = "yes"] /\ Answer(say)
    BY <2>3, <1>5
  <2>4. CASE us[o] = "yes" /\ us' = us /\ Answer(<< >>)
    BY <2>4, InNone, FitNone
  <2> QED
    BY <2>1, <2>2, <2>3, <2>4, <1>4 DEF HearDo
<1>7. \A p \in Options : /\ h = Cmd(DO, p) => p = o
                         /\ h # Cmd(DONT, p) /\ h # Cmd(WILL, p) /\ h # Cmd(WONT, p)
  BY <1>2, Apart
<1>8. UsHeard(h, ms)
  <2>1. us \in [Options -> Answers]
    BY DEF HearTypes
  <2> QED
    BY <2>1, <1>2, <1>6, <1>7 DEF UsHeard
<1>9. HimHeard(h, ms)
  <2>1. \A p \in Options : ~In(Cmd(DO, p), ms)
    BY <1>6, Apart
  <2> QED
    BY <2>1, <1>2, <1>7, HimStays
<1>10. Honest(ms)
  BY <1>6, NoType, Verbs, HonestIn
<1>11. ASSUME h = Cmd(DO, OptNAWS), OptNAWS \in client.us, us[OptNAWS] # "yes"
       PROVE  announced' # << >>
  <2>1. o = OptNAWS
    BY <1>7, <1>11, OptionsDiffer
  <2>2. In(naws, ms)
    BY <2>1, <1>6, <1>11
  <2>3. announced' = window
    BY <2>2, <1>6 DEF Answer, Announce, In
  <2> QED
    BY <2>3, WindowType DEF HearTypes
<1>12. h # Subneg(OptTTYPE, << TTYPESEND >>)
  BY <1>2, Apart
<1> QED
  BY <1>1, <1>6, <1>8, <1>9, <1>10, <1>11, <1>12 DEF Heard, Says

LEMMA HeardDont ==
    ASSUME HearTypes, NEW o \in Options, HearDont(o)
    PROVE  \E ms : Heard(ms)
<1>1. PICK h : h = toClient[1]
  OBVIOUS
<1>2. /\ h = Cmd(DONT, o) /\ UNCHANGED him /\ us' = [us EXCEPT ![o] = "no"]
  BY <1>1 DEF HearDont
<1>3. Cmd(WONT, o) \in Event /\ Fit(<< Cmd(WONT, o) >>)
  BY CmdType, CmdFits, OptionsDiffer, Verbs
<1>4. PICK ms : Answer(ms) /\ Fit(ms) /\ \A m : In(m, ms) => m = Cmd(WONT, o)
  <2>1. \A m : In(m, << Cmd(WONT, o) >>) => m = Cmd(WONT, o)
    BY <1>3, InOne
  <2>2. Answer(<< Cmd(WONT, o) >>) \/ Answer(<< >>)
    BY DEF HearDont
  <2> QED
    BY <2>1, <2>2, <1>3, InNone, FitNone
<1>5. \A p \in Options : /\ h = Cmd(DONT, p) => p = o
                         /\ h # Cmd(DO, p) /\ h # Cmd(WILL, p) /\ h # Cmd(WONT, p)
  BY <1>2, Apart
<1>6. UsHeard(h, ms)
  <2>1. us \in [Options -> Answers]
    BY DEF HearTypes
  <2> QED
    BY <2>1, <1>2, <1>5 DEF UsHeard
<1>7. HimHeard(h, ms)
  <2>1. \A p \in Options : ~In(Cmd(DO, p), ms)
    BY <1>4, Apart
  <2> QED
    BY <2>1, <1>2, <1>5, HimStays
<1>8. Honest(ms)
  BY <1>4, NoType, Verbs, HonestIn
<1>9. h # Subneg(OptTTYPE, << TTYPESEND >>) /\ h # Cmd(DO, OptNAWS)
  BY <1>2, Apart
<1> QED
  BY <1>1, <1>4, <1>6, <1>7, <1>8, <1>9 DEF Heard, Says

LEMMA HeardWill ==
    ASSUME HearTypes, NEW o \in Options, HearWill(o)
    PROVE  \E ms : Heard(ms)
<1>1. PICK h : h = toClient[1]
  OBVIOUS
<1>2. h = Cmd(WILL, o) /\ UNCHANGED us
  BY <1>1 DEF HearWill
<1>3. /\ Cmd(DO, o) \in Event /\ Fit(<< Cmd(DO, o) >>)
      /\ Cmd(DONT, o) \in Event /\ Fit(<< Cmd(DONT, o) >>)
  BY CmdType, CmdFits, OptionsDiffer, Verbs
<1>4. PICK ms :
        /\ Answer(ms) /\ Fit(ms)
        /\ \A m : In(m, ms) => m \in {Cmd(DO, o), Cmd(DONT, o)}
        /\ \/ /\ him[o] = "no" /\ o \in client.him /\ him' = [him EXCEPT ![o] = "yes"]
              /\ In(Cmd(DO, o), ms)
           \/ him[o] = "no" /\ o \notin client.him /\ him' = him
           \/ him[o] \in {"want", "yes"} /\ him' = [him EXCEPT ![o] = "yes"]
  <2>1. CASE /\ him[o] = "no" /\ o \in client.him /\ him' = [him EXCEPT ![o] = "yes"]
             /\ Answer(<< Cmd(DO, o) >>)
    <3>1. \A m : In(m, << Cmd(DO, o) >>) <=> m = Cmd(DO, o)
      BY <1>3, InOne
    <3> QED
      BY <3>1, <2>1, <1>3
  <2>2. CASE him[o] = "no" /\ o \notin client.him /\ him' = him /\ Answer(<< Cmd(DONT, o) >>)
    <3>1. \A m : In(m, << Cmd(DONT, o) >>) => m = Cmd(DONT, o)
      BY <1>3, InOne
    <3> QED
      BY <3>1, <2>2, <1>3
  <2>3. CASE him[o] \in {"want", "yes"} /\ him' = [him EXCEPT ![o] = "yes"] /\ Answer(<< >>)
    BY <2>3, InNone, FitNone
  <2> QED
    BY <2>1, <2>2, <2>3 DEF HearWill
<1>5. \A p \in Options : /\ h = Cmd(WILL, p) => p = o
                         /\ h # Cmd(DO, p) /\ h # Cmd(DONT, p) /\ h # Cmd(WONT, p)
  BY <1>2, Apart
<1>6. UsHeard(h, ms)
  BY <1>2, <1>5, UsStays
<1>7. HimHeard(h, ms)
  <2>1. \A p \in Options : In(Cmd(DO, p), ms) => p = o
    BY <1>4, Apart
  <2>2. him \in [Options -> Answers]
    BY DEF HearTypes
  <2> QED
    BY <2>1, <2>2, <1>2, <1>4, <1>5 DEF HimHeard
<1>8. Honest(ms)
  BY <1>4, NoType, Verbs, HonestIn
<1>9. h # Subneg(OptTTYPE, << TTYPESEND >>) /\ h # Cmd(DO, OptNAWS)
  BY <1>2, Apart
<1> QED
  BY <1>1, <1>4, <1>6, <1>7, <1>8, <1>9 DEF Heard, Says

LEMMA HeardWont ==
    ASSUME HearTypes, NEW o \in Options, HearWont(o)
    PROVE  \E ms : Heard(ms)
<1>1. PICK h : h = toClient[1]
  OBVIOUS
<1>2. /\ h = Cmd(WONT, o) /\ UNCHANGED us /\ him' = [him EXCEPT ![o] = "no"]
  BY <1>1 DEF HearWont
<1>3. Cmd(DONT, o) \in Event /\ Fit(<< Cmd(DONT, o) >>)
  BY CmdType, CmdFits, OptionsDiffer, Verbs
<1>4. PICK ms : Answer(ms) /\ Fit(ms) /\ \A m : In(m, ms) => m = Cmd(DONT, o)
  <2>1. \A m : In(m, << Cmd(DONT, o) >>) => m = Cmd(DONT, o)
    BY <1>3, InOne
  <2>2. Answer(<< Cmd(DONT, o) >>) \/ Answer(<< >>)
    BY DEF HearWont
  <2> QED
    BY <2>1, <2>2, <1>3, InNone, FitNone
<1>5. \A p \in Options : /\ h = Cmd(WONT, p) => p = o
                         /\ h # Cmd(DO, p) /\ h # Cmd(DONT, p) /\ h # Cmd(WILL, p)
  BY <1>2, Apart
<1>6. UsHeard(h, ms)
  BY <1>2, <1>5, UsStays
<1>7. HimHeard(h, ms)
  <2>1. \A p \in Options : ~In(Cmd(DO, p), ms)
    BY <1>4, Apart
  <2>2. him \in [Options -> Answers]
    BY DEF HearTypes
  <2> QED
    BY <2>1, <2>2, <1>2, <1>5 DEF HimHeard
<1>8. Honest(ms)
  BY <1>4, NoType, Verbs, HonestIn
<1>9. h # Subneg(OptTTYPE, << TTYPESEND >>) /\ h # Cmd(DO, OptNAWS)
  BY <1>2, Apart
<1> QED
  BY <1>1, <1>4, <1>6, <1>7, <1>8, <1>9 DEF Heard, Says

LEMMA HeardSubneg ==
    ASSUME HearTypes, HearSubneg
    PROVE  \E ms : Heard(ms)
<1>1. PICK h : h = toClient[1]
  OBVIOUS
<1>2. h.Kind = "EvSubneg" /\ UNCHANGED us /\ UNCHANGED him
  BY <1>1 DEF HearSubneg
<1>3. TypeAnswer \in Event /\ Fit(<< TypeAnswer >>)
  <2>1. ~IsNaws(TypeAnswer)
    BY TypeAnswerType, OptionsDiffer DEF IsType, IsNaws
  <2> QED
    BY <2>1, TypeAnswerType, FitOne
<1>4. \A m : In(m, << TypeAnswer >>) <=> m = TypeAnswer
  BY <1>3, InOne
<1>5. PICK ms :
        /\ Answer(ms) /\ Fit(ms)
        /\ \A m : In(m, ms) => m = TypeAnswer
        /\ h = Subneg(OptTTYPE, << TTYPESEND >>) /\ us[OptTTYPE] = "yes" => In(TypeAnswer, ms)
  <2>1. CASE h = Subneg(OptTTYPE, << TTYPESEND >>) /\ us[OptTTYPE] = "yes"
    <3>1. Answer(<< TypeAnswer >>)
      BY <2>1, <1>1 DEF HearSubneg, TypeAnswer
    <3> QED
      BY <3>1, <1>3, <1>4
  <2>2. CASE ~(h = Subneg(OptTTYPE, << TTYPESEND >>) /\ us[OptTTYPE] = "yes")
    <3>1. Answer(<< >>)
      BY <2>2, <1>1 DEF HearSubneg
    <3> QED
      BY <3>1, <2>2, InNone, FitNone
  <2> QED
    BY <2>1, <2>2
<1>6. \A c \in Commands : \A p : h # Cmd(c, p)
  BY <1>2, CmdSame
<1>7. \A p \in Options : ~In(Cmd(DO, p), ms)
  <2>1. \A p : Cmd(DO, p) # TypeAnswer
    BY Apart DEF TypeAnswer
  <2> QED
    BY <2>1, <1>5
<1>8. UsHeard(h, ms) /\ HimHeard(h, ms)
  BY <1>2, <1>6, <1>7, Verbs, UsStays, HimStays
<1>9. Honest(ms)
  BY <1>5, HonestIn
<1> QED
  BY <1>1, <1>5, <1>6, <1>8, <1>9, Verbs DEF Heard, Says

LEMMA HeardOther ==
    ASSUME HearTypes, HearOther
    PROVE  \E ms : Heard(ms)
<1>1. PICK h : h = toClient[1]
  OBVIOUS
<1>2. /\ h.Kind \in {"EvWont", "EvDont"} /\ h.Opt \notin Options
      /\ UNCHANGED us /\ UNCHANGED him /\ Answer(<< >>)
  BY <1>1 DEF HearOther
<1>3. \A c \in Commands : \A p \in Options : h # Cmd(c, p)
  BY <1>2, CmdSame
<1>4. \A d : Subneg(OptTTYPE, d).Kind = "EvSubneg"
  BY DEF Subneg
<1>5. UsHeard(h, << >>) /\ HimHeard(h, << >>)
  BY <1>2, <1>3, Verbs, InNone, UsStays, HimStays
<1>6. Honest(<< >>)
  BY InNone, FitNone, HonestIn
<1>7. h # Cmd(DO, OptNAWS) /\ h # Subneg(OptTTYPE, << TTYPESEND >>)
  BY <1>2, <1>3, <1>4, Verbs, OptionsDiffer
<1> QED
  BY <1>1, <1>2, <1>5, <1>6, <1>7, FitNone DEF Heard, Says

LEMMA HearIsHeard ==
    ASSUME HearTypes, Hear
    PROVE  \E ms : Heard(ms)
BY HeardDo, HeardDont, HeardWill, HeardWont, HeardSubneg, HeardOther DEF Hear

LEMMA HonestConcat ==
    ASSUME NEW q \in Seq(Event), NEW r \in Seq(Event), Honest(q), Honest(r)
    PROVE  Honest(q \o r)
<1>1. \A m : In(m, q) \/ In(m, r) => IsMessage(m) /\ (IsType(m) => m = TypeAnswer)
  BY Zenon DEF Honest, In
<1>2. \A m : In(m, q \o r) => In(m, q) \/ In(m, r)
  BY InConcat
<1>3. \A i \in DOMAIN (q \o r) : In((q \o r)[i], q \o r)
  BY Zenon DEF In
<1> QED
  BY <1>1, <1>2, <1>3, Zenon DEF Honest

LEMMA HonestTail ==
    ASSUME NEW q \in Seq(Event), q # << >>, Honest(q)
    PROVE  Honest(Tail(q)) /\ IsMessage(q[1]) /\ (IsType(q[1]) => q[1] = TypeAnswer)
<1>1. \A m : In(m, q) => IsMessage(m) /\ (IsType(m) => m = TypeAnswer)
  BY Zenon DEF Honest, In
<1>2. \A m : In(m, q) <=> m = q[1] \/ In(m, Tail(q))
  BY InTail
<1>3. \A i \in DOMAIN Tail(q) : In(Tail(q)[i], Tail(q))
  BY Zenon DEF In
<1>4. Honest(Tail(q))
  BY <1>1, <1>2, <1>3, Zenon DEF Honest
<1> QED
  BY <1>1, <1>2, <1>4

(* The client hears the next message of the preamble, or a later one.      *)
LEMMA AheadTail ==
    ASSUME toClient \in Seq(Event), toClient # << >>, toClient' = Tail(toClient),
           NEW k \in 1 .. 7, Ahead(k)
    PROVE  Ahead(IF k = 7 THEN 7 ELSE k + 1)'
<1>1. PICK q \in Seq(Event) : q = toClient
  OBVIOUS
<1>2. /\ Len(q) \in Nat \ {0} /\ DOMAIN q = 1 .. Len(q)
      /\ Tail(q) \in Seq(Event) /\ Len(Tail(q)) = Len(q) - 1
      /\ \A i \in 1 .. Len(q) - 1 : Tail(q)[i] = q[i + 1]
  BY <1>1, EmptySeq, LenProperties, HeadTailProperties
<1>3. PICK t \in Seq(Event) : t = Tail(q)
  BY <1>2
<1>4. DOMAIN t = 1 .. Len(t) /\ Len(t) = Len(q) - 1 /\ toClient' = t
  BY <1>1, <1>2, <1>3, LenProperties
<1>5. /\ Len(q) >= 7 - k
      /\ \A i \in 1 .. 7 - k : q[i] = Preamble[k + i - 1]
      /\ \A i \in DOMAIN q : i > 7 - k => q[i] \in Later
  BY <1>1 DEF Ahead
<1>6. CASE k = 7
  <2>1. \A i \in DOMAIN t : t[i] \in Later
    <3> TAKE i \in DOMAIN t
    <3>1. i + 1 \in DOMAIN q /\ i + 1 > 7 - k /\ t[i] = q[i + 1]
      BY <1>2, <1>3, <1>4, <1>6
    <3> QED
      BY <3>1, <1>5
  <2>2. Len(t) >= 7 - 7 /\ 1 .. 7 - 7 = {}
    BY <1>2, <1>4
  <2>3. (\E j \in {7} : Ahead(j))'
    BY <2>1, <2>2, <1>4 DEF Ahead
  <2> QED
    BY <2>3, <1>6
<1>7. CASE k < 7
  <2>1. PICK j \in 2 .. 7 : j = k + 1
    BY <1>7
  <2>2. Len(t) >= 7 - j
    BY <2>1, <1>2, <1>4, <1>5
  <2>3. ASSUME NEW i \in 1 .. 7 - j
        PROVE  t[i] = Preamble[j + i - 1]
    <3>1. i \in 1 .. Len(q) - 1 /\ i + 1 \in 1 .. 7 - k /\ k + (i + 1) - 1 = j + i - 1
      BY <2>1, <2>2, <1>2, <1>4, <1>5
    <3>2. t[i] = q[i + 1]
      BY <3>1, <1>2, <1>3
    <3>3. q[i + 1] = Preamble[k + (i + 1) - 1]
      BY <3>1, <1>5
    <3> QED
      BY <3>1, <3>2, <3>3
  <2>4. ASSUME NEW i \in DOMAIN t, i > 7 - j
        PROVE  t[i] \in Later
    <3>1. i \in 1 .. Len(q) - 1 /\ i + 1 \in DOMAIN q /\ i + 1 > 7 - k
      BY <2>1, <2>4, <1>2, <1>4
    <3> QED
      BY <3>1, <1>2, <1>3, <1>5
  <2>5. Ahead(j)'
    BY <2>2, <2>3, <2>4, <1>4 DEF Ahead
  <2> QED
    BY <2>1, <2>5, <1>7
<1> QED
  BY <1>6, <1>7

(* The server says something later. *)
LEMMA AheadLater ==
    ASSUME toClient \in Seq(Event), NEW r \in Seq(Event), toClient' = toClient \o r,
           \A m : In(m, r) => m \in Later, NEW k \in 1 .. 7, Ahead(k)
    PROVE  Ahead(k)'
<1>1. PICK q \in Seq(Event) : q = toClient
  OBVIOUS
<1>2. /\ q \o r \in Seq(Event) /\ Len(q \o r) = Len(q) + Len(r)
      /\ \A i \in 1 .. Len(q) + Len(r) : (q \o r)[i] =
            IF i <= Len(q) THEN q[i] ELSE r[i - Len(q)]
  BY ConcatProperties
<1>3. PICK s \in Seq(Event) : s = q \o r
  BY <1>2
<1>4. /\ Len(q) \in Nat /\ DOMAIN q = 1 .. Len(q) /\ Len(r) \in Nat
      /\ DOMAIN r = 1 .. Len(r) /\ DOMAIN s = 1 .. Len(q) + Len(r)
      /\ Len(s) = Len(q) + Len(r) /\ toClient' = s
  BY <1>1, <1>2, <1>3, LenProperties
<1>5. /\ Len(q) >= 7 - k
      /\ \A i \in 1 .. 7 - k : q[i] = Preamble[k + i - 1]
      /\ \A i \in DOMAIN q : i > 7 - k => q[i] \in Later
  BY <1>1 DEF Ahead
<1>6. Len(s) >= 7 - k
  BY <1>4, <1>5
<1>7. ASSUME NEW i \in 1 .. 7 - k
      PROVE  s[i] = Preamble[k + i - 1]
  <2>1. i \in 1 .. Len(q) + Len(r) /\ i <= Len(q)
    BY <1>4, <1>5
  <2> QED
    BY <2>1, <1>2, <1>3, <1>5
<1>8. ASSUME NEW i \in DOMAIN s, i > 7 - k
      PROVE  s[i] \in Later
  <2>1. CASE i <= Len(q)
    <3>1. i \in DOMAIN q /\ s[i] = q[i]
      BY <2>1, <1>2, <1>3, <1>4
    <3> QED
      BY <3>1, <1>5, <1>8
  <2>2. CASE ~(i <= Len(q))
    <3>1. i - Len(q) \in DOMAIN r /\ s[i] = r[i - Len(q)]
      BY <2>2, <1>2, <1>3, <1>4
    <3>2. In(s[i], r)
      BY <3>1 DEF In
    <3> QED
      BY <3>2
  <2> QED
    BY <2>1, <2>2
<1> QED
  BY <1>4, <1>6, <1>7, <1>8 DEF Ahead

(* A step that neither says nor hears anything. *)
LEMMA AheadStays ==
    ASSUME UNCHANGED toClient, NEW k \in 1 .. 7, Ahead(k)
    PROVE  Ahead(k)'
BY Zenon DEF Ahead

-----------------------------------------------------------------------------
(* The four kinds of steps.  The client hears a message.                   *)

NTypes ==
    /\ HearTypes /\ toClient \in Seq(Event) /\ pending \in Seq(Event)
    /\ announced \in Windows \cup {<< >>} /\ policy \in Policy

LEMMA HearOrdered ==
    ASSUME NTypes, NInv, NEW ms \in Seq(Event), Heard(ms), pending' = pending \o ms,
           toClient # << >>, toClient' = Tail(toClient), UNCHANGED client, UNCHANGED policy
    PROVE  Ordered'
<1>1. PICK k \in 1 .. 7 : Ahead(k) /\ Progress(k)
  BY DEF NInv, Ordered
<1>2. PICK h : h = toClient[1]
  OBVIOUS
<1>3. k < 7 => h = Preamble[k]
  BY <1>1, <1>2, HeadIs DEF NTypes
<1>4. UsHeard(h, ms) /\ Says(h, ms) /\ Answer(ms)
  BY <1>2 DEF Heard
<1>5. PICK j \in 1 .. 7 : j = IF k = 7 THEN 7 ELSE k + 1
  <2>1. (IF k = 7 THEN 7 ELSE k + 1) \in 1 .. 7
    OBVIOUS
  <2> QED
    BY <2>1
<1>6. Ahead(j)'
  BY <1>1, <1>5, AheadTail DEF NTypes
<1>7. j <= 3 => us'[OptNAWS] # "yes"
  <2>1. SUFFICES ASSUME j <= 3 PROVE us'[OptNAWS] # "yes"
    OBVIOUS
  <2>2. k \in {1, 2} /\ us[OptNAWS] # "yes"
    BY <2>1, <1>1, <1>5 DEF Progress
  <2>3. h # Cmd(DO, OptNAWS)
    BY <2>2, <1>3, PreambleIs, Apart
  <2> QED
    BY <2>2, <2>3, <1>4, OptionsDiffer DEF UsHeard
<1>8. j > 3 /\ OptNAWS \in client'.us => announced' # << >>
  <2>1. SUFFICES ASSUME j > 3, OptNAWS \in client.us PROVE announced' # << >>
    OBVIOUS
  <2>2. CASE k > 3
    <3>1. announced # << >>
      BY <2>1, <2>2, <1>1 DEF Progress
    <3>2. announced' = window \/ announced' = announced
      BY <1>4 DEF Answer, Announce
    <3> QED
      BY <3>1, <3>2, WindowType DEF NTypes, HearTypes
  <2>3. CASE ~(k > 3)
    <3>1. k = 3 /\ us[OptNAWS] # "yes"
      BY <2>1, <2>3, <1>1, <1>5 DEF Progress
    <3>2. h = Cmd(DO, OptNAWS)
      BY <3>1, <1>3, PreambleIs
    <3> QED
      BY <3>1, <3>2, <2>1, <1>4 DEF Says
  <2> QED
    BY <2>2, <2>3
<1>9. j = 6 /\ OptTTYPE \in client'.us => us'[OptTTYPE] = "yes"
  <2>1. SUFFICES ASSUME j = 6, OptTTYPE \in client.us PROVE us'[OptTTYPE] = "yes"
    OBVIOUS
  <2>2. k = 5
    BY <2>1, <1>5
  <2>3. h = Cmd(DO, OptTTYPE)
    BY <2>2, <1>3, PreambleIs
  <2> QED
    BY <2>1, <2>3, <1>4, OptionsDiffer DEF UsHeard
<1>10. j = 7 /\ OptTTYPE \in client'.us =>
          policy'.TermType = TermName \/ In(TypeAnswer, pending')
  <2>1. SUFFICES ASSUME j = 7, OptTTYPE \in client.us
                 PROVE  policy.TermType = TermName \/ In(TypeAnswer, pending')
    OBVIOUS
  <2>2. In(TypeAnswer, pending) \/ In(TypeAnswer, ms) => In(TypeAnswer, pending')
    BY InConcat DEF NTypes
  <2>3. CASE k = 7
    BY <2>1, <2>2, <2>3, <1>1 DEF Progress
  <2>4. CASE k # 7
    <3>1. k = 6
      BY <2>1, <2>4, <1>5
    <3>2. h = Subneg(OptTTYPE, << TTYPESEND >>) /\ us[OptTTYPE] = "yes"
      BY <3>1, <2>1, <1>1, <1>3, PreambleIs DEF Progress
    <3> QED
      BY <3>2, <2>2, <1>4 DEF Says
  <2> QED
    BY <2>3, <2>4
<1>11. Progress(j)'
  BY <1>7, <1>8, <1>9, <1>10 DEF Progress
<1> QED
  BY <1>6, <1>11 DEF Ordered

LEMMA HearNegotiates ==
    ASSUME NTypes, NInv, Hear
    PROVE  NInv'
<1>1. PICK ms : Heard(ms)
  BY HearIsHeard DEF NTypes
<1>2. PICK h : h = toClient[1]
  OBVIOUS
<1>3. /\ toClient # << >> /\ toClient' = Tail(toClient) /\ UNCHANGED client
      /\ UNCHANGED policy /\ UNCHANGED leaked
  BY DEF Hear, readVars, doorVars
<1>4. ms \in Seq(Event) /\ pending' = pending \o ms
  BY <1>1 DEF Heard, Fit, ClientMessages, Answer, Send
<1>5. UsHeard(h, ms) /\ HimHeard(h, ms) /\ Says(h, ms)
  BY <1>1, <1>2 DEF Heard
<1>6. \A m : In(m, toClient) <=> m = h \/ In(m, toClient')
  BY <1>2, <1>3, InTail DEF NTypes
<1>7. \A m : In(m, pending') <=> In(m, pending) \/ In(m, ms)
  BY <1>4, InConcat DEF NTypes
<1>8. \A p \in Options : us[p] \in {"no", "want", "yes"} /\ him[p] \in {"no", "want", "yes"}
  BY DEF NTypes, HearTypes, Answers
<1>9. h # Cmd(WONT, OptSGA) /\ h # Cmd(DONT, OptSGA)
  BY <1>2, <1>3, HeadIs DEF NInv, NTypes, Ordered
<1>10. Ordered'
  BY <1>1, <1>3, <1>4, HearOrdered
<1>11. Honest(pending')
  BY <1>4, <1>5, HonestConcat DEF NInv, NTypes, Says
<1>12. NoEcho'
  <2>1. OptEcho \in Options
    BY OptionsDiffer
  <2> QED
    BY <2>1, <1>5, <1>6, <1>7 DEF NInv, NoEcho, HimHeard
<1>13. ASSUME NEW o \in Options \ {OptSGA}
       PROVE  Refused(o)'
  BY <1>5, <1>6, <1>7 DEF NInv, Refused, UsHeard
<1>14. ASSUME NEW o \in Agreed
       PROVE  Lent(o)'
  <2>1. o \in Options /\ Lent(o)
    BY OptionsDiffer DEF Agreed, NInv
  <2>2. Asks(client, DO, o)' <=> Asks(client, DO, o)
    BY <1>3, Zenon DEF Asks
  <2> QED
    BY <2>1, <2>2, <1>3, <1>5, <1>6, <1>7 DEF Lent, HimHeard
<1>15. Suppressed'
  <2>1. OptSGA \in Options /\ Suppressed
    BY OptionsDiffer DEF NInv
  <2>2. us'[OptSGA] = "want" =>
          In(Cmd(WILL, OptSGA), pending') \/ In(Cmd(DO, OptSGA), toClient')
    BY <2>1, <1>5, <1>6, <1>7 DEF Suppressed, UsHeard
  <2>3. him'[OptSGA] = "want" => In(Cmd(WILL, OptSGA), toClient')
    BY <2>1, <1>5, <1>6 DEF Suppressed, HimHeard
  <2>4. OptSGA \in client.him => him'[OptSGA] = "yes" \/ In(Cmd(WILL, OptSGA), toClient')
    BY <2>1, <1>5, <1>6, <1>9 DEF Suppressed, HimHeard
  <2>5. ASSUME OptSGA \in client.him, OptSGA \in client.us
        PROVE  \/ us'[OptSGA] = "yes"
               \/ In(Cmd(DO, OptSGA), toClient')
               \/ In(Cmd(DO, OptSGA), pending') \/ In(Cmd(WILL, OptSGA), pending')
               \/ In(Cmd(WILL, OptSGA), toClient') /\ him'[OptSGA] = "no"
    <3>1. CASE us[OptSGA] = "yes"
      BY <3>1, <2>1, <1>5, <1>9 DEF UsHeard
    <3>2. CASE In(Cmd(DO, OptSGA), toClient)
      BY <3>2, <2>1, <2>5, <1>5, <1>6 DEF UsHeard
    <3>3. CASE In(Cmd(DO, OptSGA), pending) \/ In(Cmd(WILL, OptSGA), pending)
      BY <3>3, <1>7
    <3>4. CASE In(Cmd(WILL, OptSGA), toClient) /\ him[OptSGA] = "no"
      <4>1. CASE h = Cmd(WILL, OptSGA)
        BY <4>1, <3>4, <2>1, <2>5, <1>5, <1>7 DEF HimHeard
      <4>2. CASE h # Cmd(WILL, OptSGA)
        BY <4>2, <3>4, <2>1, <1>5, <1>6 DEF HimHeard
      <4> QED
        BY <4>1, <4>2
    <3> QED
      BY <3>1, <3>2, <3>3, <3>4, <2>1, <2>5 DEF Suppressed
  <2> QED
    BY <2>2, <2>3, <2>4, <2>5, <1>3 DEF Suppressed
<1> QED
  BY <1>10, <1>11, <1>12, <1>13, <1>14, <1>15 DEF NInv

(* What the policy answers to a message, of the client's or of the door's. *)
LEMMA ReplyIs ==
    ASSUME NEW ev, IsMessage(ev)
    PROVE  /\ Reply(ev) \in Seq(Event)
           /\ \A m : In(m, Reply(ev)) => m \in Later
           /\ \A o \in Options \ {OptSGA} : ev = Cmd(WILL, o) => In(Cmd(DONT, o), Reply(ev))
           /\ ev \in {Cmd(WILL, OptSGA), Cmd(DO, OptSGA)} => In(Cmd(DO, OptSGA), Reply(ev))
           /\ ev = Cmd(DO, OptEcho) => In(Cmd(WONT, OptEcho), Reply(ev))
           /\ \A o \in Agreed : In(Cmd(WILL, o), Reply(ev)) <=> ev = Cmd(DO, o)
<1>1. ev \in Event /\ ev.Opt \in Byte
  BY DEF IsMessage, Event
<1>2. Reply(ev) \in Seq(Event)
  BY <1>1, ReplyType
<1>3. PICK o \in Byte : o = ev.Opt
  BY <1>1
<1>4. PICK r \in Seq(Event) : r = Reply(ev)
  BY <1>2
<1>5. /\ Cmd(DO, OptSGA) \in Event /\ Cmd(DONT, o) \in Event /\ Cmd(WILL, o) \in Event
      /\ Cmd(WONT, o) \in Event
  BY CmdType, OptionsDiffer, Verbs
<1>6. /\ \A p : Cmd(WILL, p).Kind = "EvWill" /\ Cmd(DO, p).Kind = "EvDo"
      /\ \A p : Cmd(WILL, p).Data = << >> /\ Cmd(DO, p).Data = << >>
      /\ \A p : Cmd(WILL, p).Opt = p /\ Cmd(DO, p).Opt = p
  <2>1. kindForCmd(WILL) = "EvWill" /\ kindForCmd(DO) = "EvDo"
    BY DEF kindForCmd, WILL, DO, WONT, DONT
  <2> QED
    BY <2>1 DEF Cmd
<1>7. OptSGA \notin Agreed /\ OptEcho \notin Agreed /\ OptEcho # OptSGA
      /\ Agreed = {OptBinary, OptNAWS, OptTTYPE}
  BY OptionsDiffer DEF Agreed
<1>8. CASE ev.Kind = "EvWill"
  <2>1. ev = Cmd(WILL, o)
    <3>1. ev.Data = << >> /\ ev.Opt = o /\ ev \in Event
      BY <1>3, <1>8 DEF IsMessage
    <3>2. Cmd(WILL, o) = [Kind |-> "EvWill", Opt |-> o, Data |-> << >>]
      BY <1>6 DEF Cmd
    <3> QED
      BY <3>1, <3>2, <1>8 DEF Event
  <2>2. \A p : ev # Cmd(DO, p)
    BY <2>1, Apart
  <2>3. CASE o = OptSGA
    <3>1. r = << Cmd(DO, OptSGA) >>
      BY <2>3, <1>3, <1>4, <1>8 DEF Reply
    <3>2. \A m : In(m, r) <=> m = Cmd(DO, OptSGA)
      BY <3>1, <1>5, InOne
    <3>3. Cmd(DO, OptSGA) \in Later
      BY DEF Later
    <3> QED
      BY <3>2, <3>3, <2>1, <2>2, <2>3, <1>4, Apart
  <2>4. CASE o # OptSGA
    <3>1. r = << Cmd(DONT, o) >>
      BY <2>4, <1>3, <1>4, <1>8 DEF Reply
    <3>2. \A m : In(m, r) <=> m = Cmd(DONT, o)
      BY <3>1, <1>5, InOne
    <3>3. Cmd(DONT, o) \in Later
      BY <2>4 DEF Later
    <3> QED
      BY <3>2, <3>3, <2>1, <2>2, <2>4, <1>4, Apart
  <2> QED
    BY <2>3, <2>4
<1>9. CASE ev.Kind = "EvDo"
  <2>1. ev = Cmd(DO, o)
    <3>1. ev.Data = << >> /\ ev.Opt = o /\ ev \in Event
      BY <1>3, <1>9 DEF IsMessage
    <3>2. Cmd(DO, o) = [Kind |-> "EvDo", Opt |-> o, Data |-> << >>]
      BY <1>6 DEF Cmd
    <3> QED
      BY <3>1, <3>2, <1>9 DEF Event
  <2>2. \A p : ev # Cmd(WILL, p)
    BY <2>1, Apart
  <2>3. CASE o = OptSGA
    <3>1. r = << Cmd(DO, OptSGA) >>
      BY <2>3, <1>3, <1>4, <1>9 DEF Reply
    <3>2. \A m : In(m, r) <=> m = Cmd(DO, OptSGA)
      BY <3>1, <1>5, InOne
    <3>3. Cmd(DO, OptSGA) \in Later
      BY DEF Later
    <3> QED
      BY <3>2, <3>3, <2>1, <2>2, <2>3, <1>4, <1>7, Apart
  <2>4. CASE o \in Agreed
    <3>1. r = << Cmd(WILL, o) >>
      BY <2>4, <1>3, <1>4, <1>7, <1>9 DEF Reply
    <3>2. \A m : In(m, r) <=> m = Cmd(WILL, o)
      BY <3>1, <1>5, InOne
    <3>3. Cmd(WILL, o) \in Later
      BY <2>4 DEF Later
    <3> QED
      BY <3>2, <3>3, <2>1, <2>2, <2>4, <1>4, <1>7, Apart
  <2>5. CASE o # OptSGA /\ o \notin Agreed
    <3>1. r = << Cmd(WONT, o) >>
      BY <2>5, <1>3, <1>4, <1>7, <1>9 DEF Reply
    <3>2. \A m : In(m, r) <=> m = Cmd(WONT, o)
      BY <3>1, <1>5, InOne
    <3>3. Cmd(WONT, o) \in Later
      BY <2>5 DEF Later
    <3> QED
      BY <3>2, <3>3, <2>1, <2>2, <2>5, <1>4, <1>7, Apart
  <2> QED
    BY <2>3, <2>4, <2>5
<1>10. CASE ev.Kind \notin {"EvWill", "EvDo"}
  <2>1. \A p : ev # Cmd(WILL, p) /\ ev # Cmd(DO, p)
    BY <1>6, <1>10
  <2>2. r = << Subneg(OptTTYPE, ANSI) >> \/ r = << >>
    BY <1>4, <1>10 DEF Reply
  <2>3. Subneg(OptTTYPE, ANSI) \in Event
    <3>1. ANSI \in Seq(Byte)
      BY DEF ANSI, Byte, TTYPEIS
    <3> QED
      BY <3>1, SubnegType, OptionsDiffer
  <2>4. \A m : In(m, r) => m = Subneg(OptTTYPE, ANSI)
    BY <2>2, <2>3, InOne, InNone
  <2>5. Subneg(OptTTYPE, ANSI) \in Later
    BY DEF Later
  <2>6. \A p : ~In(Cmd(WILL, p), r)
    BY <2>4, Apart
  <2> QED
    BY <2>1, <2>4, <2>5, <2>6, <1>4
<1> QED
  BY <1>8, <1>9, <1>10

(* What the policy learns of the client's terminal. *)
LEMMA TypeLearnt ==
    ASSUME NEW p \in Policy, NEW ev \in Event, IsType(ev) => ev = TypeAnswer
    PROVE  /\ IsType(ev) => Learn(p, ev).TermType = TermName
           /\ ~IsType(ev) => Learn(p, ev).TermType = p.TermType
<1>1. << TTYPEIS >> \in Seq(Byte) /\ TermName \in Seq(Byte) /\ TermName # << >>
  BY TelnetAssumption DEF TTYPEIS, Byte
<1>2. PICK s \in Seq(Byte) : s = << TTYPEIS >>
  BY <1>1
<1>3. /\ s \o TermName \in Seq(Byte) /\ Len(s \o TermName) = Len(s) + Len(TermName)
      /\ \A i \in 1 .. Len(s) + Len(TermName) : (s \o TermName)[i] =
            IF i <= Len(s) THEN s[i] ELSE TermName[i - Len(s)]
  BY <1>1, ConcatProperties
<1>4. PICK d \in Seq(Byte) : d = s \o TermName
  BY <1>3
<1>5. Len(s) = 1 /\ s[1] = TTYPEIS
  BY <1>2
<1>6. Len(TermName) \in Nat \ {0} /\ DOMAIN TermName = 1 .. Len(TermName)
  BY <1>1, EmptySeq, LenProperties
<1>7. Len(d) = 1 + Len(TermName) /\ Len(d) > 1 /\ d[1] = TTYPEIS /\ d # << >>
      /\ \A i \in 1 .. Len(TermName) : d[i + 1] = TermName[i]
  BY <1>3, <1>4, <1>5, <1>6
<1>8. /\ Tail(d) \in Seq(Byte) /\ Len(Tail(d)) = Len(d) - 1
      /\ \A i \in 1 .. Len(d) - 1 : Tail(d)[i] = d[i + 1]
  BY <1>7, HeadTailProperties
<1>9. Tail(d) = TermName
  <2>1. PICK t \in Seq(Byte) : t = Tail(d)
    BY <1>8
  <2>2. Len(t) = Len(TermName) /\ \A i \in 1 .. Len(t) : t[i] = TermName[i]
    BY <2>1, <1>6, <1>7, <1>8
  <2>3. t = TermName
    BY <2>2, <1>1, SeqEqual
  <2> QED
    BY <2>1, <2>3
<1>10. ASSUME IsType(ev)
       PROVE  Learn(p, ev).TermType = TermName
  <2>1. ev.Data = d /\ ev.Kind = "EvSubneg" /\ ev.Opt = OptTTYPE
    BY <1>2, <1>4, <1>10 DEF TypeAnswer, Subneg, IsType
  <2>2. Learn(p, ev) = [p EXCEPT !.TermType = Tail(d)]
    BY <2>1, <1>7, OptionsDiffer DEF Learn
  <2> QED
    BY <2>2, <1>9 DEF Policy
<1>11. ASSUME ~IsType(ev)
       PROVE  Learn(p, ev).TermType = p.TermType
  BY <1>11 DEF Learn, Policy, IsType
<1> QED
  BY <1>10, <1>11

(* The server handles a message of the client. *)
LEMMA HandleNegotiates ==
    ASSUME NTypes, NInv, pending # << >>, policy' = Learn(policy, pending[1]),
           toClient' = toClient \o Reply(pending[1]), pending' = Tail(pending),
           UNCHANGED client, UNCHANGED us, UNCHANGED him, UNCHANGED announced,
           UNCHANGED leaked
    PROVE  NInv'
<1>1. PICK e : e = pending[1]
  OBVIOUS
<1>2. PICK r : r = Reply(e)
  OBVIOUS
<1>3. /\ Honest(pending') /\ IsMessage(e) /\ e \in Event
      /\ IsType(e) => e = TypeAnswer
  BY <1>1, HonestTail DEF NInv, NTypes, IsMessage
<1>4. /\ r \in Seq(Event)
      /\ \A m : In(m, r) => m \in Later
      /\ \A o \in Options \ {OptSGA} : e = Cmd(WILL, o) => In(Cmd(DONT, o), r)
      /\ e \in {Cmd(WILL, OptSGA), Cmd(DO, OptSGA)} => In(Cmd(DO, OptSGA), r)
      /\ e = Cmd(DO, OptEcho) => In(Cmd(WONT, OptEcho), r)
      /\ \A o \in Agreed : In(Cmd(WILL, o), r) <=> e = Cmd(DO, o)
  BY <1>2, <1>3, ReplyIs
<1>5. toClient' = toClient \o r
  BY <1>1, <1>2
<1>6. \A m : In(m, pending) <=> m = e \/ In(m, pending')
  BY <1>1, InTail DEF NTypes
<1>7. \A m : In(m, toClient') <=> In(m, toClient) \/ In(m, r)
  BY <1>4, <1>5, InConcat DEF NTypes
<1>8. Ordered'
  <2>1. PICK k \in 1 .. 7 : Ahead(k) /\ Progress(k)
    BY DEF NInv, Ordered
  <2>2. Ahead(k)'
    BY <2>1, <1>4, <1>5, AheadLater DEF NTypes
  <2>3. ASSUME policy.TermType = TermName \/ In(TypeAnswer, pending)
        PROVE  policy'.TermType = TermName \/ In(TypeAnswer, pending')
    <3>1. /\ IsType(e) => policy'.TermType = TermName
          /\ ~IsType(e) => policy'.TermType = policy.TermType
      BY <1>1, <1>3, TypeLearnt DEF NTypes
    <3> QED
      BY <3>1, <2>3, <1>6, TypeAnswerType
  <2>4. Progress(k)'
    BY <2>1, <2>3 DEF Progress
  <2> QED
    BY <2>2, <2>4 DEF Ordered
<1>9. NoEcho'
  BY <1>4, <1>6, <1>7 DEF NInv, NoEcho
<1>10. ASSUME NEW o \in Options \ {OptSGA}
       PROVE  Refused(o)'
  BY <1>4, <1>6, <1>7 DEF NInv, Refused
<1>11. ASSUME NEW o \in Agreed
       PROVE  Lent(o)'
  <2>1. Asks(client, DO, o)' <=> Asks(client, DO, o)
    BY Zenon DEF Asks
  <2> QED
    BY <2>1, <1>4, <1>6, <1>7 DEF NInv, Lent
<1>12. Suppressed'
  BY <1>4, <1>6, <1>7 DEF NInv, Suppressed
<1> QED
  BY <1>3, <1>8, <1>9, <1>10, <1>11, <1>12 DEF NInv

(* The pump sends the client an answer to a command of the door. *)
LEMMA PumpNegotiates ==
    ASSUME NTypes, NInv, NEW ev, IsMessage(ev), PumpCommand(ev),
           UNCHANGED client, UNCHANGED us, UNCHANGED him, UNCHANGED announced,
           UNCHANGED policy, UNCHANGED pending
    PROVE  NInv'
<1>1. PICK r : r = Reply(ev)
  OBVIOUS
<1>2. /\ r \in Seq(Event)
      /\ \A m : In(m, r) => m \in Later
  BY <1>1, ReplyIs
<1>3. /\ toClient' = toClient \o r
      /\ leaked' = leaked \cup {x.Opt : x \in {r[i] : i \in DOMAIN r}}
  BY <1>1 DEF PumpCommand
<1>4. \A m : In(m, toClient') <=> In(m, toClient) \/ In(m, r)
  BY <1>2, <1>3, InConcat DEF NTypes
<1>5. \A o : In(Cmd(WILL, o), r) => o \in leaked'
  <2>1. \A o : Cmd(WILL, o).Opt = o
    BY DEF Cmd
  <2> QED
    BY <2>1, <1>3 DEF In
<1>6. leaked \subseteq leaked'
  BY <1>3
<1>7. Ordered'
  <2>1. PICK k \in 1 .. 7 : Ahead(k) /\ Progress(k)
    BY DEF NInv, Ordered
  <2>2. Ahead(k)'
    BY <2>1, <1>2, <1>3, AheadLater DEF NTypes
  <2>3. Progress(k)'
    BY <2>1 DEF Progress
  <2> QED
    BY <2>2, <2>3 DEF Ordered
<1>8. NoEcho'
  BY <1>4 DEF NInv, NoEcho
<1>9. ASSUME NEW o \in Options \ {OptSGA}
      PROVE  Refused(o)'
  BY <1>4 DEF NInv, Refused
<1>10. ASSUME NEW o \in Agreed
       PROVE  Lent(o)'
  <2>1. Asks(client, DO, o)' <=> Asks(client, DO, o)
    BY Zenon DEF Asks
  <2> QED
    BY <2>1, <1>4, <1>5, <1>6 DEF NInv, Lent
<1>11. Suppressed'
  BY <1>4 DEF NInv, Suppressed
<1>12. Honest(pending')
  BY DEF NInv
<1> QED
  BY <1>7, <1>8, <1>9, <1>10, <1>11, <1>12 DEF NInv

(* The client speaks of its own accord, or nobody says anything. *)
LEMMA SaysNegotiates ==
    ASSUME NTypes, NInv, NEW ms \in Seq(Event), Honest(ms), pending' = pending \o ms,
           \A o : ~In(Cmd(DO, o), ms),
           announced' = announced \/ announced' # << >>,
           UNCHANGED toClient, UNCHANGED client, UNCHANGED us, UNCHANGED him,
           UNCHANGED policy, UNCHANGED leaked
    PROVE  NInv'
<1>1. \A m : In(m, pending') <=> In(m, pending) \/ In(m, ms)
  BY InConcat DEF NTypes
<1>2. Ordered'
  <2>1. PICK k \in 1 .. 7 : Ahead(k) /\ Progress(k)
    BY DEF NInv, Ordered
  <2>2. Ahead(k)'
    BY <2>1, AheadStays
  <2>3. Progress(k)'
    BY <2>1, <1>1 DEF Progress
  <2> QED
    BY <2>2, <2>3 DEF Ordered
<1>3. NoEcho'
  BY <1>1 DEF NInv, NoEcho
<1>4. ASSUME NEW o \in Options \ {OptSGA}
      PROVE  Refused(o)'
  BY <1>1 DEF NInv, Refused
<1>5. ASSUME NEW o \in Agreed
      PROVE  Lent(o)'
  <2>1. Asks(client, DO, o)' <=> Asks(client, DO, o)
    BY Zenon DEF Asks
  <2> QED
    BY <2>1, <1>1 DEF NInv, Lent
<1>6. Suppressed'
  BY <1>1 DEF NInv, Suppressed
<1>7. Honest(pending')
  BY HonestConcat DEF NInv, NTypes
<1> QED
  BY <1>2, <1>3, <1>4, <1>5, <1>6, <1>7 DEF NInv

LEMMA NobodySays ==
    ASSUME NTypes, NInv, UNCHANGED pending, UNCHANGED announced,
           UNCHANGED toClient, UNCHANGED client, UNCHANGED us, UNCHANGED him,
           UNCHANGED policy, UNCHANGED leaked
    PROVE  NInv'
<1>1. Ordered'
  BY Zenon DEF NInv, Ordered, Ahead, Progress
<1>2. Suppressed' /\ NoEcho' /\ Honest(pending')
  BY Zenon DEF NInv, Suppressed, NoEcho
<1>3. \A o \in Options \ {OptSGA} : Refused(o)'
  BY Zenon DEF NInv, Refused
<1>4. \A o \in Agreed : Lent(o)'
  BY Zenon DEF NInv, Lent, Asks
<1> QED
  BY <1>1, <1>2, <1>3, <1>4 DEF NInv

-----------------------------------------------------------------------------
(* The negotiation's invariant, on top of IInv. *)

LEMMA NTypesHold == IInv => NTypes
BY DEF IInv, NTypes, HearTypes, StreamTypes, RestTypes

LEMMA InitNInv == Init => NInv
<1> SUFFICES ASSUME Init PROVE NInv
  OBVIOUS
<1>1. /\ client \in Client /\ client.us \in SUBSET Options /\ client.him \in SUBSET Options
      /\ \A i \in DOMAIN client.asks : client.asks[i] \in
             {Cmd(WILL, o) : o \in client.us} \cup {Cmd(DO, o) : o \in client.him}
  BY TelnetAssumption DEF Init, Client
<1>2. /\ pending = client.asks /\ toClient = Preamble
      /\ us = [o \in Options |-> IF Asks(client, WILL, o) THEN "want" ELSE "no"]
      /\ him = [o \in Options |-> IF Asks(client, DO, o) THEN "want" ELSE "no"]
  BY DEF Init
<1>3. \A c, o : Asks(client, c, o) <=> In(Cmd(c, o), pending)
  BY <1>2, Zenon DEF Asks, In
<1>4. /\ In(Cmd(WILL, OptSGA), toClient)
      /\ \A o \in Agreed : ~In(Cmd(WILL, o), toClient)
  <2>1. 2 \in DOMAIN toClient /\ toClient[2] = Cmd(WILL, OptSGA)
    BY <1>2, PreambleIs
  <2>2. ASSUME NEW o \in Agreed, NEW i \in 1 .. 6
        PROVE  Preamble[i] # Cmd(WILL, o)
    <3>1. o # OptEcho /\ o # OptSGA
      BY OptionsDiffer DEF Agreed
    <3>2. i \in {1, 2, 3, 4, 5, 6}
      OBVIOUS
    <3> QED
      BY <3>1, <3>2, PreambleIs, Apart
  <2>3. DOMAIN toClient = 1 .. 6
    BY <1>2, PreambleIs
  <2>4. In(Cmd(WILL, OptSGA), toClient)
    BY <2>1 DEF In
  <2>5. \A o \in Agreed : ~In(Cmd(WILL, o), toClient)
    BY <2>2, <2>3, <1>2 DEF In
  <2> QED
    BY <2>4, <2>5
<1>5. Ordered
  <2>1. Ahead(1)
    <3>1. \A i \in 1 .. 7 - 1 : 1 + i - 1 = i
      OBVIOUS
    <3>2. \A i \in DOMAIN toClient : ~(i > 7 - 1)
      BY <1>2, PreambleIs
    <3> QED
      BY <3>1, <3>2, <1>2, PreambleIs DEF Ahead
  <2>2. Progress(1)
    BY <1>2, OptionsDiffer DEF Progress
  <2> QED
    BY <2>1, <2>2 DEF Ordered
<1>6. Honest(pending)
  <2>1. ASSUME NEW i \in DOMAIN pending
        PROVE  IsMessage(pending[i]) /\ ~IsType(pending[i])
    <3>1. PICK c \in Commands, o \in Options : pending[i] = Cmd(c, o)
      BY <1>1, <1>2, Verbs
    <3> QED
      BY <3>1, NoType, CmdType, OptionsDiffer
  <2> QED
    BY <2>1 DEF Honest
<1>7. NoEcho
  BY <1>2, <1>3, OptionsDiffer DEF NoEcho
<1>8. Suppressed
  BY <1>2, <1>3, <1>4, OptionsDiffer DEF Suppressed
<1>9. ASSUME NEW o \in Options \ {OptSGA}
      PROVE  Refused(o)
  BY <1>2, <1>3 DEF Refused
<1>10. ASSUME NEW o \in Agreed
       PROVE  Lent(o)
  BY <1>2, <1>3, <1>4, OptionsDiffer DEF Lent, Agreed
<1> QED
  BY <1>5, <1>6, <1>7, <1>8, <1>9, <1>10 DEF NInv

(* What the pump sends to the client answers a message of the door. *)
LEMMA PumpAnswers ==
    ASSUME DoorTypes, DoorOK, RemotePump
    PROVE  \/ UNCHANGED toClient /\ UNCHANGED leaked
           \/ \E m : IsMessage(m) /\ PumpCommand(m)
<1>1. PICK m : IsMessage(m) /\ Agrees(remote, m, doorWire)
  BY DEF RemotePump, DoorOK
<1>2. PICK r : r = doorWire
  OBVIOUS
<1>3. PICK p \in Parser : p = remote
  BY DEF DoorTypes
<1>4. Parsed(p, m, r)
  BY <1>1, <1>2, <1>3, ParseStep
<1>5. PICK evs : evs = Events(p, NextByte(r))
  OBVIOUS
<1>6. evs = << >> \/ evs = << m >>
  BY <1>4, <1>5 DEF Parsed
<1>7. \/ UNCHANGED <<toClient, ack, screen, leaked>>
      \/ evs # << >> /\ (\E c : PumpPayload(c))
      \/ evs # << >> /\ PumpCommand(evs[1])
  BY <1>2, <1>3, <1>5 DEF RemotePump
<1>8. evs # << >> => evs[1] = m
  BY <1>6
<1>9. ASSUME NEW c, PumpPayload(c)
      PROVE  UNCHANGED toClient /\ UNCHANGED leaked
  BY <1>9 DEF PumpPayload
<1> QED
  BY <1>1, <1>7, <1>8, <1>9

LEMMA NextNInv == IInv /\ NInv /\ [Next]_vars => NInv'
<1> SUFFICES ASSUME IInv, NInv, [Next]_vars PROVE NInv'
  OBVIOUS
<1>. NTypes
  BY NTypesHold
<1>1. CASE Hear
  BY <1>1, HearNegotiates
<1>2. ASSUME NEW b \in Keys, Type(b)
      PROVE  NInv'
  <2>1. b \in Byte
    BY TelnetAssumption
  <2>2. Payload(b) \in Event /\ IsMessage(Payload(b)) /\ Payload(b).Kind = "EvData"
    BY <2>1, PayloadType DEF Payload
  <2>. << Payload(b) >> \in Seq(Event)
    BY <2>2
  <2>3. PICK ms \in Seq(Event) : ms = << Payload(b) >>
    OBVIOUS
  <2>4. \A m : In(m, ms) => m = Payload(b)
    BY <2>2, <2>3, InOne
  <2>5. Fit(ms)
    BY <2>2, <2>3, FitOne DEF IsNaws
  <2>6. Honest(ms)
    BY <2>2, <2>4, <2>5, HonestIn DEF IsType
  <2>7. \A o : ~In(Cmd(DO, o), ms)
    BY <2>2, <2>4, CmdSame, Verbs
  <2>8. /\ pending' = pending \o ms /\ UNCHANGED client /\ UNCHANGED us /\ UNCHANGED him
        /\ UNCHANGED announced /\ UNCHANGED toClient /\ UNCHANGED policy /\ UNCHANGED leaked
    BY <1>2, <2>3 DEF Type, Send, readVars, doorVars
  <2> QED
    BY <2>6, <2>7, <2>8, SaysNegotiates
<1>3. ASSUME NEW w \in Windows, Resize(w)
      PROVE  NInv'
  <2>1. /\ UNCHANGED client /\ UNCHANGED us /\ UNCHANGED him /\ UNCHANGED toClient
        /\ UNCHANGED policy /\ UNCHANGED leaked
        /\ \/ pending' = pending \o << Subneg(OptNAWS, w) >> /\ announced' = w
           \/ UNCHANGED pending /\ UNCHANGED announced
    BY <1>3 DEF Resize, Send, NoSend, readVars, doorVars
  <2>2. CASE pending' = pending \o << Subneg(OptNAWS, w) >> /\ announced' = w
    <3>1. Subneg(OptNAWS, w) \in Event /\ IsMessage(Subneg(OptNAWS, w)) /\ w # << >>
      BY WindowType
    <3>. << Subneg(OptNAWS, w) >> \in Seq(Event)
      BY <3>1
    <3>2. PICK ms \in Seq(Event) : ms = << Subneg(OptNAWS, w) >>
      OBVIOUS
    <3>3. \A m : In(m, ms) <=> m = Subneg(OptNAWS, w)
      BY <3>1, <3>2, InOne
    <3>4. Honest(ms)
      <4>1. \A i \in DOMAIN ms : In(ms[i], ms)
        BY Zenon DEF In
      <4> QED
        BY <4>1, <3>1, <3>3, NoType DEF Honest
    <3>5. \A o : ~In(Cmd(DO, o), ms)
      BY <3>3, Apart
    <3> QED
      BY <3>1, <3>2, <3>4, <3>5, <2>1, <2>2, SaysNegotiates
  <2>3. CASE UNCHANGED pending /\ UNCHANGED announced
    BY <2>1, <2>3, NobodySays
  <2> QED
    BY <2>1, <2>2, <2>3
<1>4. CASE DigestByte \/ EndChunk \/ applyDims \/ UNCHANGED vars
  <2>1. /\ UNCHANGED pending /\ UNCHANGED announced /\ UNCHANGED toClient
        /\ UNCHANGED client /\ UNCHANGED us /\ UNCHANGED him /\ UNCHANGED policy
        /\ UNCHANGED leaked
    BY <1>4 DEF DigestByte, EndChunk, applyDims, vars, clientVars, readVars, doorVars
  <2> QED
    BY <2>1, NobodySays
<1>5. CASE HandleEvent
  <2>1. /\ phase = "handle" /\ events # << >>
        /\ policy' = Learn(policy, events[1]) /\ toClient' = toClient \o Reply(events[1])
        /\ events' = Tail(events) /\ pending' = Tail(pending)
        /\ clientVars' = clientVars /\ UNCHANGED wire
        /\ UNCHANGED parser /\ doorVars' = doorVars
    BY <1>5 DEF HandleEvent
  <2>2. pending # << >> /\ pending[1] = events[1]
    BY <2>1, StreamHandle DEF IInv
  <2>3. UNCHANGED leaked
    BY <2>1 DEF doorVars
  <2> QED
    BY <2>1, <2>2, <2>3, Unchanged, HandleNegotiates
<1>6. CASE (\E m \in DoorMessages : DoorSends(m)) \/ EndDoorChunk
  <2>1. /\ UNCHANGED pending /\ UNCHANGED announced /\ UNCHANGED toClient
        /\ UNCHANGED client /\ UNCHANGED us /\ UNCHANGED him /\ UNCHANGED policy
        /\ UNCHANGED leaked
    BY <1>6 DEF DoorSends, EndDoorChunk, clientVars, readVars
  <2> QED
    BY <2>1, NobodySays
<1>7. CASE RemotePump
  <2>1. /\ UNCHANGED pending /\ UNCHANGED announced /\ UNCHANGED client
        /\ UNCHANGED us /\ UNCHANGED him /\ UNCHANGED policy
    BY <1>7 DEF RemotePump, clientVars, readVars
  <2>2. CASE UNCHANGED toClient /\ UNCHANGED leaked
    BY <2>1, <2>2, NobodySays
  <2>3. ASSUME NEW m, IsMessage(m), PumpCommand(m)
        PROVE  NInv'
    BY <2>1, <2>3, PumpNegotiates
  <2> QED
    BY <1>7, <2>2, <2>3, PumpAnswers DEF IInv
<1> QED
  BY <1>1, <1>2, <1>3, <1>4, <1>5, <1>6, <1>7 DEF Next, Idle

LEMMA NegotiationInvariance == Spec => [](IInv /\ NInv)
<1>1. Init => IInv /\ NInv
  BY InitIInv, InitNInv
<1>2. IInv /\ NInv /\ [Next]_vars => (IInv /\ NInv)'
  BY NextIInv, NextNInv
<1> QED
  BY <1>1, <1>2, PTL DEF Spec

-----------------------------------------------------------------------------
(* At rest nothing is on its way, and what NInv says of what has been      *)
(* settled by then is all that it says.                                    *)
AtRest ==
    /\ \A o \in Options :
          /\ him[o] = "yes" =>
                \/ o = OptSGA
                \/ o # OptEcho /\ (Asks(client, DO, o) \/ o \in leaked)
          /\ us[o] = "yes" => o = OptSGA
          /\ us[o] # "want" /\ him[o] # "want"
    /\ OptSGA \in client.him => him[OptSGA] = "yes"
    /\ OptSGA \in client.him /\ OptSGA \in client.us => us[OptSGA] = "yes"
    /\ OptTTYPE \in client.us => policy.TermType = TermName
    /\ OptNAWS \in client.us => announced # << >>

LEMMA RestOf ==
    ASSUME IInv, NInv, Quiet
    PROVE  AtRest
<1>1. toClient = << >> /\ pending = << >>
  BY QuietEmpty DEF Quiet
<1>2. \A m : ~In(m, toClient) /\ ~In(m, pending)
  BY <1>1, InNone
<1>3. us \in [Options -> Answers] /\ him \in [Options -> Answers]
  BY DEF IInv, HearTypes
<1>4. Progress(7)
  <2>1. PICK k \in 1 .. 7 : Ahead(k) /\ Progress(k)
    BY DEF NInv, Ordered
  <2>2. Len(toClient) = 0
    BY <1>1
  <2>3. k = 7
    BY <2>1, <2>2 DEF Ahead
  <2> QED
    BY <2>1, <2>3
<1>5. OptNAWS \in client.us => announced # << >>
  BY <1>4 DEF Progress
<1>6. OptTTYPE \in client.us => policy.TermType = TermName
  BY <1>2, <1>4 DEF Progress
<1>7. OptSGA \in client.him => him[OptSGA] = "yes"
  BY <1>2 DEF NInv, Suppressed
<1>8. OptSGA \in client.him /\ OptSGA \in client.us => us[OptSGA] = "yes"
  BY <1>2 DEF NInv, Suppressed
<1>9. ASSUME NEW o \in Options
      PROVE  /\ him[o] = "yes" =>
                   \/ o = OptSGA
                   \/ o # OptEcho /\ (Asks(client, DO, o) \/ o \in leaked)
             /\ us[o] = "yes" => o = OptSGA
             /\ us[o] # "want" /\ him[o] # "want"
  <2>1. CASE o = OptSGA
    BY <2>1, <1>2, OptionsDiffer DEF NInv, Suppressed
  <2>2. CASE o = OptEcho
    <3>1. him[o] = "no"
      BY <2>2, <1>2 DEF NInv, NoEcho
    <3>2. us[o] = "no"
      BY <2>2, <1>2, OptionsDiffer DEF NInv, Refused
    <3> QED
      BY <3>1, <3>2
  <2>3. CASE o \in Agreed
    <3>1. us[o] = "no" /\ o # OptEcho
      BY <2>3, <1>2, OptionsDiffer DEF NInv, Refused, Agreed
    <3>2. Lent(o)
      BY <2>3 DEF NInv
    <3> QED
      BY <3>1, <3>2, <1>2 DEF Lent
  <2> QED
    BY <2>1, <2>2, <2>3, OptionsDiffer DEF Agreed
<1> QED
  BY <1>5, <1>6, <1>7, <1>8, <1>9 DEF AtRest

LEMMA SGANotRequested == ~Requested(OptSGA)
<1>1. \A i \in 1 .. 6 : i \in {1, 2, 3, 4, 5, 6}
  OBVIOUS
<1>2. Preamble[6].Kind = "EvSubneg"
  BY PreambleIs DEF Subneg
<1>3. Cmd(DO, OptSGA).Kind # "EvSubneg"
  BY CmdSame, Verbs
<1>4. \A o : Cmd(WILL, o) # Cmd(DO, OptSGA)
  BY CmdSame, Verbs
<1>5. \A o : Cmd(DO, o) = Cmd(DO, OptSGA) => o = OptSGA
  BY CmdSame, Verbs
<1>6. ASSUME NEW i \in DOMAIN Preamble
      PROVE  Preamble[i] # Cmd(DO, OptSGA)
  <2>1. i \in {1, 2, 3, 4, 5, 6}
    BY <1>1, PreambleIs
  <2>2. Preamble[6] # Cmd(DO, OptSGA)
    BY <1>2, <1>3
  <2> QED
    BY <2>1, <2>2, <1>4, <1>5, PreambleIs, OptionsDiffer
<1> QED
  BY <1>6 DEF Requested

(* At rest the negotiation has left nothing open, for every client that    *)
(* follows RFC 1143, every order in which requests and answers cross, and  *)
(* whatever the door negotiates: the server performs nothing but what it   *)
(* offered, was asked for, or agreed with the door; the client performs    *)
(* nothing but what was requested; go-ahead is suppressed where it can be, *)
(* and type and window have been told (Policy.Handle).                     *)
THEOREM NegotiationSettled == Spec => []Outcome
<1>1. IInv /\ NInv => Outcome
  <2> SUFFICES ASSUME IInv, NInv, Quiet PROVE Outcome
    BY DEF Outcome
  <2>1. AtRest
    BY RestOf
  <2>2. Offered(OptSGA)
    BY PreambleIs DEF Offered
  <2>3. ASSUME NEW o \in Options
        PROVE  /\ us[o] # "want" /\ him[o] # "want"
               /\ us[o] = "yes" => o = OptSGA \/ Requested(o)
               /\ him[o] = "yes" => Offered(o) \/ Asks(client, DO, o) \/ o \in leaked
    BY <2>1, <2>2 DEF AtRest
  <2> QED
    BY <2>1, <2>3 DEF AtRest, Outcome
<1> QED
  BY <1>1, NegotiationInvariance, PTL

(* Why PreambleHolds is wrong of every client, and not only in some order  *)
(* of messages (server.go:157-158): at rest the server never echoes, and   *)
(* no client performs an option that the server requested (Policy.Handle   *)
(* answers DO ECHO with WONT and all offers but go-ahead with DONT).       *)
THEOREM RefusedAtRest ==
    Spec => [](Quiet => him[OptEcho] # "yes"
                        /\ \A o \in Options : Requested(o) => us[o] # "yes")
<1>1. ASSUME IInv, NInv, Quiet
      PROVE  /\ him[OptEcho] # "yes"
             /\ \A o \in Options : Requested(o) => us[o] # "yes"
  <2>1. AtRest
    BY <1>1, RestOf
  <2>2. OptEcho \in Options /\ OptEcho # OptSGA
    BY OptionsDiffer
  <2>3. ~Requested(OptSGA)
    BY SGANotRequested
  <2> QED
    BY <2>1, <2>2, <2>3 DEF AtRest
<1> QED
  BY <1>1, NegotiationInvariance, PTL
=============================================================================
