---------------------------- MODULE TelnetCodec ----------------------------
(***************************************************************************)
(* The telnet protocol as the BBS speaks it: the parser of telnet.go, the  *)
(* answers of Policy.Handle in telnet_policy.go, and the encoding that     *)
(* both directions use.  No state: Telnet.tla runs these operators.        *)
(*                                                                         *)
(* A message of either side is the event that its parser should make of    *)
(* it.  The parser flushes payload bytes in runs; here every payload byte  *)
(* is an event of its own, in the place of its run, and RunEnds says where *)
(* a run stops, for the one reader that treats runs as units (the door).   *)
(***************************************************************************)
EXTENDS Integers, Sequences

Byte == 0 .. 255

IAC  == 255
DONT == 254
DO   == 253
WONT == 252
WILL == 251
SB   == 250
SE   == 240

OptBinary == 0
OptEcho   == 1
OptSGA    == 3
OptTTYPE  == 24
OptNAWS   == 31

TTYPEIS   == 0
TTYPESEND == 1

Kinds == {"EvData", "EvWill", "EvWont", "EvDo", "EvDont", "EvSubneg"}
Event == [Kind : Kinds, Opt : Byte, Data : Seq(Byte)]

Commands == {DO, DONT, WILL, WONT}

kindForCmd(c) ==
    CASE c = WILL -> "EvWill"
      [] c = WONT -> "EvWont"
      [] c = DO   -> "EvDo"
      [] c = DONT -> "EvDont"
      [] OTHER    -> "EvData"

Payload(c)     == [Kind |-> "EvData", Opt |-> 0, Data |-> <<c>>]
Cmd(c, o)      == [Kind |-> kindForCmd(c), Opt |-> o, Data |-> <<>>]
Subneg(o, pay) == [Kind |-> "EvSubneg", Opt |-> o, Data |-> pay]

(* The events that are messages: one payload byte, a command, or a         *)
(* subnegotiation.  Option 0 has none, and to the parser 0 stands for an   *)
(* option byte that is still to come.                                      *)
IsMessage(m) ==
    /\ m \in Event
    /\ m.Kind = "EvData" => m = Payload(m.Data[1])
    /\ m.Kind \notin {"EvData", "EvSubneg"} => m.Data = << >>
    /\ m.Kind = "EvSubneg" => m.Opt # 0

-----------------------------------------------------------------------------
(* Encoding: a message as groups of bytes, one group per payload byte and  *)
(* one for each bracket around them.                                       *)

Doubled(c) == IF c = IAC THEN <<IAC, IAC>> ELSE <<c>>

Escaped(pay) == [i \in 1 .. Len(pay) |-> Doubled(pay[i])]

cmdOf(k) == CASE k = "EvWill" -> WILL
              [] k = "EvWont" -> WONT
              [] k = "EvDo"   -> DO
              [] OTHER        -> DONT

Encoded(m) ==
    CASE m.Kind = "EvData"   -> Escaped(m.Data)
      [] m.Kind = "EvSubneg" ->
            << <<IAC, SB, m.Opt>> >> \o Escaped(m.Data) \o << <<IAC, SE>> >>
      [] OTHER               -> << <<IAC, cmdOf(m.Kind), m.Opt>> >>

-----------------------------------------------------------------------------
(* The parser, one byte at a time.                                         *)

Parser == [st : {"stData", "stIAC", "stOpt", "stSB", "stSBIAC"},
           cmd : Byte, sbOpt : Byte, sb : Seq(Byte)]

NewParser == [st |-> "stData", cmd |-> 0, sbOpt |-> 0, sb |-> <<>>]

(* The parser after byte c. *)
Digest(p, c) ==
    CASE p.st = "stData" ->
            IF c = IAC THEN [p EXCEPT !.st = "stIAC"] ELSE p
      [] p.st = "stIAC" ->
            IF c \in Commands THEN [p EXCEPT !.st = "stOpt", !.cmd = c]
            ELSE IF c = SB
                 THEN [p EXCEPT !.st = "stSB", !.sbOpt = 0, !.sb = <<>>]
                 ELSE [p EXCEPT !.st = "stData"]
      [] p.st = "stOpt" -> [p EXCEPT !.st = "stData"]
      [] p.st = "stSB" ->
            IF p.sbOpt = 0 THEN [p EXCEPT !.sbOpt = c]
            ELSE IF c = IAC THEN [p EXCEPT !.st = "stSBIAC"]
                 ELSE [p EXCEPT !.sb = Append(@, c)]
      [] p.st = "stSBIAC" ->
            IF c = IAC THEN [p EXCEPT !.st = "stSB", !.sb = Append(@, IAC)]
            ELSE [p EXCEPT !.st = "stData"]

(* The events that byte c completes: none or one. *)
Events(p, c) ==
    CASE p.st = "stData" /\ c # IAC  -> <<Payload(c)>>
      [] p.st = "stIAC" /\ c = IAC   -> <<Payload(IAC)>>
      [] p.st = "stOpt"              -> <<Cmd(p.cmd, c)>>
      [] p.st = "stSBIAC" /\ c = SE  -> <<Subneg(p.sbOpt, p.sb)>>
      [] OTHER                       -> << >>

(* Byte c flushes the run of payload bytes before it. *)
RunEnds(p, c) == p.st = "stData" /\ c = IAC

-----------------------------------------------------------------------------
(* Policy.Handle.  Nothing in the program calls PasswordEcho, so           *)
(* passwordPrompt is always false and the branches under it are left out.  *)

Policy    == [Width : Nat, Height : Nat, TermType : Seq(Byte)]
NewPolicy == [Width |-> 0, Height |-> 0, TermType |-> <<>>]

(* The terminal type that the server claims for itself. *)
ANSI == <<TTYPEIS, 65, 78, 83, 73>>

(* Mutant: go-ahead is treated as any other offer of the client. *)
ReplyRefuses(ev) ==
    CASE ev.Kind = "EvDo" /\ ev.Opt = OptSGA -> <<Cmd(DO, OptSGA)>>
      [] ev.Kind = "EvDo"   -> <<Cmd(WONT, ev.Opt)>>
      [] ev.Kind = "EvWill" -> <<Cmd(DONT, ev.Opt)>>
      [] OTHER              -> << >>

(* Mutant: a refusal is answered with the request once more. *)
ReplyInsists(ev) ==
    CASE ev.Kind \in {"EvWill", "EvDo"} /\ ev.Opt = OptSGA -> <<Cmd(DO, OptSGA)>>
      [] ev.Kind = "EvWont" -> <<Cmd(DO, ev.Opt)>>
      [] ev.Kind = "EvDo"   -> <<Cmd(WONT, ev.Opt)>>
      [] OTHER              -> << >>

(* What Handle sends back: nothing or one message. *)
Reply(ev) ==
    CASE ev.Kind = "EvWill" ->
            IF ev.Opt = OptSGA THEN <<Cmd(DO, OptSGA)>>
            ELSE <<Cmd(DONT, ev.Opt)>>
      [] ev.Kind = "EvDo" ->
            IF ev.Opt = OptSGA THEN <<Cmd(DO, OptSGA)>>
            ELSE IF ev.Opt \in {OptBinary, OptNAWS, OptTTYPE}
                 THEN <<Cmd(WILL, ev.Opt)>>
                 ELSE <<Cmd(WONT, ev.Opt)>>
      [] /\ ev.Kind = "EvSubneg" /\ ev.Opt = OptTTYPE
         /\ ev.Data # << >> /\ ev.Data[1] = TTYPESEND ->
            <<Subneg(OptTTYPE, ANSI)>>
      [] OTHER -> << >>

Word(hi, lo) == 256 * hi + lo

(* What Handle records. *)
Learn(p, ev) ==
    IF ev.Kind # "EvSubneg" THEN p
    ELSE IF ev.Opt = OptNAWS /\ Len(ev.Data) >= 4
         THEN [p EXCEPT !.Width = Word(ev.Data[1], ev.Data[2]),
                        !.Height = Word(ev.Data[3], ev.Data[4])]
         ELSE IF ev.Opt = OptTTYPE /\ Len(ev.Data) > 1
                 /\ ev.Data[1] = TTYPEIS
              THEN [p EXCEPT !.TermType = Tail(ev.Data)]
              ELSE p

-----------------------------------------------------------------------------
CR == 13
LF == 10

(* Mutant: a literal 255 goes out as it is. *)
DoorEncodeBare(lastCR, c) ==
    IF c = LF /\ ~lastCR THEN <<CR, LF>> ELSE <<c>>

(* doorEncode, one byte at a time: what byte c of a run becomes. *)
DoorEncode(lastCR, c) ==
    IF c = LF THEN (IF lastCR THEN <<LF>> ELSE <<CR, LF>>)
    ELSE Doubled(c)
=============================================================================
