------------------------------- MODULE Telnet -------------------------------
(***************************************************************************)
(* One session on the wire: the preamble of Server.handle, the read loop   *)
(* with its parser and policy (session.go), and a games door whose output  *)
(* the remote pump parses and encodes for the client (door.go).            *)
(*                                                                         *)
(* The client is a telnet program that follows RFC 854 and 1143: it may    *)
(* ask for options when it connects, it agrees to what it supports, and it *)
(* answers a request only when that changes something.  What is on its way *)
(* to the server is a stream of bytes: Digest takes one byte, and EndChunk *)
(* may end a Read after any of them.  What is on its way to the client is  *)
(* kept in messages.  Both ways are first in, first out.                   *)
(***************************************************************************)
EXTENDS TelnetCodec

CONSTANTS Clients,      (* what a client supports and asks for, see Client *)
          Windows,      (* window sizes, as NAWS payloads of four bytes    *)
          TermName,     (* the client's terminal type                      *)
          Keys,         (* bytes that the user types                       *)
          DoorMessages  (* what the door may send                          *)

Options == {OptBinary, OptEcho, OptSGA, OptTTYPE, OptNAWS}

(* us: options the client can perform; him: options it lets the server     *)
(* perform; asks: the requests it makes when it connects.  moves and door  *)
(* are bounds: its user's keys and resizes, and the messages of its door.  *)
Client == [us : SUBSET Options, him : SUBSET Options, asks : Seq(Event),
           moves : Nat, door : Nat]

(* A request of the client to perform o, or to have o performed. *)
Asks(c, k, o) == \E i \in DOMAIN c.asks : c.asks[i] = Cmd(k, o)

ASSUME TelnetAssumption ==
    /\ Clients \subseteq Client
    /\ \A c \in Clients : \A i \in DOMAIN c.asks :
           c.asks[i] \in {Cmd(WILL, o) : o \in c.us} \cup {Cmd(DO, o) : o \in c.him}
    /\ Windows \subseteq Byte \X Byte \X Byte \X Byte
    /\ TermName \in Seq(Byte) /\ TermName # << >>
    /\ Keys \subseteq Byte
    /\ \A m \in DoorMessages : IsMessage(m)

VARIABLES client,     (* the member of Clients that is connected           *)
          us, him,    (* per option, what the client believes: no/want/yes *)
          window,     (* the size of its window                            *)
          announced,  (* history: the last window it sent, << >> if none   *)
          toClient,   (* messages on their way to the client               *)
          wire,       (* the bytes on their way to the server              *)
          pending,    (* history: client messages sent and not yet handled *)
          moves,      (* keys and resizes that the bound still admits      *)
          phase,      (* the read loop: "read" or "handle"                 *)
          fed,        (* a byte of the present chunk has been digested     *)
          parser,     (* Session.parser                                    *)
          events,     (* what Feed returned and is still to be handled     *)
          policy,     (* Session.policy                                    *)
          size,       (* Session.width and Session.height                  *)
          doorWire,   (* the bytes of the door's message on their way      *)
          remote,     (* the remote pump's parser                          *)
          ack,        (* the door's first payload byte is still to come    *)
          lastCR,     (* doorEncode's lastCR in the present run            *)
          screen,     (* the client's cursor, and whether an IAC is open   *)
          drawn,      (* history: where the door believes the cursor is    *)
          doorMoves,  (* messages of the door that the bound still admits  *)
          leaked      (* history: options of replies meant for the door    *)

clientVars == <<client, us, him, window, announced, moves>>
readVars   == <<phase, fed, parser, events, policy, size>>
doorVars   == <<doorWire, remote, ack, lastCR, screen, drawn, doorMoves, leaked>>
vars       == <<clientVars, toClient, wire, pending, readVars, doorVars>>

-----------------------------------------------------------------------------
(* A stream is a sequence of messages, each with its groups of bytes that  *)
(* have not been read.                                                     *)

Segment(m) == [msg |-> m, rest |-> Encoded(m)]

(* The next byte of the groups r, and what is left after it. *)
NextByte(r) == r[1][1]
AfterByte(r) == IF Len(r[1]) > 1 THEN <<Tail(r[1])>> \o Tail(r) ELSE Tail(r)

(* The stream w after its next byte. *)
Advance(w) ==
    LET r == AfterByte(w[1].rest) IN
    IF r = << >> THEN Tail(w)
    ELSE <<[w[1] EXCEPT !.rest = r]>> \o Tail(w)

(* The client sends the messages ms. *)
Send(ms) == /\ wire' = wire \o [i \in DOMAIN ms |-> Segment(ms[i])]
            /\ pending' = pending \o ms

NoSend == UNCHANGED <<wire, pending>>

(* server.go: the negotiation that opens every connection. *)
Preamble == << Cmd(WILL, OptEcho), Cmd(WILL, OptSGA), Cmd(DO, OptNAWS),
               Cmd(DO, OptBinary), Cmd(DO, OptTTYPE),
               Subneg(OptTTYPE, <<TTYPESEND>>) >>

(* The screen that the pages are made for, and a new session's size. *)
screenWidth  == 80
screenHeight == 25

NoCursor == [row |-> 0, col |-> 0, esc |-> FALSE]

Init ==
    /\ client \in Clients
    /\ us = [o \in Options |-> IF Asks(client, WILL, o) THEN "want" ELSE "no"]
    /\ him = [o \in Options |-> IF Asks(client, DO, o) THEN "want" ELSE "no"]
    /\ window \in Windows
    /\ announced = << >>
    /\ toClient = Preamble
    /\ wire = [i \in DOMAIN client.asks |-> Segment(client.asks[i])]
    /\ pending = client.asks
    /\ moves = client.moves /\ doorMoves = client.door
    /\ phase = "read" /\ fed = FALSE
    /\ parser = NewParser /\ events = << >>
    /\ policy = NewPolicy /\ size = <<screenWidth, screenHeight>>
    /\ doorWire = << >> /\ remote = NewParser
    /\ ack = TRUE /\ lastCR = FALSE
    /\ screen = NoCursor /\ drawn = <<0, 0>>
    /\ leaked = {}

Quiet == /\ toClient = << >> /\ wire = << >> /\ doorWire = << >>
         /\ phase = "read" /\ ~fed

-----------------------------------------------------------------------------
(* The client.  Receipt of toClient[1], by kind of message. *)

(* NAWS is followed by the window's size as soon as it is agreed. *)
Opening(o) == IF o = OptNAWS THEN <<Subneg(OptNAWS, window)>> ELSE << >>

Announce(ms) ==
    announced' = IF \E i \in DOMAIN ms : ms[i] = Subneg(OptNAWS, window)
                 THEN window ELSE announced

Answer(ms) == Send(ms) /\ Announce(ms)

HearDo(o) ==
    /\ toClient[1] = Cmd(DO, o)
    /\ \/ /\ us[o] = "no" /\ o \in client.us
          /\ us' = [us EXCEPT ![o] = "yes"]
          /\ Answer(<<Cmd(WILL, o)>> \o Opening(o))
       \/ /\ us[o] = "no" /\ o \notin client.us
          /\ UNCHANGED us
          /\ Answer(<<Cmd(WONT, o)>>)
       \/ /\ us[o] = "want"
          /\ us' = [us EXCEPT ![o] = "yes"]
          /\ Answer(Opening(o))
       \/ /\ us[o] = "yes"
          /\ UNCHANGED us
          /\ Answer(<< >>)
    /\ UNCHANGED him

HearDont(o) ==
    /\ toClient[1] = Cmd(DONT, o)
    /\ us' = [us EXCEPT ![o] = "no"]
    /\ Answer(IF us[o] = "yes" THEN <<Cmd(WONT, o)>> ELSE << >>)
    /\ UNCHANGED him

HearWill(o) ==
    /\ toClient[1] = Cmd(WILL, o)
    /\ \/ /\ him[o] = "no" /\ o \in client.him
          /\ him' = [him EXCEPT ![o] = "yes"]
          /\ Answer(<<Cmd(DO, o)>>)
       \/ /\ him[o] = "no" /\ o \notin client.him
          /\ UNCHANGED him
          /\ Answer(<<Cmd(DONT, o)>>)
       \/ /\ him[o] \in {"want", "yes"}
          /\ him' = [him EXCEPT ![o] = "yes"]
          /\ Answer(<< >>)
    /\ UNCHANGED us

HearWont(o) ==
    /\ toClient[1] = Cmd(WONT, o)
    /\ him' = [him EXCEPT ![o] = "no"]
    /\ Answer(IF him[o] = "yes" THEN <<Cmd(DONT, o)>> ELSE << >>)
    /\ UNCHANGED us

(* A terminal type is told when asked for; a TTYPE IS is not for a client. *)
HearSubneg ==
    /\ toClient[1].Kind = "EvSubneg"
    /\ Answer(IF /\ toClient[1] = Subneg(OptTTYPE, <<TTYPESEND>>)
                 /\ us[OptTTYPE] = "yes"
              THEN <<Subneg(OptTTYPE, <<TTYPEIS>> \o TermName)>> ELSE << >>)
    /\ UNCHANGED <<us, him>>

(* An option that the client does not know, which the door may bring up:   *)
(* the server only ever refuses it, and a refusal changes nothing.         *)
HearOther ==
    /\ toClient[1].Kind \in {"EvWont", "EvDont"} /\ toClient[1].Opt \notin Options
    /\ Answer(<< >>)
    /\ UNCHANGED <<us, him>>

Hear ==
    /\ toClient # << >>
    /\ \/ \E o \in Options : HearDo(o) \/ HearDont(o) \/ HearWill(o) \/ HearWont(o)
       \/ HearSubneg \/ HearOther
    /\ toClient' = Tail(toClient)
    /\ UNCHANGED <<client, window, moves, readVars, doorVars>>

(* The user types a byte. *)
Type(b) ==
    /\ moves > 0
    /\ moves' = moves - 1
    /\ Send(<<Payload(b)>>)
    /\ UNCHANGED <<client, us, him, window, announced, toClient, readVars, doorVars>>

(* The user changes the window; the client tells if NAWS is agreed. *)
Resize(w) ==
    /\ moves > 0
    /\ w # window
    /\ moves' = moves - 1
    /\ window' = w
    /\ IF us[OptNAWS] = "yes"
       THEN Send(<<Subneg(OptNAWS, w)>>) /\ announced' = w
       ELSE NoSend /\ UNCHANGED announced
    /\ UNCHANGED <<client, us, him, toClient, readVars, doorVars>>

-----------------------------------------------------------------------------
(* The read loop: Feed digests the bytes that a Read returned, then the    *)
(* events are handled in order, then applyDims.                            *)

DigestByte ==
    /\ phase = "read" /\ wire # << >>
    /\ LET c == NextByte(wire[1].rest) IN
       /\ parser' = Digest(parser, c)
       /\ events' = events \o Events(parser, c)
    /\ wire' = Advance(wire)
    /\ fed' = TRUE
    /\ UNCHANGED <<clientVars, toClient, pending, phase, policy, size, doorVars>>

(* Mutant: each Read is parsed from a fresh state. *)
EndChunkForgets ==
    /\ phase = "read" /\ fed
    /\ phase' = "handle" /\ fed' = FALSE
    /\ parser' = NewParser
    /\ UNCHANGED <<clientVars, toClient, wire, pending, events, policy, size,
                   doorVars>>

EndChunk ==
    /\ phase = "read" /\ fed
    /\ phase' = "handle" /\ fed' = FALSE
    /\ UNCHANGED <<clientVars, toClient, wire, pending, parser, events, policy,
                   size, doorVars>>

HandleEvent ==
    /\ phase = "handle" /\ events # << >>
    /\ policy' = Learn(policy, events[1])
    /\ toClient' = toClient \o Reply(events[1])
    /\ events' = Tail(events)
    /\ pending' = Tail(pending)
    /\ UNCHANGED <<clientVars, wire, phase, fed, parser, size, doorVars>>

LeastOf(a, b) == IF a <= b THEN a ELSE b

(* Mutants: the limit is forgotten; a smaller size is kept for good. *)
AppliedUncut(told, current, limit) ==
    IF told > 0 /\ told # current THEN told ELSE current

AppliedOnce(told, current, limit) ==
    IF told > 0 /\ current = limit THEN LeastOf(told, limit) ELSE current

(* One dimension of applyDims: told by the policy, at most limit. *)
Applied(told, current, limit) ==
    IF told > 0 /\ told # current THEN LeastOf(told, limit) ELSE current

applyDims ==
    /\ phase = "handle" /\ events = << >>
    /\ size' = <<Applied(policy.Width, size[1], screenWidth),
                 Applied(policy.Height, size[2], screenHeight)>>
    /\ phase' = "read"
    /\ UNCHANGED <<clientVars, toClient, wire, pending, fed, parser, events,
                   policy, doorVars>>

-----------------------------------------------------------------------------
(* The door and the remote pump.  An event of the door is dealt with when  *)
(* its last byte is digested: the pump does so at the end of the chunk,    *)
(* which is only later, and it writes in the same order.                   *)

(* The cursor of a terminal that shows byte c of its telnet stream. *)
Shown(t, c) ==
    IF t.esc THEN [t EXCEPT !.esc = FALSE,
                            !.col = IF c = IAC THEN @ + 1 ELSE @]
    ELSE IF c = IAC THEN [t EXCEPT !.esc = TRUE]
    ELSE IF c = CR  THEN [t EXCEPT !.col = 0]
    ELSE IF c = LF  THEN [t EXCEPT !.row = @ + 1]
    ELSE IF c = 0   THEN t
    ELSE [t EXCEPT !.col = @ + 1]

(* The cursor after one or two bytes. *)
ShownAll(t, out) ==
    IF Len(out) = 1 THEN Shown(t, out[1]) ELSE Shown(Shown(t, out[1]), out[2])

(* The cursor as a door counts it: a newline goes to the next line's start. *)
Drawn(d, c) == IF c = LF THEN <<d[1] + 1, 0>>
               ELSE IF c = CR THEN <<d[1], 0>>
               ELSE IF c = 0 THEN d
               ELSE <<d[1], d[2] + 1>>

(* A door opens to a user who has logged in, long after the preamble: its  *)
(* output starts when the line is at rest.                                 *)
DoorSends(m) ==
    /\ doorMoves > 0 /\ doorWire = << >>
    /\ ack => Quiet
    /\ doorMoves' = doorMoves - 1
    /\ doorWire' = Encoded(m)
    /\ drawn' = IF m.Kind = "EvData" THEN Drawn(drawn, m.Data[1]) ELSE drawn
    /\ UNCHANGED <<clientVars, toClient, wire, pending, readVars, remote, ack,
                   lastCR, screen, leaked>>

(* Payload byte c for the client; the RLOGIN acknowledgement is not shown. *)
PumpPayload(c) ==
    /\ ack' = FALSE
    /\ IF ack /\ c = 0
       THEN UNCHANGED <<lastCR, screen>>
       ELSE /\ screen' = ShownAll(screen, DoorEncode(lastCR, c))
            /\ lastCR' = (c = CR)
    /\ UNCHANGED <<toClient, leaked>>

(* The door's negotiation: remotePolicy's reply goes to the client. *)
PumpCommand(ev) ==
    /\ toClient' = toClient \o Reply(ev)
    /\ leaked' = leaked \cup {r.Opt : r \in {Reply(ev)[i] : i \in DOMAIN Reply(ev)}}
    /\ UNCHANGED <<ack, lastCR, screen>>

RemotePump ==
    /\ doorWire # << >>
    /\ doorWire' = AfterByte(doorWire)
    /\ LET c == NextByte(doorWire)
           evs == Events(remote, c)
       IN /\ remote' = Digest(remote, c)
          /\ \/ /\ evs = << >>
                /\ lastCR' = (lastCR /\ ~RunEnds(remote, c))
                /\ UNCHANGED <<toClient, ack, screen, leaked>>
             \/ /\ evs # << >> /\ evs[1].Kind = "EvData"
                /\ PumpPayload(evs[1].Data[1])
             \/ /\ evs # << >> /\ evs[1].Kind # "EvData"
                /\ PumpCommand(evs[1])
    /\ UNCHANGED <<clientVars, wire, pending, readVars, drawn, doorMoves>>

(* A Read of the pump ends here; doorEncode starts anew with the next. *)
EndDoorChunk ==
    /\ lastCR
    /\ lastCR' = FALSE
    /\ UNCHANGED <<clientVars, toClient, wire, pending, readVars, doorWire,
                   remote, ack, screen, drawn, doorMoves, leaked>>

-----------------------------------------------------------------------------
(* Nothing is on its way and nobody moves. *)
Idle == Quiet /\ UNCHANGED vars

Next ==
    \/ Hear
    \/ \E b \in Keys : Type(b)
    \/ \E w \in Windows : Resize(w)
    \/ DigestByte \/ EndChunk \/ HandleEvent \/ applyDims
    \/ \E m \in DoorMessages : DoorSends(m)
    \/ RemotePump \/ EndDoorChunk
    \/ Idle

Spec == Init /\ [][Next]_vars

(* The read loop and the pump go on, and the client reads. *)
FairSpec ==
    /\ Spec
    /\ WF_vars(Hear)
    /\ WF_vars(DigestByte \/ EndChunk \/ HandleEvent \/ applyDims)
    /\ WF_vars(RemotePump)

-----------------------------------------------------------------------------
(* Properties. *)

(* The segments of a stream are not empty, nor are their groups. *)
Groups == Seq(Seq(Byte) \ {<< >>})
Cursor == [row : Nat, col : Nat, esc : BOOLEAN]
Answers == {"no", "want", "yes"}

(* Types; the session's window is never larger than the screen that the    *)
(* pages are made for (applyDims).                                         *)
TypeOK ==
    /\ client \in Clients
    /\ us \in [Options -> Answers] /\ him \in [Options -> Answers]
    /\ window \in Windows /\ announced \in Windows \cup {<< >>}
    /\ moves \in Nat /\ doorMoves \in Nat
    /\ toClient \in Seq(Event) /\ pending \in Seq(Event)
    /\ wire \in Seq([msg : Event, rest : Groups \ {<< >>}])
    /\ phase \in {"read", "handle"} /\ fed \in BOOLEAN
    /\ parser \in Parser /\ events \in Seq(Event)
    /\ policy \in Policy /\ size \in (0 .. screenWidth) \X (0 .. screenHeight)
    /\ doorWire \in Groups /\ remote \in Parser
    /\ ack \in BOOLEAN /\ lastCR \in BOOLEAN
    /\ screen \in Cursor /\ drawn \in Nat \X Nat
    /\ leaked \subseteq Byte

(* Wherever a Read ends, in the middle of a command or of a doubled byte   *)
(* too, Feed returns the messages that the client sent, whole, in order    *)
(* and no others (the state that Parser keeps between chunks).             *)
MessagesIntact ==
    pending = events \o [i \in DOMAIN wire |-> wire[i].msg]

(* What the server offers to perform, and what it requests of the client.  *)
Offered(o)   == \E i \in DOMAIN Preamble : Preamble[i] = Cmd(WILL, o)
Requested(o) == \E i \in DOMAIN Preamble : Preamble[i] = Cmd(DO, o)

(* In whatever order the requests and answers of the two sides crossed,    *)
(* and whatever the door negotiated, at rest no request of the client is   *)
(* left without its answer; what the client performs, the server requested *)
(* (or it suppresses go-ahead), and what it lets the server perform was    *)
(* offered, asked for, or agreed with the door (history: leaked); both     *)
(* suppress go-ahead if the client can; and a client that can tell its     *)
(* type and its window has told them (server.go:157-166, Policy.Handle).   *)
Outcome ==
    Quiet =>
        /\ \A o \in Options :
              /\ us[o] # "want" /\ him[o] # "want"
              /\ us[o] = "yes" => o = OptSGA \/ Requested(o)
              /\ him[o] = "yes" =>
                    Offered(o) \/ Asks(client, DO, o) \/ o \in leaked
        /\ OptSGA \in client.him => him[OptSGA] = "yes"
        /\ OptSGA \in client.him /\ OptSGA \in client.us => us[OptSGA] = "yes"
        /\ OptTTYPE \in client.us => policy.TermType = TermName
        /\ OptNAWS \in client.us => announced # << >>

(* "Negotiation: WILL ECHO (server controls all echoing), WILL SGA, then   *)
(* request NAWS / BINARY / TTYPE from the client" (server.go:157-158): at  *)
(* rest what the server offered and requested is in force, if the client   *)
(* can do its part.                                                        *)
PreambleHolds ==
    Quiet => /\ \A o \in client.him : Offered(o) => him[o] = "yes"
             /\ \A o \in client.us : Requested(o) => us[o] = "yes"

(* At rest the session has the size that the client told last, cut to the  *)
(* screen; a dimension told as 0 is unknown and changes nothing.           *)
SizeFollows ==
    Quiet /\ announced # << >> =>
        LET w == Word(announced[1], announced[2])
            h == Word(announced[3], announced[4])
        IN /\ w > 0 => size[1] = LeastOf(w, screenWidth)
           /\ h > 0 => size[2] = LeastOf(h, screenHeight)

(* However the door's output is cut into Reads, the client's cursor is     *)
(* where the door believes it is: a second CR does no harm, a literal 255  *)
(* is one character, and no command of the door is shown (doorEncode).     *)
DoorRendering ==
    doorWire = << >> => screen = [row |-> drawn[1], col |-> drawn[2], esc |-> FALSE]

(* The negotiation comes to rest: no answer provokes answers for ever.     *)
Settles == []<>Quiet
=============================================================================
