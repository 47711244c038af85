------------------------------ MODULE MCTelnet ------------------------------
(* Telnet, instantiated for TLC. *)
EXTENDS Telnet

WaitingClient(performs, lets, m, d) ==
    [us |-> performs, him |-> lets, asks |-> << >>, moves |-> m, door |-> d]

(* Clients that wait for the server: one that agrees to nothing but SGA,   *)
(* one that agrees to all, with a user at the keys or with a door, and one *)
(* that tells its window twice; and a client that asks first.              *)
MCClients ==
    { WaitingClient({}, {OptSGA}, 1, 0),
      WaitingClient(Options \ {OptEcho}, Options, 1, 0),
      WaitingClient({OptNAWS}, {OptBinary}, 0, 4),
      WaitingClient({OptNAWS}, {}, 2, 0),
      [us |-> {OptNAWS, OptTTYPE, OptSGA}, him |-> {OptEcho, OptSGA},
       asks |-> <<Cmd(WILL, OptNAWS), Cmd(DO, OptEcho), Cmd(DO, OptSGA)>>,
       moves |-> 1, door |-> 0] }

(* 255 columns, which NAWS doubles on the wire; and an unknown height. *)
MCWindows == { <<0, 255, 0, 20>>, <<0, 60, 0, 0>> }

MCTermName == <<97>>
MCKeys     == {97, 255}

MCDoorMessages == { Payload(0), Payload(97), Payload(255), Payload(CR), Payload(LF),
                    Cmd(DO, OptBinary), Cmd(WILL, OptEcho), Cmd(DO, 39) }
=============================================================================
