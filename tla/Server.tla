------------------------------- MODULE Server -------------------------------
(***************************************************************************)
(* The life of the server process: main.go (Serve in a goroutine, Shutdown *)
(* with a deadline at a signal, the store closed at the end) and           *)
(* internal/server/server.go (Serve, Shutdown and handle).                 *)
(*                                                                         *)
(* A session is what handle runs between registering its connection and    *)
(* Session.close; module Session has its inside.  The field Server.ln is   *)
(* written by Serve and read by Shutdown without a lock: a Shutdown that   *)
(* comes first, or that sees half of the write, closes no listener.        *)
(***************************************************************************)
EXTENDS Integers, FiniteSets

CONSTANTS Clients    (* connections that clients may make                  *)

ASSUME ServerAssumption == IsFiniteSet(Clients)

VARIABLES serve,     (* the goroutine in Serve                             *)
          lnSet,     (* Server.ln has been assigned                        *)
          listening, (* the listener is open                               *)
          closed,    (* Server.closed                                      *)
          handler,   (* per connection, the goroutine in handle            *)
          link,      (* per connection, the TCP connection                 *)
          conns,     (* Server.conns                                       *)
          wg,        (* Server.wg; below zero it panics                    *)
          shutdown,  (* main's call of Shutdown                            *)
          swept,     (* history: the connections that Shutdown closed      *)
          main,      (* main                                               *)
          storeOpen  (* the store has not been closed                      *)

serveVars == <<serve, lnSet, listening>>
connVars  == <<handler, link, conns, wg>>
shutVars  == <<closed, shutdown, swept>>
mainVars  == <<main, storeOpen>>
vars      == <<serveVars, connVars, shutVars, mainVars>>

Registered == {"run", "dial", "close", "delete"}
Handling   == Registered \union {"spawned", "finish"}

TypeOK ==
    /\ serve \in {"start", "accept", "spawn", "returned", "failed"}
    /\ lnSet \in BOOLEAN /\ listening \in BOOLEAN /\ closed \in BOOLEAN
    /\ handler \in [Clients -> Handling \union {"none", "accepted", "done"}]
    /\ link \in [Clients -> {"none", "queued", "open", "closed"}]
    /\ wg \in 0 .. Cardinality(Clients)
    /\ conns \subseteq Clients /\ swept \subseteq Clients
    /\ shutdown \in {"none", "flag", "listener", "sweep", "wait", "nil", "timeout"}
    /\ main \in {"select", "shutdown", "closeStore", "exited"}
    /\ storeOpen \in BOOLEAN

(* main has opened the store and the listener, and started Serve. *)
Init ==
    /\ serve = "start" /\ lnSet = FALSE /\ listening = TRUE
    /\ closed = FALSE /\ shutdown = "none" /\ swept = {}
    /\ handler = [c \in Clients |-> "none"]
    /\ link = [c \in Clients |-> "none"]
    /\ conns = {} /\ wg = 0
    /\ main = "select" /\ storeOpen = TRUE

Running == main # "exited"

-----------------------------------------------------------------------------
(* Clients. *)

Connect(c) ==
    /\ Running
    /\ listening
    /\ link[c] = "none"
    /\ link' = [link EXCEPT ![c] = "queued"]
    /\ UNCHANGED <<serveVars, handler, conns, wg, shutVars, mainVars>>

HangUp(c) ==
    /\ Running
    /\ link[c] = "open"
    /\ link' = [link EXCEPT ![c] = "closed"]
    /\ UNCHANGED <<serveVars, handler, conns, wg, shutVars, mainVars>>

-----------------------------------------------------------------------------
(* Serve. *)

SetListener ==
    /\ Running
    /\ serve = "start"
    /\ lnSet' = TRUE
    /\ serve' = "accept"
    /\ UNCHANGED <<listening, connVars, shutVars, mainVars>>

Accept(c) ==
    /\ Running
    /\ serve = "accept"
    /\ listening
    /\ link[c] = "queued"
    /\ link' = [link EXCEPT ![c] = "open"]
    /\ handler' = [handler EXCEPT ![c] = "accepted"]
    /\ serve' = "spawn"
    /\ UNCHANGED <<lnSet, listening, conns, wg, shutVars, mainVars>>

(* Mutant: wg.Add is forgotten. *)
SpawnUncounted(c) ==
    /\ Running
    /\ serve = "spawn"
    /\ handler[c] = "accepted"
    /\ handler' = [handler EXCEPT ![c] = "spawned"]
    /\ serve' = "accept"
    /\ UNCHANGED <<lnSet, listening, link, conns, wg, shutVars, mainVars>>

(* wg.Add(1), then the goroutine of handle. *)
Spawn(c) ==
    /\ Running
    /\ serve = "spawn"
    /\ handler[c] = "accepted"
    /\ wg' = wg + 1
    /\ handler' = [handler EXCEPT ![c] = "spawned"]
    /\ serve' = "accept"
    /\ UNCHANGED <<lnSet, listening, link, conns, shutVars, mainVars>>

(* The listener is closed, or fails; a timeout goes round the loop. *)
AcceptClosed ==
    /\ Running
    /\ serve = "accept"
    /\ ~listening
    /\ serve' = "returned"
    /\ UNCHANGED <<lnSet, listening, connVars, shutVars, mainVars>>

AcceptError ==
    /\ Running
    /\ serve = "accept"
    /\ listening
    /\ serve' = IF closed THEN "returned" ELSE "failed"
    /\ UNCHANGED <<lnSet, listening, connVars, shutVars, mainVars>>

-----------------------------------------------------------------------------
(* handle. *)

Move(c, from, to) ==
    /\ Running
    /\ handler[c] = from
    /\ handler' = [handler EXCEPT ![c] = to]

Register(c) ==
    /\ Move(c, "spawned", "run")
    /\ conns' = conns \union {c}
    /\ UNCHANGED <<serveVars, link, wg, shutVars, mainVars>>

(* The session dials the door: for 10 s it does not notice its link. *)
Dial(c) ==
    /\ Move(c, "run", "dial")
    /\ UNCHANGED <<serveVars, link, conns, wg, shutVars, mainVars>>

DialEnd(c) ==
    /\ Move(c, "dial", "run")
    /\ UNCHANGED <<serveVars, link, conns, wg, shutVars, mainVars>>

(* Session.run returns: the user logs off, or the link is dead. *)
LogOff(c) ==
    /\ link[c] = "open"
    /\ Move(c, "run", "close")
    /\ UNCHANGED <<serveVars, link, conns, wg, shutVars, mainVars>>

LinkDead(c) ==
    /\ link[c] = "closed"
    /\ Move(c, "run", "close")
    /\ UNCHANGED <<serveVars, link, conns, wg, shutVars, mainVars>>

SessionClose(c) ==
    /\ Move(c, "close", "delete")
    /\ link' = [link EXCEPT ![c] = "closed"]
    /\ UNCHANGED <<serveVars, conns, wg, shutVars, mainVars>>

(* Mutant: the connection stays in the table. *)
UnregisterForgotten(c) ==
    /\ Move(c, "delete", "finish")
    /\ UNCHANGED <<serveVars, link, conns, wg, shutVars, mainVars>>

Unregister(c) ==
    /\ Move(c, "delete", "finish")
    /\ conns' = conns \ {c}
    /\ UNCHANGED <<serveVars, link, wg, shutVars, mainVars>>

(* The deferred conn.Close, which does nothing any more, and wg.Done. *)
Done(c) ==
    /\ Move(c, "finish", "done")
    /\ wg' = wg - 1
    /\ UNCHANGED <<serveVars, link, conns, shutVars, mainVars>>

-----------------------------------------------------------------------------
(* Shutdown. *)

StoreFlag ==
    /\ shutdown = "flag"
    /\ closed' = TRUE
    /\ shutdown' = "listener"
    /\ UNCHANGED <<serveVars, connVars, swept, mainVars>>

CloseListener ==
    /\ shutdown = "listener"
    /\ listening' = (listening /\ ~lnSet)
    /\ link' = [c \in Clients |-> IF lnSet /\ link[c] = "queued"
                                  THEN "closed" ELSE link[c]]
    /\ shutdown' = "sweep"
    /\ UNCHANGED <<serve, lnSet, handler, conns, wg, closed, swept, mainVars>>

Sweep ==
    /\ shutdown = "sweep"
    /\ link' = [c \in Clients |-> IF c \in conns THEN "closed" ELSE link[c]]
    /\ swept' = conns
    /\ shutdown' = "wait"
    /\ UNCHANGED <<serveVars, handler, conns, wg, closed, mainVars>>

(* Mutant: it waits for the table of connections to be empty. *)
WaitTableEmpty ==
    /\ shutdown = "wait"
    /\ conns = {}
    /\ shutdown' = "nil"
    /\ UNCHANGED <<serveVars, connVars, closed, swept, mainVars>>

(* wg.Wait returned before the deadline. *)
WaitDone ==
    /\ shutdown = "wait"
    /\ wg = 0
    /\ shutdown' = "nil"
    /\ UNCHANGED <<serveVars, connVars, closed, swept, mainVars>>

(* Mutant: Shutdown is given a context without a deadline. *)
WaitForEver == FALSE /\ UNCHANGED vars

WaitTimeout ==
    /\ shutdown = "wait"
    /\ shutdown' = "timeout"
    /\ UNCHANGED <<serveVars, connVars, closed, swept, mainVars>>

-----------------------------------------------------------------------------
(* main. *)

Signal ==
    /\ main = "select"
    /\ main' = "shutdown"
    /\ shutdown' = "flag"
    /\ UNCHANGED <<serveVars, connVars, closed, swept, storeOpen>>

(* log.Fatalf exits without the deferred st.Close; nil just returns. *)
ServeReturned ==
    /\ main = "select"
    /\ \/ serve = "failed" /\ main' = "exited"
       \/ serve = "returned" /\ main' = "closeStore"
    /\ UNCHANGED <<serveVars, connVars, shutVars, storeOpen>>

ShutdownReturned ==
    /\ main = "shutdown"
    /\ shutdown \in {"nil", "timeout"}
    /\ main' = "closeStore"
    /\ UNCHANGED <<serveVars, connVars, shutVars, storeOpen>>

(* The deferred st.Close; the handlers that are left run into it. *)
CloseStore ==
    /\ main = "closeStore"
    /\ storeOpen
    /\ storeOpen' = FALSE
    /\ UNCHANGED <<serveVars, connVars, shutVars, main>>

Exit ==
    /\ main = "closeStore"
    /\ ~storeOpen
    /\ main' = "exited"
    /\ UNCHANGED <<serveVars, connVars, shutVars, storeOpen>>

-----------------------------------------------------------------------------
ServeStep == SetListener \/ (\E c \in Clients : Accept(c) \/ Spawn(c)) \/ AcceptClosed

HandlerStep(c) ==
    Register(c) \/ DialEnd(c) \/ LinkDead(c) \/ SessionClose(c)
    \/ Unregister(c) \/ Done(c)

ShutdownStep == StoreFlag \/ CloseListener \/ Sweep \/ WaitDone

MainStep == ServeReturned \/ ShutdownReturned \/ CloseStore \/ Exit

Exited == main = "exited" /\ UNCHANGED vars

Next ==
    \/ \E c \in Clients :
         Connect(c) \/ HangUp(c) \/ HandlerStep(c) \/ Dial(c) \/ LogOff(c)
    \/ ServeStep \/ AcceptError
    \/ ShutdownStep \/ WaitTimeout
    \/ Signal \/ MainStep
    \/ Exited

(***************************************************************************)
(* Goroutines run, dialling ends within 10 s, and the deadline passes.     *)
(* Clients and users owe nothing: a session may go on for ever.            *)
(***************************************************************************)
Fairness ==
    /\ WF_vars(ServeStep)
    /\ \A c \in Clients : WF_vars(HandlerStep(c))
    /\ WF_vars(ShutdownStep)
    /\ WF_vars(WaitTimeout)
    /\ WF_vars(MainStep)

Spec == Init /\ [][Next]_vars
FairSpec == Spec /\ Fairness

-----------------------------------------------------------------------------
(***************************************************************************)
(* The table of connections is exact: a connection is in it from before    *)
(* its session starts until its session has ended, so that a sweep closes  *)
(* every session there is and none is kept after its end (handle's defers).*)
(***************************************************************************)
ConnsExact == conns = {c \in Clients : handler[c] \in Registered}

(***************************************************************************)
(* A Shutdown that reports success leaves no session behind of those it    *)
(* closed, so none of them meets the closed store.                         *)
(***************************************************************************)
SweptSessionsEnded ==
    shutdown = "nil" => \A c \in swept : handler[c] = "done"

(***************************************************************************)
(* "Shutdown stops accepting, closes live connections and waits for        *)
(* handlers" (server.go:110): when it returns nil no connection that was   *)
(* accepted is without its handler's end.                                  *)
(***************************************************************************)
ShutdownWaits ==
    shutdown = "nil" => \A c \in Clients : handler[c] \in {"none", "done"}

(***************************************************************************)
(* A signal ends the process, whatever the sessions do (main's deadline).  *)
(***************************************************************************)
SignalEndsProcess == (main = "shutdown") ~> (main = "exited")
=============================================================================
