---------------------------- MODULE ServerProofs ----------------------------
(***************************************************************************)
(* Proofs about Server, for every finite set of connections.               *)
(*                                                                         *)
(* What makes the invariants inductive is the count: wg is the number of   *)
(* handlers between wg.Add and wg.Done.  With it, a wait that ends at wg = *)
(* 0 knows of every swept connection that its handler has ended.           *)
(***************************************************************************)
EXTENDS Server, FiniteSetTheorems, TLAPS

HandlerPC == Handling \union {"none", "accepted", "done"}

(* The part of TypeOK that does not depend on the count. *)
PlainTypes ==
    /\ serve \in {"start", "accept", "spawn", "returned", "failed"}
    /\ lnSet \in BOOLEAN /\ listening \in BOOLEAN /\ closed \in BOOLEAN
    /\ handler \in [Clients -> HandlerPC]
    /\ link \in [Clients -> {"none", "queued", "open", "closed"}]
    /\ conns \subseteq Clients /\ swept \subseteq Clients
    /\ shutdown \in {"none", "flag", "listener", "sweep", "wait", "nil", "timeout"}
    /\ main \in {"select", "shutdown", "closeStore", "exited"}
    /\ storeOpen \in BOOLEAN

Alive(h) == {c \in Clients : h[c] \in Handling}

Counted == wg = Cardinality(Alive(handler))

(* A swept connection was registered when it was closed. *)
SweptPast == \A c \in swept : handler[c] \in Registered \union {"finish", "done"}

(* Only a connection that Accept has returned has a handler. *)
NotStarted ==
    \A c \in Clients : link[c] \in {"none", "queued"} => handler[c] = "none"

IInv ==
    /\ PlainTypes /\ NotStarted
    /\ ConnsExact /\ Counted
    /\ SweptPast /\ SweptSessionsEnded

(* A step that leaves the handlers, their table and their count alone. *)
Quiet == UNCHANGED <<handler, conns, wg>>

QuietStep ==
    \/ \E c \in Clients : Connect(c) \/ HangUp(c)
    \/ SetListener \/ AcceptClosed \/ AcceptError
    \/ StoreFlag \/ CloseListener \/ Sweep \/ WaitDone \/ WaitTimeout
    \/ Signal \/ MainStep
    \/ UNCHANGED vars

(* One handler goes from one place to another. *)
HandlerMove(c) ==
    \/ Accept(c) \/ Spawn(c) \/ Register(c) \/ Dial(c) \/ DialEnd(c)
    \/ LogOff(c) \/ LinkDead(c) \/ SessionClose(c) \/ Unregister(c) \/ Done(c)

-----------------------------------------------------------------------------
(* Next is the union of the two kinds of steps. *)
LEMMA StepKinds ==
  ASSUME [Next]_vars
  PROVE  QuietStep \/ \E c \in Clients : HandlerMove(c)
BY Zenon
DEF Next, HandlerStep, ServeStep, ShutdownStep, QuietStep, HandlerMove, Exited

(* The steps called quiet leave handlers, table and count alone. *)
LEMMA QuietIsQuiet == QuietStep => Quiet
BY DEF QuietStep, Quiet, Connect, HangUp, SetListener, AcceptClosed,
       AcceptError, StoreFlag, CloseListener, Sweep, WaitDone, WaitTimeout,
       Signal, MainStep, ServeReturned, ShutdownReturned, CloseStore, Exit,
       vars, connVars, serveVars, shutVars, mainVars

(* The invariant holds at the start. *)
LEMMA InitIInv == Init => IInv
<1> SUFFICES ASSUME Init PROVE IInv
  OBVIOUS
<1>1. Alive(handler) = {}
  BY DEF Init, Alive, Handling, Registered
<1>2. Counted
  BY <1>1, FS_EmptySet DEF Init, Counted
<1>3. PlainTypes
  BY DEF Init, PlainTypes, HandlerPC, Handling
<1>4. ConnsExact /\ NotStarted /\ SweptPast /\ SweptSessionsEnded
  BY DEF Init, ConnsExact, NotStarted, SweptPast, SweptSessionsEnded, Registered
<1> QED
  BY <1>2, <1>3, <1>4 DEF IInv

-----------------------------------------------------------------------------
(* Types. *)

LEMMA QuietTypes ==
  ASSUME PlainTypes, QuietStep
  PROVE  PlainTypes'
<1>1. CASE \E c \in Clients : Connect(c) \/ HangUp(c)
  BY <1>1 DEF PlainTypes, Connect, HangUp, serveVars, shutVars, mainVars
<1>2. CASE SetListener \/ AcceptClosed \/ AcceptError
  BY <1>2 DEF PlainTypes, SetListener, AcceptClosed, AcceptError,
              connVars, shutVars, mainVars
<1>3. CASE StoreFlag \/ CloseListener \/ Sweep
  BY <1>3 DEF PlainTypes, StoreFlag, CloseListener, Sweep,
              serveVars, connVars, mainVars
<1>4. CASE WaitDone \/ WaitTimeout
  BY <1>4 DEF PlainTypes, WaitDone, WaitTimeout, serveVars, connVars, mainVars
<1>5. CASE Signal \/ MainStep
  BY <1>5 DEF PlainTypes, Signal, MainStep, ServeReturned, ShutdownReturned,
              CloseStore, Exit, serveVars, connVars, shutVars
<1>6. CASE UNCHANGED vars
  BY <1>6 DEF PlainTypes, vars, serveVars, connVars, shutVars, mainVars
<1> QED
  BY <1>1, <1>2, <1>3, <1>4, <1>5, <1>6 DEF QuietStep

(* A handler's step keeps the types. *)
LEMMA MoveTypes ==
  ASSUME PlainTypes, NEW c \in Clients, HandlerMove(c)
  PROVE  PlainTypes'
<1>1. CASE Accept(c) \/ Spawn(c)
  BY <1>1 DEF PlainTypes, HandlerPC, Handling, Accept, Spawn,
              shutVars, mainVars
<1>2. CASE Register(c) \/ Unregister(c)
  BY <1>2 DEF PlainTypes, HandlerPC, Handling, Registered, Register,
              Unregister, Move, serveVars, shutVars, mainVars
<1>3. CASE Dial(c) \/ DialEnd(c)
  BY <1>3 DEF PlainTypes, HandlerPC, Handling, Registered, Dial, DialEnd,
              Move, serveVars, shutVars, mainVars
<1>4. CASE LogOff(c) \/ LinkDead(c)
  BY <1>4 DEF PlainTypes, HandlerPC, Handling, Registered,
              LogOff, LinkDead, Move, serveVars, shutVars, mainVars
<1>5. CASE SessionClose(c) \/ Done(c)
  BY <1>5 DEF PlainTypes, HandlerPC, Handling, Registered, SessionClose,
              Done, Move, serveVars, shutVars, mainVars
<1> QED
  BY <1>1, <1>2, <1>3, <1>4, <1>5 DEF HandlerMove

(* Where a handler may go from where. *)
Moves ==
    {<<"none", "accepted">>, <<"accepted", "spawned">>, <<"spawned", "run">>,
     <<"run", "dial">>, <<"dial", "run">>, <<"run", "close">>,
     <<"close", "delete">>, <<"delete", "finish">>, <<"finish", "done">>}

(* A moving handler is the only one to move, and moves forward. *)
LEMMA MoveEffect ==
  ASSUME PlainTypes, NotStarted, NEW c \in Clients, HandlerMove(c)
  PROVE  \E m \in Moves :
            /\ handler[c] = m[1]
            /\ handler' = [handler EXCEPT ![c] = m[2]]
<1>1. CASE Accept(c) \/ Spawn(c)
  BY <1>1 DEF Accept, Spawn, NotStarted, Moves
<1>2. CASE Register(c)
  BY <1>2 DEF Register, Move, Moves
<1>3. CASE Dial(c) \/ DialEnd(c)
  BY <1>3 DEF Dial, DialEnd, Move, Moves
<1>4. CASE LogOff(c) \/ LinkDead(c)
  BY <1>4 DEF LogOff, LinkDead, Move, Moves
<1>5. CASE SessionClose(c)
  BY <1>5 DEF SessionClose, Move, Moves
<1>6. CASE Unregister(c) \/ Done(c)
  BY <1>6 DEF Unregister, Done, Move, Moves
<1> QED
  BY <1>1, <1>2, <1>3, <1>4, <1>5, <1>6 DEF HandlerMove

(* The link of a connection whose handler moves has been accepted. *)
LEMMA MoveNotStarted ==
  ASSUME PlainTypes, NotStarted, NEW c \in Clients, HandlerMove(c)
  PROVE  NotStarted'
<1>1. CASE Accept(c)
  BY <1>1 DEF Accept, NotStarted, PlainTypes
<1>2. CASE SessionClose(c)
  BY <1>2 DEF SessionClose, Move, NotStarted, PlainTypes
<1>3. CASE link' = link /\ handler[c] # "none"
  BY <1>3, MoveEffect DEF NotStarted, PlainTypes
<1>4. Accept(c) \/ SessionClose(c) \/ (link' = link /\ handler[c] # "none")
  BY DEF HandlerMove, Spawn, Register, Dial, DialEnd, LogOff, LinkDead,
         Unregister, Done, Move
<1> QED
  BY <1>1, <1>2, <1>3, <1>4

(* A quiet step starts no handler. *)
LEMMA QuietNotStarted ==
  ASSUME PlainTypes, NotStarted, QuietStep
  PROVE  NotStarted'
<1>1. handler' = handler
  BY QuietIsQuiet DEF Quiet
<1>2. ASSUME NEW c \in Clients, Connect(c) \/ HangUp(c) PROVE NotStarted'
  BY <1>1, <1>2 DEF Connect, HangUp, NotStarted, PlainTypes
<1>3. CASE CloseListener
  BY <1>1, <1>3 DEF CloseListener, NotStarted, PlainTypes
<1>4. CASE Sweep
  BY <1>1, <1>4 DEF Sweep, NotStarted, PlainTypes
<1>5. CASE link' = link
  BY <1>1, <1>5 DEF NotStarted
<1>6. \/ \E c \in Clients : Connect(c) \/ HangUp(c)
      \/ CloseListener \/ Sweep \/ link' = link
  BY DEF QuietStep, SetListener, AcceptClosed, AcceptError, StoreFlag,
         WaitDone, WaitTimeout, Signal, MainStep, ServeReturned,
         ShutdownReturned, CloseStore, Exit, vars, connVars
<1> QED
  BY <1>2, <1>3, <1>4, <1>5, <1>6

-----------------------------------------------------------------------------
(* The table of connections. *)

LEMMA MoveConns ==
  ASSUME PlainTypes, NotStarted, ConnsExact, NEW c \in Clients, HandlerMove(c)
  PROVE  ConnsExact'
<1>1. CASE Register(c)
  BY <1>1 DEF PlainTypes, ConnsExact, Registered, Register, Move
<1>2. CASE Unregister(c)
  BY <1>2 DEF PlainTypes, ConnsExact, Registered, Unregister, Move
<1>3. CASE Accept(c)
  BY <1>3 DEF PlainTypes, NotStarted, ConnsExact, Registered, Accept
<1>4. CASE Spawn(c) \/ Done(c)
  BY <1>4 DEF PlainTypes, ConnsExact, Registered, Spawn, Done, Move
<1>5. CASE Dial(c) \/ DialEnd(c) \/ LogOff(c) \/ LinkDead(c) \/ SessionClose(c)
  BY <1>5 DEF PlainTypes, ConnsExact, Registered, Dial, DialEnd, LogOff,
              LinkDead, SessionClose, Move
<1> QED
  BY <1>1, <1>2, <1>3, <1>4, <1>5 DEF HandlerMove

-----------------------------------------------------------------------------
(* The count. *)

LEMMA AliveFinite == IsFiniteSet(Alive(handler))
BY ServerAssumption, FS_Subset DEF Alive

(* wg.Add and wg.Done keep the count equal to the handlers alive. *)
LEMMA MoveCounted ==
  ASSUME PlainTypes, NotStarted, Counted, NEW c \in Clients, HandlerMove(c)
  PROVE  Counted'
<1>1. IsFiniteSet(Alive(handler)) /\ Cardinality(Alive(handler)) \in Nat
  BY AliveFinite, FS_CardinalityType
<1>2. CASE Spawn(c)
  <2>1. Alive(handler') = Alive(handler) \union {c} /\ c \notin Alive(handler)
    BY <1>2 DEF Spawn, Alive, PlainTypes, Handling, Registered
  <2>2. wg' = wg + 1
    BY <1>2 DEF Spawn
  <2> QED
    BY <1>1, <2>1, <2>2, FS_AddElement DEF Counted
<1>3. CASE Done(c)
  <2>1. Alive(handler') = Alive(handler) \ {c} /\ c \in Alive(handler)
    BY <1>3 DEF Done, Move, Alive, PlainTypes, Handling, Registered
  <2>2. wg' = wg - 1
    BY <1>3 DEF Done
  <2> QED
    BY <1>1, <2>1, <2>2, FS_RemoveElement DEF Counted
<1>4. CASE Accept(c) \/ Register(c) \/ Dial(c) \/ DialEnd(c) \/ LogOff(c)
           \/ LinkDead(c) \/ SessionClose(c) \/ Unregister(c)
  <2>1. wg' = wg
    BY <1>4 DEF Accept, Register, Dial, DialEnd, LogOff, LinkDead,
                SessionClose, Unregister
  <2>2. handler[c] \in Handling <=> handler'[c] \in Handling
    BY <1>4 DEF Accept, NotStarted, Register, Dial, DialEnd, LogOff, LinkDead,
                SessionClose, Unregister, Move, PlainTypes, Handling,
                Registered
  <2>3. Alive(handler') = Alive(handler)
    BY <2>2, MoveEffect DEF Alive, PlainTypes
  <2> QED
    BY <2>1, <2>3 DEF Counted
<1> QED
  BY <1>2, <1>3, <1>4 DEF HandlerMove

-----------------------------------------------------------------------------
(* What was swept. *)

LEMMA MoveSwept ==
  ASSUME PlainTypes, NotStarted, SweptPast, SweptSessionsEnded,
         NEW c \in Clients, HandlerMove(c)
  PROVE  SweptPast' /\ SweptSessionsEnded'
<1>1. swept' = swept /\ shutdown' = shutdown
  BY DEF HandlerMove, Accept, Spawn, Register, Dial, DialEnd, LogOff,
         LinkDead, SessionClose, Unregister, Done, shutVars
<1>2. \A d \in Clients : d # c => handler'[d] = handler[d]
  BY MoveEffect DEF PlainTypes
<1>3. handler[c] \in Registered \union {"finish"}
        => handler'[c] \in Registered \union {"finish", "done"}
  BY MoveEffect DEF Moves, PlainTypes, Registered
<1>4. handler[c] # "done"
  BY MoveEffect DEF Moves
<1> QED
  BY <1>1, <1>2, <1>3, <1>4 DEF SweptPast, SweptSessionsEnded, PlainTypes

(* The sweep takes registered connections; a wait ends at count zero. *)
LEMMA QuietSwept ==
  ASSUME IInv, QuietStep
  PROVE  SweptPast' /\ SweptSessionsEnded'
<1>1. handler' = handler
  BY QuietIsQuiet DEF Quiet
<1>2. CASE Sweep
  BY <1>1, <1>2
  DEF Sweep, IInv, ConnsExact, SweptPast, SweptSessionsEnded, Registered
<1>3. CASE WaitDone
  <2>1. Alive(handler) = {}
    BY <1>3, AliveFinite, FS_EmptySet DEF WaitDone, IInv, Counted
  <2>2. \A c \in swept : handler[c] = "done"
    BY <2>1 DEF Alive, IInv, SweptPast, PlainTypes, Handling
  <2> QED
    BY <1>1, <1>3, <2>2
    DEF WaitDone, IInv, SweptPast, SweptSessionsEnded
<1>4. CASE swept' = swept /\ (shutdown' = shutdown \/ shutdown' # "nil")
  BY <1>1, <1>4 DEF IInv, SweptPast, SweptSessionsEnded
<1>5. Sweep \/ WaitDone \/ (swept' = swept /\ (shutdown' = shutdown \/ shutdown' # "nil"))
  BY DEF QuietStep, Connect, HangUp, SetListener, AcceptClosed,
         AcceptError, StoreFlag, CloseListener, WaitTimeout, Signal, MainStep,
         ServeReturned, ShutdownReturned, CloseStore, Exit, vars, shutVars
<1> QED
  BY <1>2, <1>3, <1>4, <1>5

-----------------------------------------------------------------------------
(* The invariant is inductive. *)
LEMMA NextIInv == IInv /\ [Next]_vars => IInv'
<1> SUFFICES ASSUME IInv, [Next]_vars PROVE IInv'
  OBVIOUS
<1>1. CASE QuietStep
  <2>1. handler' = handler /\ conns' = conns /\ wg' = wg
    BY <1>1, QuietIsQuiet DEF Quiet
  <2>2. ConnsExact' /\ Counted'
    BY <2>1 DEF IInv, ConnsExact, Counted
  <2> QED
    BY <1>1, <2>2, QuietTypes, QuietNotStarted, QuietSwept DEF IInv
<1>2. ASSUME NEW c \in Clients, HandlerMove(c) PROVE IInv'
  BY <1>2, MoveTypes, MoveNotStarted, MoveConns, MoveCounted, MoveSwept DEF IInv
<1> QED
  BY <1>1, <1>2, StepKinds

(* With the count, wg is within the bounds that TypeOK gives it. *)
LEMMA IInvTypes == IInv => TypeOK
<1> SUFFICES ASSUME IInv PROVE TypeOK
  OBVIOUS
<1>1. Alive(handler) \in SUBSET Clients
  BY DEF Alive
<1>2. wg \in 0 .. Cardinality(Clients)
  <2>1. Cardinality(Alive(handler)) \in Nat /\ Cardinality(Clients) \in Nat
    BY ServerAssumption, AliveFinite, FS_CardinalityType
  <2>2. Cardinality(Alive(handler)) <= Cardinality(Clients)
    BY <1>1, ServerAssumption, FS_Subset
  <2> QED
    BY <2>1, <2>2 DEF IInv, Counted
<1> QED
  BY <1>2, Zenon DEF IInv, PlainTypes, TypeOK, HandlerPC

(* The invariant holds in every reachable state. *)
LEMMA Invariant == Spec => []IInv
BY InitIInv, NextIInv, PTL DEF Spec

(***************************************************************************)
(* Every variable of the server keeps its type; of the count this says     *)
(* that wg.Done never takes it below zero, which would panic (Serve).      *)
(***************************************************************************)
THEOREM ServerTypes == Spec => []TypeOK
BY Invariant, IInvTypes, PTL

(***************************************************************************)
(* The table of connections holds exactly the connections whose session    *)
(* has begun and has not ended (handle's registration and its defers).     *)
(***************************************************************************)
THEOREM ServerConnsExact == Spec => []ConnsExact
<1>1. IInv => ConnsExact
  BY DEF IInv
<1> QED
  BY <1>1, Invariant, PTL

(***************************************************************************)
(* When Shutdown returns nil every session that it closed has ended: the   *)
(* count lets wg.Wait return only then, and nobody starts them again.      *)
(***************************************************************************)
THEOREM ServerSweptSessionsEnded == Spec => []SweptSessionsEnded
<1>1. IInv => SweptSessionsEnded
  BY DEF IInv
<1> QED
  BY <1>1, Invariant, PTL
=============================================================================
