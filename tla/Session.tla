------------------------------ MODULE Session ------------------------------
(***************************************************************************)
(* One logged-in session with its games door: internal/server/session.go,  *)
(* main.go, games.go and door.go.                                          *)
(*                                                                         *)
(* Four kinds of goroutine meet at the input queue.  The read loop feeds   *)
(* it from the client's connection.  The screen (Session.run) takes menu   *)
(* keys from it, and for each visit to the door dials the door server and  *)
(* starts two pumps: the remote pump paints what the door sends, the local *)
(* pump forwards the queue's bytes.  doorSession waits for the remote pump *)
(* only; the local pump of a past visit may live on.                       *)
(*                                                                         *)
(* A write to the client blocks while a connected client does not read;    *)
(* a write to the door blocks while an open door does not read.            *)
(***************************************************************************)
EXTENDS InputQueue, Integers, SequencesExt

CONSTANTS MaxTyped,    (* bound: bytes that the client's side delivers     *)
          MaxVisits    (* bound: visits to the door that get a connection  *)

Visits == 1 .. MaxVisits

(* The screen reads the queue as reader 0, the local pump of visit d as d. *)
Screen == 0

ASSUME SessionAssumption ==
    /\ MaxTyped \in Nat
    /\ MaxVisits \in Nat
    /\ Readers = 0 .. MaxVisits

VARIABLES typed,     (* history: the bytes conn.Read returned, in order    *)
          taken,     (* history: the bytes readByte returned, in order     *)
          link,      (* the client's connection: "up" or "down"            *)
          listening, (* the client reads what the session writes           *)
          readLoop,  (* the read loop: "run" or "done"                     *)
          sessClosed,(* Session.closed                                     *)
          screen,    (* where Session.run is                               *)
          visit,     (* the number of the latest visit, 0 before the first *)
          result,    (* what run returned                                  *)
          remote,    (* per visit, the remote pump                         *)
          local,     (* per visit, the local pump                          *)
          once,      (* per visit, the sync.Once around kill               *)
          door       (* per visit, the connection to the door server       *)

lineVars   == <<typed, link, listening, readLoop>>
screenVars == <<screen, visit, result, sessClosed>>
doorVars   == <<remote, local, once, door>>
vars       == <<queueVars, taken, lineVars, screenVars, doorVars>>

Errors  == {"ErrClosed", "ErrQueueAbort", "ErrAbort", "ErrHangUp"}
Menus   == {"main", "games"}
Closing == {"closing", "closeQueue", "closeConn"}
PumpPC  == {"none", "read", "write", "kill", "abort", "done"}
Stopped == {"none", "done"}

SessionTypeOK ==
    /\ typed \in Seq(Bytes) /\ taken \in Seq(Bytes)
    /\ link \in {"up", "down"}
    /\ listening \in BOOLEAN
    /\ readLoop \in {"run", "done"}
    /\ sessClosed \in BOOLEAN
    /\ screen \in Menus \union Closing \union {"dial", "door", "done"}
    /\ visit \in 0 .. MaxVisits
    /\ result \in Errors \union {"none", "nil"}
    /\ remote \in [Visits -> PumpPC]
    /\ local \in [Visits -> PumpPC]
    /\ once \in [Visits -> {"new", "busy", "done"}]
    /\ door \in [Visits -> {"none", "open", "shut", "closed"}]

TypeOK == QueueTypeOK /\ SessionTypeOK

(* run has logged the user in and called mainMenu. *)
Init ==
    /\ QueueInit
    /\ typed = <<>> /\ taken = <<>>
    /\ link = "up" /\ listening = TRUE
    /\ readLoop = "run"
    /\ sessClosed = FALSE
    /\ screen = "main" /\ visit = 0 /\ result = "none"
    /\ remote = [d \in Visits |-> "none"]
    /\ local  = [d \in Visits |-> "none"]
    /\ once   = [d \in Visits |-> "new"]
    /\ door   = [d \in Visits |-> "none"]

(* writeRaw returns: the session is closed, conn.Write has room, or it     *)
(* fails on a dead connection.                                             *)
CanWrite == sessClosed \/ listening \/ link = "down"

-----------------------------------------------------------------------------
(* The client and the server's Shutdown, which may close the connection.   *)

LinkDown ==
    /\ link = "up"
    /\ link' = "down"
    /\ UNCHANGED <<queueVars, taken, typed, listening, readLoop,
                   screenVars, doorVars>>

(* The client stops or resumes reading its side of the connection. *)
ClientToggle ==
    /\ link = "up"
    /\ listening' = ~listening
    /\ UNCHANGED <<queueVars, taken, typed, link, readLoop,
                   screenVars, doorVars>>

-----------------------------------------------------------------------------
(* readLoop. *)

(* conn.Read returned bs, which holds no telnet command. *)
ReadChunk(bs) ==
    /\ readLoop = "run"
    /\ link = "up"
    /\ typed' = typed \o bs
    /\ QueueAppend(bs)
    /\ UNCHANGED <<taken, link, listening, readLoop, screenVars, doorVars>>

(* Mutant: the read loop forgets to close the queue. *)
ReadErrorSilent ==
    /\ readLoop = "run"
    /\ link = "down"
    /\ readLoop' = "done"
    /\ UNCHANGED <<queueVars, taken, typed, link, listening,
                   screenVars, doorVars>>

ReadError ==
    /\ readLoop = "run"
    /\ link = "down"
    /\ readLoop' = "done"
    /\ IF sessClosed THEN UNCHANGED queueVars ELSE QueueClose
    /\ UNCHANGED <<taken, typed, link, listening, screenVars, doorVars>>

-----------------------------------------------------------------------------
(* The menus: readSingleKey in mainMenu and gamesListMenu. *)

EndRun(r) == screen' = "closing" /\ result' = r

Goto(s) == screen' = s /\ UNCHANGED result

(* Mutant: run hands the errQuit of the main menu on to handle. *)
MenuActQuitEscapes(b) ==
    CASE b = "^C"                    -> EndRun("ErrAbort")
      [] b = "^D"                    -> EndRun("ErrHangUp")
      [] screen = "main"  /\ b = "l" -> EndRun("errQuit")
      [] screen = "main"  /\ b = "g" -> Goto("games")
      [] screen = "games" /\ b = "w" -> Goto("dial")
      [] screen = "games" /\ b = "q" -> Goto("main")
      [] OTHER                       -> Goto(screen)

(* What a menu does with a key; a key it does not know repaints it.  "w"   *)
(* stands for both doors, and the keys of the main menu's other screens    *)
(* (r, p, u) are not typed here.                                           *)
MenuAct(b) ==
    CASE b = "^C"                    -> EndRun("ErrAbort")
      [] b = "^D"                    -> EndRun("ErrHangUp")
      [] screen = "main"  /\ b = "l" -> EndRun("nil")
      [] screen = "main"  /\ b = "g" -> Goto("games")
      [] screen = "games" /\ b = "w" -> Goto("dial")
      [] screen = "games" /\ b = "q" -> Goto("main")
      [] OTHER                       -> Goto(screen)

MenuKey(b) ==
    /\ screen \in Menus
    /\ CanWrite
    /\ ReadByte(Screen, b)
    /\ taken' = Append(taken, b)
    /\ MenuAct(b)
    /\ UNCHANGED <<lineVars, visit, sessClosed, doorVars>>

(* Any error of readByte is returned up to run, and ends the session. *)
MenuErr(e) ==
    /\ screen \in Menus
    /\ CanWrite
    /\ ReadErr(Screen, e)
    /\ EndRun(e)
    /\ UNCHANGED <<taken, lineVars, visit, sessClosed, doorVars>>

MenuWait ==
    /\ screen \in Menus
    /\ CanWrite
    /\ ReadWait(Screen)
    /\ UNCHANGED <<taken, lineVars, screenVars, doorVars>>

-----------------------------------------------------------------------------
(* doorGames and doorSession. *)

(* The door is not configured, refuses, or does not answer within 10 s. *)
DialFail ==
    /\ screen = "dial"
    /\ CanWrite
    /\ Goto("games")
    /\ UNCHANGED <<queueVars, taken, lineVars, visit, sessClosed, doorVars>>

DialOk ==
    /\ screen = "dial"
    /\ CanWrite
    /\ visit < MaxVisits
    /\ visit' = visit + 1
    /\ Goto("door")
    /\ remote' = [remote EXCEPT ![visit'] = "read"]
    /\ local' = [local EXCEPT ![visit'] = "read"]
    /\ door' = [door EXCEPT ![visit'] = "open"]
    /\ UNCHANGED <<queueVars, taken, lineVars, sessClosed, once>>

(* Mutant: doorSession returns as soon as the door's connection is closed. *)
LeaveDoorEarly ==
    /\ screen = "door"
    /\ door[visit] # "open"
    /\ Goto("games")
    /\ door' = [door EXCEPT ![visit] = "closed"]
    /\ UNCHANGED <<queueVars, taken, lineVars, visit, sessClosed,
                   remote, local, once>>

(* <-remoteDone, then the deferred conn.Close. *)
LeaveDoor ==
    /\ screen = "door"
    /\ remote[visit] = "done"
    /\ Goto("games")
    /\ door' = [door EXCEPT ![visit] = "closed"]
    /\ UNCHANGED <<queueVars, taken, lineVars, visit, sessClosed,
                   remote, local, once>>

(* The door server ends the game or dies. *)
DoorHangup(d) ==
    /\ door[d] = "open"
    /\ door' = [door EXCEPT ![d] = "shut"]
    /\ UNCHANGED <<queueVars, taken, lineVars, screenVars,
                   remote, local, once>>

-----------------------------------------------------------------------------
(* The remote pump: conn.Read, then writeRaw to the client; kill at the    *)
(* first error of conn.Read.                                               *)

RemoteData(d) ==
    /\ remote[d] = "read"
    /\ door[d] = "open"
    /\ remote' = [remote EXCEPT ![d] = "write"]
    /\ UNCHANGED <<queueVars, taken, lineVars, screenVars, local, once, door>>

RemoteWrite(d) ==
    /\ remote[d] = "write"
    /\ CanWrite
    /\ remote' = [remote EXCEPT ![d] = "read"]
    /\ UNCHANGED <<queueVars, taken, lineVars, screenVars, local, once, door>>

(* Mutant: the error of conn.Read is ignored and the loop goes round. *)
RemoteEndIgnored(d) ==
    /\ remote[d] = "read"
    /\ door[d] \in {"shut", "closed"}
    /\ remote' = [remote EXCEPT ![d] = "write"]
    /\ UNCHANGED <<queueVars, taken, lineVars, screenVars, local, once, door>>

RemoteEnd(d) ==
    /\ remote[d] = "read"
    /\ door[d] \in {"shut", "closed"}
    /\ remote' = [remote EXCEPT ![d] = "kill"]
    /\ UNCHANGED <<queueVars, taken, lineVars, screenVars, local, once, door>>

-----------------------------------------------------------------------------
(* The local pump: readByte, then conn.Write, whose error is ignored.      *)

AfterLocalByte(b) == IF b = "^D" THEN "kill" ELSE "write"

LocalByte(d, b) ==
    /\ local[d] = "read"
    /\ ReadByte(d, b)
    /\ taken' = Append(taken, b)
    /\ local' = [local EXCEPT ![d] = AfterLocalByte(b)]
    /\ UNCHANGED <<lineVars, screenVars, remote, once, door>>

LocalErr(d, e) ==
    /\ local[d] = "read"
    /\ ReadErr(d, e)
    /\ local' = [local EXCEPT ![d] = "kill"]
    /\ UNCHANGED <<taken, lineVars, screenVars, remote, once, door>>

LocalWait(d) ==
    /\ local[d] = "read"
    /\ ReadWait(d)
    /\ UNCHANGED <<taken, lineVars, screenVars, doorVars>>

LocalWrite(d) ==
    /\ local[d] = "write"
    /\ local' = [local EXCEPT ![d] = "read"]
    /\ UNCHANGED <<queueVars, taken, lineVars, screenVars, remote, once, door>>

-----------------------------------------------------------------------------
(* kill, called by each pump as it returns.  sync.Once: the first caller   *)
(* closes the door's connection and aborts the queue, a second one blocks  *)
(* until the first has finished.                                           *)

SetPump(side, d, pc) ==
    IF side = "remote"
    THEN remote' = [remote EXCEPT ![d] = pc] /\ UNCHANGED local
    ELSE local' = [local EXCEPT ![d] = pc] /\ UNCHANGED remote

AtPump(side, d, pc) ==
    IF side = "remote" THEN remote[d] = pc ELSE local[d] = pc

(* Mutant: kill aborts the queue but leaves the connection open. *)
KillKeepConn(side, d) ==
    /\ AtPump(side, d, "kill")
    /\ once[d] = "new"
    /\ once' = [once EXCEPT ![d] = "busy"]
    /\ SetPump(side, d, "abort")
    /\ UNCHANGED <<queueVars, taken, lineVars, screenVars, door>>

KillClose(side, d) ==
    /\ AtPump(side, d, "kill")
    /\ once[d] = "new"
    /\ once' = [once EXCEPT ![d] = "busy"]
    /\ door' = [door EXCEPT ![d] = "closed"]
    /\ SetPump(side, d, "abort")
    /\ UNCHANGED <<queueVars, taken, lineVars, screenVars>>

KillAbort(side, d) ==
    /\ AtPump(side, d, "abort")
    /\ QueueAbort
    /\ once' = [once EXCEPT ![d] = "done"]
    /\ SetPump(side, d, "done")
    /\ UNCHANGED <<taken, lineVars, screenVars, door>>

KillSecond(side, d) ==
    /\ AtPump(side, d, "kill")
    /\ once[d] = "done"
    /\ SetPump(side, d, "done")
    /\ UNCHANGED <<queueVars, taken, lineVars, screenVars, once, door>>

-----------------------------------------------------------------------------
(* handle calls Session.close after run. *)

CloseFlag ==
    /\ screen = "closing"
    /\ sessClosed' = TRUE
    /\ Goto("closeQueue")
    /\ UNCHANGED <<queueVars, taken, lineVars, visit, doorVars>>

CloseQueue ==
    /\ screen = "closeQueue"
    /\ QueueClose
    /\ Goto("closeConn")
    /\ UNCHANGED <<taken, lineVars, visit, sessClosed, doorVars>>

CloseConn ==
    /\ screen = "closeConn"
    /\ link' = "down"
    /\ Goto("done")
    /\ UNCHANGED <<queueVars, taken, typed, listening, readLoop,
                   visit, sessClosed, doorVars>>

-----------------------------------------------------------------------------
(* The goroutines. *)

ReadLoopStep ==
    \/ \E n \in 1 .. MaxTyped - Len(typed) :
          \E bs \in [1 .. n -> Bytes] : ReadChunk(bs)
    \/ ReadError

MenuStep ==
    \/ \E b \in Bytes : MenuKey(b)
    \/ \E e \in Errors : MenuErr(e)
    \/ MenuWait

DialStep  == DialFail \/ DialOk
CloseStep == CloseFlag \/ CloseQueue \/ CloseConn

ScreenStep == MenuStep \/ DialStep \/ LeaveDoor \/ CloseStep

KillStep(side, d) ==
    KillClose(side, d) \/ KillAbort(side, d) \/ KillSecond(side, d)

RemoteStep(d) ==
    RemoteData(d) \/ RemoteWrite(d) \/ RemoteEnd(d) \/ KillStep("remote", d)

LocalStep(d) ==
    \/ \E b \in Bytes : LocalByte(d, b)
    \/ \E e \in Errors : LocalErr(d, e)
    \/ LocalWait(d)
    \/ LocalWrite(d)
    \/ KillStep("local", d)

AllStopped ==
    /\ screen = "done"
    /\ readLoop = "done"
    /\ \A d \in Visits : remote[d] \in Stopped /\ local[d] \in Stopped

(* The session is over: nothing runs any more. *)
Finished == AllStopped /\ UNCHANGED vars

Next ==
    \/ LinkDown
    \/ ClientToggle
    \/ ReadLoopStep
    \/ ScreenStep
    \/ \E d \in Visits : DoorHangup(d) \/ RemoteStep(d) \/ LocalStep(d)
    \/ Finished

(***************************************************************************)
(* The scheduler runs every goroutine that can go on.  Nothing is assumed  *)
(* of the client, of the network or of the door: it may never send, never  *)
(* read (LocalWrite to an open door is not fair) and never hang up.        *)
(***************************************************************************)
Fairness ==
    /\ WF_vars(ReadError)
    /\ WF_vars(ScreenStep)
    /\ \A d \in Visits :
        /\ WF_vars(RemoteWrite(d) \/ RemoteEnd(d) \/ KillStep("remote", d))
        /\ WF_vars(\/ \E b \in Bytes : LocalByte(d, b)
                   \/ \E e \in Errors : LocalErr(d, e)
                   \/ LocalWait(d)
                   \/ KillStep("local", d))
        /\ WF_vars(door[d] # "open" /\ LocalWrite(d))

Spec == Init /\ [][Next]_vars
FairSpec == Spec /\ Fairness

-----------------------------------------------------------------------------
(***************************************************************************)
(* Safety.                                                                 *)
(***************************************************************************)

(***************************************************************************)
(* Type-ahead keeps its order across menus and doors: what the readers     *)
(* took, followed by what is still queued, is what the client sent; once   *)
(* the queue is closed later bytes may be missing (readByte, append, and   *)
(* abort, which must not flush the queue).                                 *)
(***************************************************************************)
InputInOrder ==
    IF closed THEN IsPrefix(taken \o buf, typed) ELSE taken \o buf = typed

(***************************************************************************)
(* Only a dead connection is reported as ErrClosed, and only after every   *)
(* byte the client sent has been acted upon (readByte drains the queue     *)
(* before it tests closed).                                                *)
(***************************************************************************)
NothingTypedIsLost ==
    result = "ErrClosed" => link = "down" /\ taken = typed

(***************************************************************************)
(* Once doorSession has returned nothing of that door reaches the client:  *)
(* the remote pump of a visit runs only while the screen is in that visit. *)
(***************************************************************************)
RemotePumpConfined ==
    \A d \in Visits :
        remote[d] \notin Stopped => screen = "door" /\ visit = d

(***************************************************************************)
(* ErrQueueAbort "means the current phase is over, stop reading, not that  *)
(* the session is done" (session.go:23).                                   *)
(***************************************************************************)
AbortEndsOnlyThePhase == result # "ErrQueueAbort"

(***************************************************************************)
(* "The door's local pump must be gone: queued input is not consumed" by   *)
(* it (door_test.go:153): a local pump takes a byte only while the screen  *)
(* is in its door.                                                         *)
(***************************************************************************)
LocalPumpConfined ==
    [][\A d \in Visits :
         (\E b \in Bytes : LocalByte(d, b)) => screen = "door" /\ visit = d]_vars

-----------------------------------------------------------------------------
(***************************************************************************)
(* Liveness.                                                               *)
(***************************************************************************)

(* A local pump is in a conn.Write to a door that does not read. *)
StuckInDoor == \E d \in Visits : local[d] = "write" /\ door[d] = "open"

(***************************************************************************)
(* A client that goes away, or a Shutdown, ends every goroutine of the     *)
(* session, the pumps of past visits included.  The one exception: a door  *)
(* that stays connected and does not read keeps its local pump from seeing *)
(* ErrClosed, and with it the session.                                     *)
(***************************************************************************)
LinkDownEndsAll == (link = "down") ~> (AllStopped \/ StuckInDoor)

(***************************************************************************)
(* When the door server hangs up, the user gets back to the menu (or off   *)
(* the line), as long as the client reads.                                 *)
(***************************************************************************)
DoorHangupReturns ==
    <>[]listening =>
        \A d \in Visits :
            (screen = "door" /\ visit = d /\ door[d] # "open")
                ~> ~(screen = "door" /\ visit = d)

(* Only the pump of the current visit reads the queue. *)
NoOldPump == \A d \in Visits : d # visit => local[d] \in Stopped

(***************************************************************************)
(* "Ctrl-D returns to the BBS" (door.go): a Ctrl-D that is next in the     *)
(* queue of a running door ends the visit, as long as the client reads and *)
(* no pump of an earlier visit steals the key.                             *)
(***************************************************************************)
CtrlDReturns ==
    <>[]listening =>
        \A d \in Visits :
            ( /\ screen = "door" /\ visit = d
              /\ NoOldPump
              /\ local[d] = "read"
              /\ buf # <<>> /\ Head(buf) = "^D" )
                ~> ~(screen = "door" /\ visit = d)
=============================================================================
