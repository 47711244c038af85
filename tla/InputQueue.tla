----------------------------- MODULE InputQueue -----------------------------
(***************************************************************************)
(* The input queue of a session: internal/server/session.go, lines 28-89.  *)
(*                                                                         *)
(* The read loop appends the bytes of the client; the screen code, or a    *)
(* door's local pump, takes them one at a time.  Every operation runs      *)
(* under the queue's mutex, so each is one step.  A reader that finds      *)
(* nothing calls cond.Wait and is in "waiting" until a Broadcast; a woken  *)
(* reader tests the loop condition again, competing with everyone else.    *)
(***************************************************************************)
EXTENDS Sequences

CONSTANTS Bytes,     (* the byte values that the screens tell apart        *)
          Readers    (* the goroutines that may call readByte              *)

VARIABLES buf,       (* inputQueue.buf                                     *)
          closed,    (* inputQueue.closed                                  *)
          aborted,   (* inputQueue.aborted                                 *)
          waiting    (* the readers blocked in cond.Wait                   *)

queueVars == <<buf, closed, aborted, waiting>>

QueueTypeOK ==
    /\ buf \in Seq(Bytes)
    /\ closed \in BOOLEAN
    /\ aborted \in BOOLEAN
    /\ waiting \subseteq Readers

(* newInputQueue *)
QueueInit ==
    /\ buf = <<>>
    /\ closed = FALSE
    /\ aborted = FALSE
    /\ waiting = {}

(* cond.Broadcast: every waiting reader becomes runnable. *)
Broadcast == waiting' = {}

(***************************************************************************)
(* append: drops the bytes once the queue is closed; otherwise it also     *)
(* takes back an abort that no reader has seen yet.                        *)
(***************************************************************************)
QueueAppend(bs) ==
    \/ /\ closed
       /\ UNCHANGED queueVars
    \/ /\ ~closed
       /\ aborted' = FALSE
       /\ buf' = buf \o bs
       /\ Broadcast
       /\ UNCHANGED closed

QueueClose ==
    /\ closed' = TRUE
    /\ Broadcast
    /\ UNCHANGED <<buf, aborted>>

(* Mutants of abort: no wake-up; and an abort that discards type-ahead. *)
QueueAbortSilent ==
    /\ aborted' = TRUE
    /\ UNCHANGED <<buf, closed, waiting>>

QueueAbortFlush ==
    /\ aborted' = TRUE
    /\ buf' = <<>>
    /\ Broadcast
    /\ UNCHANGED closed

QueueAbort ==
    /\ aborted' = TRUE
    /\ Broadcast
    /\ UNCHANGED <<buf, closed>>

-----------------------------------------------------------------------------
(***************************************************************************)
(* readByte by reader r has three outcomes: a byte, an error, or a wait.   *)
(* Queued bytes come first, then ErrClosed, then ErrQueueAbort, which      *)
(* whichever reader gets there first consumes.                             *)
(***************************************************************************)
ReadByte(r, b) ==
    /\ r \notin waiting
    /\ buf # <<>>
    /\ b = Head(buf)
    /\ buf' = Tail(buf)
    /\ UNCHANGED <<closed, aborted, waiting>>

(* Mutant: the closed flag is tested before the buffer. *)
ReadErrClosedFirst(r, e) ==
    /\ r \notin waiting
    /\ \/ /\ closed
          /\ e = "ErrClosed"
          /\ UNCHANGED aborted
       \/ /\ buf = <<>>
          /\ ~closed
          /\ aborted
          /\ e = "ErrQueueAbort"
          /\ aborted' = FALSE
    /\ UNCHANGED <<buf, closed, waiting>>

ReadErr(r, e) ==
    /\ r \notin waiting
    /\ buf = <<>>
    /\ \/ /\ closed
          /\ e = "ErrClosed"
          /\ UNCHANGED aborted
       \/ /\ ~closed
          /\ aborted
          /\ e = "ErrQueueAbort"
          /\ aborted' = FALSE
    /\ UNCHANGED <<buf, closed, waiting>>

ReadWait(r) ==
    /\ r \notin waiting
    /\ buf = <<>>
    /\ ~closed
    /\ ~aborted
    /\ waiting' = waiting \union {r}
    /\ UNCHANGED <<buf, closed, aborted>>

-----------------------------------------------------------------------------
(***************************************************************************)
(* No lost wake-up (readByte's cond.Wait against append, close and abort): *)
(* a reader sleeps only while the queue has nothing to tell it.            *)
(***************************************************************************)
NoLostWakeup ==
    waiting # {} => /\ buf = <<>>
                    /\ ~closed
                    /\ ~aborted
=============================================================================
