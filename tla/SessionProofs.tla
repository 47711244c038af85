--------------------------- MODULE SessionProofs ---------------------------
(***************************************************************************)
(* Proofs about Session, for every set of bytes and every bound.           *)
(***************************************************************************)
EXTENDS Session, SequenceTheorems, TLAPS

-----------------------------------------------------------------------------
(* What every operation of the input queue keeps, whoever calls it: its    *)
(* type, and that no reader sleeps through news.                           *)

QueueOK == QueueTypeOK /\ NoLostWakeup

(* newInputQueue returns a queue that satisfies the invariant. *)
LEMMA QueueInitOK == QueueInit => QueueOK
<1>1. QueueInit => buf \in Seq(Bytes) /\ waiting \subseteq Readers
  BY EmptySeq DEF QueueInit
<1> QED
  BY <1>1, Zenon DEF QueueInit, QueueOK, QueueTypeOK, NoLostWakeup

(* A step that leaves the queue alone keeps the invariant. *)
LEMMA QueueIdleOK == QueueOK /\ UNCHANGED queueVars => QueueOK'
<1> SUFFICES ASSUME QueueOK, UNCHANGED queueVars PROVE QueueOK'
  OBVIOUS
<1>1. /\ buf' = buf /\ waiting' = waiting
      /\ closed' = closed /\ aborted' = aborted
  BY DEF queueVars
<1> QED
  BY <1>1, Zenon DEF QueueOK, QueueTypeOK, NoLostWakeup

(* append, for every chunk. *)
LEMMA QueueAppendOK ==
  ASSUME QueueOK, NEW bs \in Seq(Bytes), QueueAppend(bs)
  PROVE  QueueOK'
<1>1. CASE UNCHANGED queueVars
  BY <1>1, QueueIdleOK
<1>2. CASE ~closed /\ aborted' = FALSE /\ buf' = buf \o bs /\ Broadcast
           /\ UNCHANGED closed
  <2>1. buf' \in Seq(Bytes)
    BY <1>2, ConcatProperties DEF QueueOK, QueueTypeOK
  <2> QED
    BY <1>2, <2>1, Zenon
    DEF QueueOK, QueueTypeOK, NoLostWakeup, Broadcast
<1> QED
  BY <1>1, <1>2 DEF QueueAppend

(* close keeps the invariant, because it wakes everybody. *)
LEMMA QueueCloseOK == QueueOK /\ QueueClose => QueueOK'
BY Zenon DEF QueueClose, Broadcast, QueueOK, QueueTypeOK, NoLostWakeup

(* abort keeps the invariant, because it wakes everybody. *)
LEMMA QueueAbortOK == QueueOK /\ QueueAbort => QueueOK'
BY Zenon DEF QueueAbort, Broadcast, QueueOK, QueueTypeOK, NoLostWakeup

(* The three outcomes of readByte. *)
LEMMA ReadByteOK ==
  ASSUME QueueOK, NEW r \in Readers, NEW b, ReadByte(r, b)
  PROVE  QueueOK'
<1>1. buf' \in Seq(Bytes)
  BY HeadTailProperties DEF ReadByte, QueueOK, QueueTypeOK
<1> QED
  BY <1>1, Zenon DEF ReadByte, QueueOK, QueueTypeOK, NoLostWakeup

(* A reader that returns an error keeps the invariant. *)
LEMMA ReadErrOK ==
  ASSUME QueueOK, NEW r \in Readers, NEW e, ReadErr(r, e)
  PROVE  QueueOK'
<1>1. CASE aborted' = aborted
  BY <1>1, Zenon DEF ReadErr, QueueOK, QueueTypeOK, NoLostWakeup
<1>2. CASE aborted' = FALSE
  BY <1>2, Zenon DEF ReadErr, QueueOK, QueueTypeOK, NoLostWakeup
<1> QED
  BY <1>1, <1>2, Zenon DEF ReadErr

(* A reader that goes to sleep has tested all three conditions. *)
LEMMA ReadWaitOK ==
  ASSUME QueueOK, NEW r \in Readers, ReadWait(r)
  PROVE  QueueOK'
<1>1. waiting' \subseteq Readers
  BY DEF ReadWait, QueueOK, QueueTypeOK
<1> QED
  BY <1>1, Zenon DEF ReadWait, QueueOK, QueueTypeOK, NoLostWakeup

-----------------------------------------------------------------------------
Sides == {"remote", "local"}

-----------------------------------------------------------------------------
(* Sequences. *)

LEMMA PrefixExtend ==
  ASSUME NEW S, NEW s \in Seq(S), NEW t \in Seq(S), NEW u \in Seq(S),
         IsPrefix(s, t)
  PROVE  IsPrefix(s, t \o u)
<1>1. Len(s) \in Nat /\ Len(t) \in Nat /\ Len(s) <= Len(t)
  BY LenProperties DEF IsPrefix
<1>2. Len(t \o u) = Len(t) + Len(u) /\ Len(u) \in Nat
  BY ConcatProperties, LenProperties
<1>3. SubSeq(t, 1, Len(s)) = SubSeq(t \o u, 1, Len(s))
  BY <1>1, <1>2
<1> QED
  BY <1>1, <1>2, <1>3 DEF IsPrefix

(* A sequence is a prefix of itself. *)
LEMMA PrefixSelf ==
  ASSUME NEW S, NEW s \in Seq(S)
  PROVE  IsPrefix(s, s)
BY LenProperties DEF IsPrefix

(* readByte moves the head of buf to the end of taken. *)
LEMMA MoveHead ==
  ASSUME NEW S, NEW s \in Seq(S), NEW t \in Seq(S), t # <<>>
  PROVE  Append(s, Head(t)) \o Tail(t) = s \o t
BY HeadTailProperties

(* A chunk that conn.Read returns is a sequence of bytes. *)
LEMMA ChunkIsSeq ==
  ASSUME NEW S, NEW k \in Int, NEW n \in 1 .. k, NEW c \in [1 .. n -> S]
  PROVE  c \in Seq(S)
BY SeqDef

-----------------------------------------------------------------------------
(* The queue: whatever a step of the session does to it is one operation. *)

ReadOutcome(r) ==
    \/ \E b \in Bytes : ReadByte(r, b)
    \/ \E e \in Errors : ReadErr(r, e)
    \/ ReadWait(r)

QueueOp ==
    \/ UNCHANGED queueVars
    \/ \E bs \in Seq(Bytes) : QueueAppend(bs)
    \/ QueueClose
    \/ QueueAbort
    \/ \E r \in Readers : ReadOutcome(r)

(* A step of the session does at most one queue operation. *)
LEMMA QueueEffect ==
  ASSUME SessionTypeOK, Next
  PROVE  QueueOp
<1>1. Screen \in Readers /\ Visits \subseteq Readers
  BY SessionAssumption DEF Screen, Visits
<1>2. CASE LinkDown \/ ClientToggle \/ Finished
  BY <1>2 DEF LinkDown, ClientToggle, Finished, vars, QueueOp
<1>3. CASE ReadLoopStep
  <2>1. CASE ReadError
    BY <2>1 DEF ReadError, QueueOp
  <2>2. ASSUME NEW n \in 1 .. MaxTyped - Len(typed),
               NEW bs \in [1 .. n -> Bytes], ReadChunk(bs)
        PROVE  QueueAppend(bs) /\ bs \in Seq(Bytes)
    <3>1. MaxTyped - Len(typed) \in Int
      BY LenProperties, SessionAssumption DEF SessionTypeOK
    <3> QED
      BY <2>2, <3>1, ChunkIsSeq DEF ReadChunk
  <2> QED
    BY <1>3, <2>1, <2>2, Zenon DEF ReadLoopStep, QueueOp
<1>4. CASE ScreenStep
  <2>1. CASE MenuStep
    BY <1>1, <2>1 DEF MenuStep, MenuKey, MenuErr, MenuWait, QueueOp, ReadOutcome
  <2>2. CASE DialStep \/ LeaveDoor
    BY <2>2 DEF DialStep, DialFail, DialOk, LeaveDoor, QueueOp
  <2>3. CASE CloseStep
    BY <2>3 DEF CloseStep, CloseFlag, CloseQueue, CloseConn, QueueOp
  <2> QED
    BY <1>4, <2>1, <2>2, <2>3 DEF ScreenStep
<1>5. ASSUME NEW side, NEW d \in Visits, KillStep(side, d)
      PROVE  UNCHANGED queueVars \/ QueueAbort
  BY <1>5 DEF KillStep, KillClose, KillAbort, KillSecond
<1>6. ASSUME NEW d \in Visits, DoorHangup(d) \/ RemoteStep(d)
      PROVE  UNCHANGED queueVars \/ QueueAbort
  BY <1>5, <1>6
  DEF DoorHangup, RemoteStep, RemoteData, RemoteWrite, RemoteEnd
<1>7. ASSUME NEW d \in Visits, LocalStep(d)
      PROVE  UNCHANGED queueVars \/ QueueAbort \/ ReadOutcome(d)
  BY <1>5, <1>7 DEF LocalStep, LocalByte, LocalErr, LocalWait, LocalWrite,
                      ReadOutcome
<1>8. CASE \E d \in Visits : DoorHangup(d) \/ RemoteStep(d) \/ LocalStep(d)
  BY <1>1, <1>6, <1>7, <1>8, Zenon DEF QueueOp
<1>9. \/ LinkDown \/ ClientToggle \/ Finished
      \/ ReadLoopStep \/ ScreenStep
      \/ \E d \in Visits : DoorHangup(d) \/ RemoteStep(d) \/ LocalStep(d)
  BY Zenon DEF Next
<1> QED
  BY <1>2, <1>3, <1>4, <1>8, <1>9, Zenon

(* So the invariant of the queue is kept by every step. *)
LEMMA QueueStep == SessionTypeOK /\ QueueOK /\ [Next]_vars => QueueOK'
<1>1. ASSUME SessionTypeOK, QueueOK, Next PROVE QueueOK'
  BY <1>1, QueueEffect, QueueIdleOK, QueueAppendOK, QueueCloseOK, QueueAbortOK,
     ReadByteOK, ReadErrOK, ReadWaitOK, Zenon DEF QueueOp, ReadOutcome
<1>2. UNCHANGED vars => UNCHANGED queueVars
  BY DEF vars
<1> QED
  BY <1>1, <1>2, QueueIdleOK, Zenon

-----------------------------------------------------------------------------
(* Types. *)

LEMMA TypeInit == Init => SessionTypeOK
<1> SUFFICES ASSUME Init PROVE SessionTypeOK
  OBVIOUS
<1>1. typed \in Seq(Bytes) /\ taken \in Seq(Bytes) /\ visit \in 0 .. MaxVisits
  BY SessionAssumption, EmptySeq DEF Init
<1>2. /\ remote \in [Visits -> PumpPC]
      /\ local \in [Visits -> PumpPC]
      /\ once \in [Visits -> {"new", "busy", "done"}]
      /\ door \in [Visits -> {"none", "open", "shut", "closed"}]
  BY DEF Init, PumpPC
<1>3. /\ screen \in Menus \union Closing \union {"dial", "door", "done"}
      /\ result \in Errors \union {"none", "nil"}
  BY DEF Init, Menus
<1>4. /\ link \in {"up", "down"} /\ readLoop \in {"run", "done"}
      /\ listening \in BOOLEAN /\ sessClosed \in BOOLEAN
  BY Zenon DEF Init
<1> QED
  BY <1>1, <1>2, <1>3, <1>4, Zenon DEF SessionTypeOK

(* Every step keeps the types of the session. *)
LEMMA TypeStep == TypeOK /\ [Next]_vars => SessionTypeOK'
<1> SUFFICES ASSUME SessionTypeOK, QueueTypeOK, [Next]_vars
             PROVE  SessionTypeOK'
  BY DEF TypeOK
<1> USE SessionAssumption
    DEF SessionTypeOK, queueVars, lineVars, screenVars, doorVars, Visits,
        Errors, Menus, Closing, PumpPC
<1>1. CASE LinkDown
  BY <1>1 DEF LinkDown
<1>2. CASE ClientToggle
  BY <1>2 DEF ClientToggle
<1>3. ASSUME NEW n \in 1 .. MaxTyped - Len(typed), NEW bs \in [1 .. n -> Bytes],
             ReadChunk(bs)
      PROVE  SessionTypeOK'
  <2>1. MaxTyped - Len(typed) \in Int
    BY LenProperties
  <2>2. bs \in Seq(Bytes)
    BY <2>1, ChunkIsSeq
  <2> QED
    BY <1>3, <2>2 DEF ReadChunk
<1>4. CASE ReadError
  BY <1>4 DEF ReadError
<1>5. ASSUME NEW b \in Bytes,
             MenuKey(b)
      PROVE  SessionTypeOK'
  BY <1>5 DEF MenuKey, MenuAct, EndRun, Goto, Menus
<1>6. ASSUME NEW e \in Errors,
             MenuErr(e)
      PROVE  SessionTypeOK'
  BY <1>6 DEF MenuErr, EndRun
<1>7. CASE MenuWait
  BY <1>7 DEF MenuWait
<1>8. CASE DialFail
  BY <1>8 DEF DialFail, Goto
<1>9. CASE DialOk
  BY <1>9 DEF DialOk, Goto
<1>10. CASE LeaveDoor
  BY <1>10 DEF LeaveDoor, Goto
<1>11. CASE CloseFlag
  BY <1>11 DEF CloseFlag, Goto
<1>12. CASE CloseQueue
  BY <1>12 DEF CloseQueue, Goto
<1>13. CASE CloseConn
  BY <1>13 DEF CloseConn, Goto
<1>14. ASSUME NEW d \in Visits,
             DoorHangup(d)
      PROVE  SessionTypeOK'
  BY <1>14 DEF DoorHangup
<1>15. ASSUME NEW d \in Visits,
             RemoteData(d)
      PROVE  SessionTypeOK'
  BY <1>15 DEF RemoteData
<1>16. ASSUME NEW d \in Visits,
             RemoteWrite(d)
      PROVE  SessionTypeOK'
  BY <1>16 DEF RemoteWrite
<1>17. ASSUME NEW d \in Visits,
             RemoteEnd(d)
      PROVE  SessionTypeOK'
  BY <1>17 DEF RemoteEnd
<1>18. ASSUME NEW d \in Visits, NEW b \in Bytes,
             LocalByte(d, b)
      PROVE  SessionTypeOK'
  BY <1>18 DEF LocalByte, AfterLocalByte
<1>19. ASSUME NEW d \in Visits, NEW e \in Errors,
             LocalErr(d, e)
      PROVE  SessionTypeOK'
  BY <1>19 DEF LocalErr
<1>20. ASSUME NEW d \in Visits,
             LocalWait(d)
      PROVE  SessionTypeOK'
  BY <1>20 DEF LocalWait
<1>21. ASSUME NEW d \in Visits,
             LocalWrite(d)
      PROVE  SessionTypeOK'
  BY <1>21 DEF LocalWrite
<1>22. ASSUME NEW d \in Visits, NEW side \in Sides,
             KillClose(side, d)
      PROVE  SessionTypeOK'
  BY <1>22 DEF KillClose, SetPump, AtPump
<1>23. ASSUME NEW d \in Visits, NEW side \in Sides,
             KillAbort(side, d)
      PROVE  SessionTypeOK'
  BY <1>23 DEF KillAbort, SetPump, AtPump
<1>24. ASSUME NEW d \in Visits, NEW side \in Sides,
             KillSecond(side, d)
      PROVE  SessionTypeOK'
  BY <1>24 DEF KillSecond, SetPump, AtPump
<1>25. CASE Finished \/ UNCHANGED vars
  BY <1>25 DEF Finished, vars
<1> QED
  BY <1>1, <1>2, <1>3, <1>4, <1>5, <1>6, <1>7, <1>8, <1>9, <1>10, <1>11, <1>12,
     <1>13, <1>14, <1>15, <1>16, <1>17, <1>18, <1>19, <1>20, <1>21, <1>22,
     <1>23, <1>24, <1>25
  DEF Next, ReadLoopStep, ScreenStep, MenuStep, DialStep, CloseStep,
      RemoteStep, LocalStep, KillStep, Sides

-----------------------------------------------------------------------------
(***************************************************************************)
(* The input.  InputInOrder and NothingTypedIsLost are not inductive: that *)
(* ErrClosed comes with everything taken rests on why the queue is closed  *)
(* while the screen still reads it (the line ended, LineEnded), and on the *)
(* queue staying empty from then on (Drained).                             *)
(***************************************************************************)

Past == {"closeConn", "done"}     (* Session.close has closed the queue     *)

LineEnded   == closed /\ screen \notin Past => link = "down" /\ readLoop = "done"
InputExact  == ~closed \/ screen \notin Past => taken \o buf = typed
InputPrefix == IsPrefix(taken \o buf, typed)
Drained     == result = "ErrClosed" =>
                   /\ closed /\ link = "down" /\ readLoop = "done"
                   /\ buf = <<>> /\ taken = typed

InputOK == LineEnded /\ InputExact /\ InputPrefix /\ Drained

(* The steps that leave the input alone. *)
Quiet ==
    /\ UNCHANGED <<typed, taken, buf, closed, result, readLoop>>
    /\ link' \in {link, "down"}
    /\ screen' \in Past <=> screen \in Past

(* A step that reads and types nothing keeps the input in order. *)
LEMMA QuietOK == InputOK /\ Quiet => InputOK'
<1> SUFFICES ASSUME InputOK, Quiet PROVE InputOK'
  OBVIOUS
<1>1. /\ typed' = typed /\ taken' = taken /\ buf' = buf /\ closed' = closed
      /\ result' = result /\ readLoop' = readLoop
      /\ link = "down" => link' = "down"
      /\ screen' \in Past <=> screen \in Past
  BY DEF Quiet
<1> QED
  BY <1>1, Zenon DEF InputOK, LineEnded, InputExact, InputPrefix, Drained

(* Nothing typed, nothing taken: the input is in order. *)
LEMMA InputInit == Init => InputOK
<1> SUFFICES ASSUME Init PROVE InputOK
  OBVIOUS
<1>1. taken = <<>> /\ buf = <<>> /\ typed = <<>> /\ <<>> \in Seq(Bytes)
  BY EmptySeq DEF Init, QueueInit
<1>2. taken \o buf = typed
  BY <1>1, ConcatEmptySeq
<1>3. IsPrefix(taken \o buf, typed)
  BY <1>1, <1>2, PrefixSelf
<1>4. ~closed /\ result = "none"
  BY DEF Init, QueueInit
<1> QED
  BY <1>2, <1>3, <1>4 DEF InputOK, LineEnded, InputExact, InputPrefix, Drained

(* A reader takes the next byte. *)
LEMMA TakeOK ==
  ASSUME TypeOK, InputOK, NEW r \in Readers, NEW b \in Bytes,
         ReadByte(r, b), taken' = Append(taken, b),
         UNCHANGED <<typed, link, readLoop>>,
         screen \notin Past => screen' \notin Past,
         screen \in Past => screen' \in Past,
         result' = "ErrClosed" => result = "ErrClosed"
  PROVE  InputOK'
<1>1. buf # <<>> /\ b = Head(buf) /\ buf' = Tail(buf) /\ closed' = closed
  BY DEF ReadByte
<1>2. taken' \o buf' = taken \o buf
  BY <1>1, MoveHead DEF TypeOK, QueueTypeOK, SessionTypeOK
<1>3. result' # "ErrClosed"
  BY <1>1 DEF InputOK, Drained
<1> QED
  BY <1>1, <1>2, <1>3, Zenon
  DEF InputOK, LineEnded, InputExact, InputPrefix, Drained

(* A chunk is appended to what was typed and to the queue alike. *)
LEMMA ReadChunkOK ==
  ASSUME TypeOK, InputOK, NEW bs \in Seq(Bytes), ReadChunk(bs)
  PROVE  InputOK'
<1>1. /\ typed' = typed \o bs
      /\ UNCHANGED <<taken, link, readLoop, screen, result>>
      /\ readLoop # "done"
  BY DEF ReadChunk, lineVars, screenVars
<1>2. typed \in Seq(Bytes) /\ taken \o buf \in Seq(Bytes)
  BY ConcatProperties DEF TypeOK, QueueTypeOK, SessionTypeOK
<1>3. CASE closed
  <2>1. UNCHANGED <<buf, closed>>
    BY <1>3 DEF ReadChunk, QueueAppend, queueVars
  <2>2. InputPrefix'
    BY <1>1, <1>2, <2>1, PrefixExtend DEF InputOK, InputPrefix
  <2> QED
    BY <1>1, <1>3, <2>1, <2>2, Zenon
    DEF InputOK, LineEnded, InputExact, Drained
<1>4. CASE ~closed
  <2>1. buf' = buf \o bs /\ closed' = closed
    BY <1>4 DEF ReadChunk, QueueAppend
  <2>2. taken' \o buf' = typed'
    <3>1. taken \o buf = typed
      BY <1>4 DEF InputOK, InputExact
    <3>2. (taken \o buf) \o bs = taken \o (buf \o bs)
      BY ConcatAssociative DEF TypeOK, QueueTypeOK, SessionTypeOK
    <3> QED
      BY <1>1, <2>1, <3>1, <3>2
  <2>3. InputPrefix'
    BY <1>1, <1>2, <2>2, ConcatProperties, PrefixSelf DEF InputPrefix
  <2> QED
    BY <1>1, <1>4, <2>1, <2>2, <2>3, Zenon
    DEF InputOK, LineEnded, InputExact, Drained
<1> QED
  BY <1>3, <1>4

(* Every step keeps the input in order. *)
LEMMA InputStep == TypeOK /\ InputOK /\ [Next]_vars => InputOK'
<1> SUFFICES ASSUME TypeOK, InputOK, [Next]_vars PROVE InputOK'
  OBVIOUS
<1> USE DEF Past
<1>1. CASE LinkDown \/ ClientToggle \/ Finished \/ UNCHANGED vars
  <2>1. Quiet
    BY <1>1
    DEF LinkDown, ClientToggle, Finished, vars, queueVars, lineVars,
        screenVars, Quiet
  <2> QED
    BY <2>1, QuietOK
<1>2. CASE ReadLoopStep
  <2>1. CASE ReadError
    <3>1. /\ UNCHANGED <<buf, taken, typed, link, screen, result>>
          /\ link = "down" /\ readLoop' = "done" /\ (closed => closed')
      BY <2>1 DEF ReadError, QueueClose, queueVars, screenVars
    <3> QED
      BY <3>1, Zenon
      DEF InputOK, LineEnded, InputExact, InputPrefix, Drained
  <2>2. ASSUME NEW n \in 1 .. MaxTyped - Len(typed),
               NEW bs \in [1 .. n -> Bytes], ReadChunk(bs)
        PROVE  InputOK'
    <3>1. MaxTyped - Len(typed) \in Int
      BY LenProperties, SessionAssumption DEF TypeOK, SessionTypeOK
    <3> QED
      BY <2>2, <3>1, ChunkIsSeq, ReadChunkOK
  <2> QED
    BY <1>2, <2>1, <2>2, Zenon DEF ReadLoopStep
<1>3. CASE MenuStep
  <2>1. ASSUME NEW b \in Bytes, MenuKey(b) PROVE InputOK'
    <3>1. Screen \in Readers
      BY SessionAssumption DEF Screen
    <3>2. /\ ReadByte(Screen, b) /\ taken' = Append(taken, b)
          /\ UNCHANGED <<typed, link, readLoop>>
      BY <2>1 DEF MenuKey, lineVars
    <3>3. screen \notin Past /\ screen' \notin Past
      BY <2>1 DEF MenuKey, MenuAct, EndRun, Goto, Menus
    <3>4. result' = "ErrClosed" => result = "ErrClosed"
      BY <2>1 DEF MenuKey, MenuAct, EndRun, Goto
    <3> QED
      BY <3>1, <3>2, <3>3, <3>4, TakeOK
  <2>2. ASSUME NEW e \in Errors, MenuErr(e) PROVE InputOK'
    <3>1. /\ UNCHANGED <<buf, closed, taken, typed, link, readLoop>>
          /\ screen \notin Past /\ screen' = "closing" /\ result' = e
          /\ buf = <<>> /\ (e = "ErrClosed" => closed)
      BY <2>2 DEF MenuErr, ReadErr, EndRun, Menus, lineVars
    <3>2. taken = typed
      BY <3>1, ConcatEmptySeq
      DEF InputOK, InputExact, TypeOK, SessionTypeOK
    <3> QED
      BY <3>1, <3>2 DEF InputOK, LineEnded, InputExact, InputPrefix, Drained
  <2>3. CASE MenuWait
    <3>1. Quiet
      BY <2>3 DEF MenuWait, ReadWait, Quiet, lineVars, screenVars
    <3> QED
      BY <3>1, QuietOK
  <2> QED
    BY <1>3, <2>1, <2>2, <2>3, Zenon DEF MenuStep
<1>4. CASE DialStep \/ LeaveDoor
  <2>1. Quiet
    BY <1>4
    DEF DialStep, DialFail, DialOk, LeaveDoor, Goto, queueVars, lineVars, Quiet
  <2> QED
    BY <2>1, QuietOK
<1>5. CASE CloseStep
  <2>1. CASE CloseQueue
    <3>1. /\ UNCHANGED <<buf, taken, typed, link, readLoop, result>>
          /\ closed' = TRUE /\ screen' \in Past
      BY <2>1 DEF CloseQueue, QueueClose, Goto, lineVars
    <3> QED
      BY <3>1, Zenon DEF InputOK, LineEnded, InputExact, InputPrefix, Drained
  <2>2. CASE CloseFlag \/ CloseConn
    <3>1. Quiet
      BY <2>2 DEF CloseFlag, CloseConn, Goto, queueVars, lineVars, Quiet
    <3> QED
      BY <3>1, QuietOK
  <2> QED
    BY <1>5, <2>1, <2>2 DEF CloseStep
<1>6. ASSUME NEW side, NEW d \in Visits, KillStep(side, d)
      PROVE  Quiet
  BY <1>6
  DEF KillStep, KillClose, KillAbort, KillSecond, QueueAbort, queueVars,
      lineVars, screenVars, Quiet
<1>7. ASSUME NEW d \in Visits, DoorHangup(d) \/ RemoteStep(d)
      PROVE  Quiet
  <2>1. CASE DoorHangup(d) \/ RemoteData(d) \/ RemoteWrite(d) \/ RemoteEnd(d)
    BY <2>1
    DEF DoorHangup, RemoteData, RemoteWrite, RemoteEnd, queueVars, lineVars,
        screenVars, Quiet
  <2> QED
    BY <1>6, <1>7, <2>1, Zenon DEF RemoteStep
<1>8. ASSUME NEW d \in Visits, LocalStep(d)
      PROVE  InputOK'
  <2>1. ASSUME NEW b \in Bytes, LocalByte(d, b) PROVE InputOK'
    <3>1. d \in Readers
      BY SessionAssumption DEF Visits
    <3>2. /\ ReadByte(d, b) /\ taken' = Append(taken, b)
          /\ UNCHANGED <<typed, link, readLoop, screen, result>>
      BY <2>1 DEF LocalByte, lineVars, screenVars
    <3> QED
      BY <3>1, <3>2, TakeOK
  <2>2. ASSUME NEW e \in Errors, LocalErr(d, e) PROVE Quiet
    BY <2>2 DEF LocalErr, ReadErr, lineVars, screenVars, Quiet
  <2>3. CASE LocalWait(d) \/ LocalWrite(d)
    <3>1. Quiet
      BY <2>3
      DEF LocalWait, ReadWait, LocalWrite, queueVars, lineVars, screenVars, Quiet
    <3> QED
      BY <3>1, QuietOK
  <2> QED
    BY <1>6, <1>8, <2>1, <2>2, <2>3, QuietOK, Zenon DEF LocalStep
<1>9. CASE \E d \in Visits : DoorHangup(d) \/ RemoteStep(d) \/ LocalStep(d)
  BY <1>7, <1>8, <1>9, QuietOK, Zenon
<1> QED
  BY <1>1, <1>2, <1>3, <1>4, <1>5, <1>9, Zenon DEF Next, ScreenStep

-----------------------------------------------------------------------------
(* The remote pumps: inductive as it stands. *)

LEMMA PumpInit == Init => RemotePumpConfined
BY DEF Init, RemotePumpConfined, Stopped

(* Every step keeps the remote pumps inside their visits. *)
LEMMA PumpStep == TypeOK /\ RemotePumpConfined /\ [Next]_vars
                    => RemotePumpConfined'
<1> SUFFICES ASSUME TypeOK, RemotePumpConfined, [Next]_vars
             PROVE  RemotePumpConfined'
  OBVIOUS
<1> USE DEF RemotePumpConfined, Stopped
<1>1. CASE UNCHANGED <<screen, visit, remote>>
  BY <1>1
<1>2. CASE LinkDown \/ ClientToggle \/ Finished \/ UNCHANGED vars \/ ReadLoopStep
  BY <1>1, <1>2
  DEF LinkDown, ClientToggle, Finished, ReadLoopStep, ReadError, ReadChunk,
      vars, screenVars, doorVars
<1>3. CASE MenuStep
  <2>1. screen # "door" /\ UNCHANGED <<visit, remote>>
    BY <1>3
    DEF MenuStep, MenuKey, MenuErr, MenuWait, Menus, screenVars, doorVars
  <2> QED
    BY <2>1
<1>4. CASE DialStep
  <2>1. CASE DialFail
    BY <2>1 DEF DialFail, doorVars
  <2>2. CASE DialOk
    <3>1. \A d \in Visits : remote[d] \in {"none", "done"}
      BY <2>2 DEF DialOk
    <3>2. /\ remote' = [remote EXCEPT ![visit'] = "read"]
          /\ screen' = "door"
      BY <2>2 DEF DialOk, Goto
    <3> QED
      BY <3>1, <3>2 DEF TypeOK, SessionTypeOK
  <2> QED
    BY <1>4, <2>1, <2>2 DEF DialStep
<1>5. CASE LeaveDoor
  BY <1>5 DEF LeaveDoor
<1>6. CASE CloseStep
  BY <1>6 DEF CloseStep, CloseFlag, CloseQueue, CloseConn, doorVars
<1>7. ASSUME NEW d \in Visits, RemoteStep(d)
      PROVE  RemotePumpConfined'
  <2>1. UNCHANGED <<screen, visit>>
    BY <1>7
    DEF RemoteStep, RemoteData, RemoteWrite, RemoteEnd, KillStep, KillClose,
        KillAbort, KillSecond, screenVars
  <2>2. remote[d] \notin {"none", "done"}
    BY <1>7
    DEF RemoteStep, RemoteData, RemoteWrite, RemoteEnd, KillStep, KillClose,
        KillAbort, KillSecond, AtPump
  <2>3. \A c \in Visits : c # d => remote'[c] = remote[c]
    BY <1>7
    DEF RemoteStep, RemoteData, RemoteWrite, RemoteEnd, KillStep, KillClose,
        KillAbort, KillSecond, SetPump, TypeOK, SessionTypeOK
  <2> QED
    BY <2>1, <2>2, <2>3
<1>8. ASSUME NEW d \in Visits, DoorHangup(d) \/ LocalStep(d)
      PROVE  RemotePumpConfined'
  <2>1. UNCHANGED <<screen, visit, remote>>
    BY <1>8
    DEF DoorHangup, LocalStep, LocalByte, LocalErr, LocalWait, LocalWrite,
        KillStep, KillClose, KillAbort, KillSecond, SetPump, screenVars,
        doorVars
  <2> QED
    BY <1>1, <2>1
<1> QED
  BY <1>2, <1>3, <1>4, <1>5, <1>6, <1>7, <1>8, Zenon DEF Next, ScreenStep

-----------------------------------------------------------------------------
(***************************************************************************)
(* The theorems.                                                           *)
(***************************************************************************)

Invariant == TypeOK /\ NoLostWakeup /\ InputOK /\ RemotePumpConfined

(* The invariant holds at the start. *)
LEMMA InvariantInit == Init => Invariant
<1>1. Init => QueueOK
  BY QueueInitOK DEF Init
<1> QED
  BY <1>1, TypeInit, InputInit, PumpInit DEF Invariant, TypeOK, QueueOK

(* The invariant is inductive. *)
LEMMA InvariantStep == Invariant /\ [Next]_vars => Invariant'
<1> SUFFICES ASSUME Invariant, [Next]_vars PROVE Invariant'
  OBVIOUS
<1>1. TypeOK /\ QueueOK /\ SessionTypeOK
  BY DEF Invariant, TypeOK, QueueOK
<1>2. QueueOK' /\ SessionTypeOK'
  BY <1>1, QueueStep, TypeStep
<1>3. InputOK' /\ RemotePumpConfined'
  BY <1>1, InputStep, PumpStep DEF Invariant
<1> QED
  BY <1>2, <1>3 DEF Invariant, TypeOK, QueueOK

(* The invariant holds in every reachable state. *)
LEMMA InvariantHolds == Spec => []Invariant
BY InvariantInit, InvariantStep, PTL DEF Spec

(* Every variable of the queue and of the session keeps its type, errQuit  *)
(* never leaves run, and the readers asleep are readers.                   *)
THEOREM SessionTypes == Spec => []TypeOK
BY InvariantHolds, PTL DEF Invariant

(* inputQueue: no reader sleeps while there is a byte, a close or an abort *)
(* for it, with any number of local pumps left over from earlier visits.   *)
THEOREM SessionNoLostWakeup == Spec => []NoLostWakeup
BY InvariantHolds, PTL DEF Invariant

(* readByte, append and abort: the bytes the readers take, with those      *)
(* still queued, are the client's bytes in the client's order.             *)
THEOREM SessionInputInOrder == Spec => []InputInOrder
<1>1. Invariant => InputInOrder
  BY DEF Invariant, InputOK, InputExact, InputPrefix, InputInOrder
<1> QED
  BY <1>1, InvariantHolds, PTL

(* A session that run reports as ErrClosed has lost its line and has acted *)
(* upon every byte that arrived before.                                    *)
THEOREM SessionNothingTypedIsLost == Spec => []NothingTypedIsLost
<1>1. Invariant => NothingTypedIsLost
  BY DEF Invariant, InputOK, Drained, NothingTypedIsLost
<1> QED
  BY <1>1, InvariantHolds, PTL

(* doorSession: the remote pump of a visit runs only while the screen is   *)
(* in that visit, so no door paints over a menu or over another door.      *)
THEOREM SessionRemotePumpConfined == Spec => []RemotePumpConfined
BY InvariantHolds, PTL DEF Invariant
=============================================================================
