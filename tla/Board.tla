------------------------------- MODULE Board -------------------------------
(***************************************************************************)
(* The message board: the store's transactions (internal/store/threads.go) *)
(* and the sessions that run them (internal/server/board.go and            *)
(* view_thread.go).                                                        *)
(*                                                                         *)
(* The store has one connection (SetMaxOpenConns(1)), so a query or a      *)
(* transaction waits until no other one holds it.  A transaction takes     *)
(* several steps, any of which may fail; the server may crash at any time  *)
(* and keeps what was committed.  CreateThread and CreatePost read the     *)
(* clock before they wait for the connection.                              *)
(***************************************************************************)
EXTENDS Integers, Sequences, FiniteSets

CONSTANTS Sessions,     (* the sessions; each is its own author            *)
          NoSession,    (* not a session                                   *)
          MaxThreads,   (* bounds: rows of the tables, and the clock       *)
          MaxPosts,
          MaxClock

ASSUME BoardAssumption ==
    /\ NoSession \notin Sessions
    /\ MaxThreads \in Nat /\ MaxPosts \in Nat /\ MaxClock \in Nat

VARIABLES threads,   (* the committed rows of threads                      *)
          posts,     (* the committed rows of posts                        *)
          tx,        (* the rows as the open transaction sees them         *)
          conn,      (* the session that holds the connection              *)
          clock,     (* unixNow                                            *)
          now,       (* per session, the local now of CreateThread/Post    *)
          pc,        (* per session, where readBoard or viewThread is      *)
          listed,    (* per session, the ids Threads returned              *)
          open,      (* per session, viewThread's threadID, 0 outside it   *)
          shown      (* per session, how many posts Posts returned         *)

Atomic == INSTANCE AtomicBoard WITH Authors <- Sessions, Times <- 0 .. MaxClock

store   == <<threads, posts>>
screens == <<listed, open, shown>>
vars    == <<store, tx, conn, clock, now, pc, screens>>

Keys    == {"list", "view", "write", "title"}
Queries == {"loadList", "loadPosts", "loadThread", "beginPost", "beginThread"}
InTx    == {"insertPost", "bump", "commitPost", "insertThread",
            "insertOpening", "commitThread", "rollback"}

TypeOK ==
    /\ Atomic!TypeOK
    /\ tx \in [threads : Seq(Atomic!Threads), posts : Seq(Atomic!Posts)]
    /\ conn \in Sessions \union {NoSession}
    /\ clock \in 0 .. MaxClock
    /\ now \in [Sessions -> 0 .. MaxClock]
    /\ pc \in [Sessions -> Keys \union Queries \union InTx \union {"off"}]
    /\ listed \in [Sessions -> Seq(Nat)]
    /\ open \in [Sessions -> Nat]
    /\ shown \in [Sessions -> Nat]

NoTx == [threads |-> <<>>, posts |-> <<>>]

Init ==
    /\ Atomic!Init
    /\ tx = NoTx /\ conn = NoSession /\ clock = 0
    /\ now = [s \in Sessions |-> 0]
    /\ pc = [s \in Sessions |-> "off"]
    /\ listed = [s \in Sessions |-> <<>>]
    /\ open = [s \in Sessions |-> 0]
    /\ shown = [s \in Sessions |-> 0]

Goto(s, to) == pc' = [pc EXCEPT ![s] = to]

(* The variables of a function that returns are reset. *)
Forget(f, s, zero) == f' = [f EXCEPT ![s] = zero]

(* Session s leaves the board. *)
Leave(s) ==
    /\ Goto(s, "off")
    /\ Forget(listed, s, <<>>)
    /\ Forget(open, s, 0)
    /\ Forget(shown, s, 0)

-----------------------------------------------------------------------------
(* readBoard. *)

Enter(s) ==
    /\ pc[s] = "off"
    /\ Goto(s, "loadList")
    /\ UNCHANGED <<store, tx, conn, clock, now, screens>>

(* ORDER BY last_activity_at DESC, id DESC; no two threads tie. *)
Newer(t, u) ==
    \/ threads[t].last > threads[u].last
    \/ threads[t].last = threads[u].last /\ t > u

BoardOrder ==
    {l \in [DOMAIN threads -> DOMAIN threads] :
        \A i, j \in DOMAIN threads : i < j => Newer(l[i], l[j])}

LoadList(s) ==
    /\ pc[s] = "loadList"
    /\ conn = NoSession
    /\ \E l \in BoardOrder : listed' = [listed EXCEPT ![s] = l]
    /\ Goto(s, "list")
    /\ UNCHANGED <<store, tx, conn, clock, now, open, shown>>

(* A key that opens no screen makes readBoard load the list again. *)
OtherListKey(s) ==
    /\ pc[s] = "list"
    /\ Forget(listed, s, <<>>)
    /\ Goto(s, "loadList")
    /\ UNCHANGED <<store, tx, conn, clock, now, open, shown>>

(* Number n opens the n-th thread of the list as it was loaded. *)
OpenKey(s, n) ==
    /\ pc[s] = "list"
    /\ n \in DOMAIN listed[s]
    /\ open' = [open EXCEPT ![s] = listed[s][n]]
    /\ Forget(listed, s, <<>>)
    /\ Goto(s, "loadPosts")
    /\ UNCHANGED <<store, tx, conn, clock, now, shown>>

NewKey(s) ==
    /\ pc[s] = "list"
    /\ Forget(listed, s, <<>>)
    /\ Goto(s, "title")
    /\ UNCHANGED <<store, tx, conn, clock, now, open, shown>>

QuitList(s) ==
    /\ pc[s] = "list"
    /\ Leave(s)
    /\ UNCHANGED <<store, tx, conn, clock, now>>

-----------------------------------------------------------------------------
(* viewThread. *)

LoadPosts(s) ==
    /\ pc[s] = "loadPosts"
    /\ conn = NoSession
    /\ shown' = [shown EXCEPT ![s] = Cardinality(Atomic!PostsOf(open[s]))]
    /\ Goto(s, "loadThread")
    /\ UNCHANGED <<store, tx, conn, clock, now, listed, open>>

(* ErrNotFound ends the session; a thread without posts closes the screen. *)
LoadThread(s) ==
    /\ pc[s] = "loadThread"
    /\ conn = NoSession
    /\ \/ /\ open[s] \notin DOMAIN threads
          /\ Leave(s)
       \/ /\ open[s] \in DOMAIN threads
          /\ shown[s] = 0
          /\ Forget(open, s, 0)
          /\ Goto(s, "loadList")
          /\ UNCHANGED <<listed, shown>>
       \/ /\ open[s] \in DOMAIN threads
          /\ shown[s] > 0
          /\ Goto(s, "view")
          /\ UNCHANGED screens
    /\ UNCHANGED <<store, tx, conn, clock, now>>

MoveKey(s) ==
    /\ pc[s] = "view"
    /\ Goto(s, "loadPosts")
    /\ Forget(shown, s, 0)
    /\ UNCHANGED <<store, tx, conn, clock, now, listed, open>>

ReplyKey(s) ==
    /\ pc[s] = "view"
    /\ Goto(s, "write")
    /\ Forget(shown, s, 0)
    /\ UNCHANGED <<store, tx, conn, clock, now, listed, open>>

QuitView(s) ==
    /\ pc[s] = "view"
    /\ Forget(open, s, 0)
    /\ Forget(shown, s, 0)
    /\ Goto(s, "loadList")
    /\ UNCHANGED <<store, tx, conn, clock, now, listed>>

-----------------------------------------------------------------------------
(* reply and newThread read a text; Ctrl-C or an empty text abandons it.   *)

BackToScreen(s) == Goto(s, IF open[s] = 0 THEN "loadList" ELSE "loadPosts")

AbandonText(s) ==
    /\ pc[s] \in {"write", "title"}
    /\ BackToScreen(s)
    /\ UNCHANGED <<store, tx, conn, clock, now, screens>>

(* Mutant: the seconds are rounded up. *)
UnixNowRoundedUp == clock + 1

UnixNow == clock

(* The text is complete: CreatePost or CreateThread begins with its now.   *)
FinishText(s) ==
    /\ \/ pc[s] = "write" /\ Goto(s, "beginPost")
       \/ pc[s] = "title" /\ Goto(s, "beginThread")
    /\ now' = [now EXCEPT ![s] = UnixNow]
    /\ UNCHANGED <<store, tx, conn, clock, screens>>

-----------------------------------------------------------------------------
(* Transactions. *)

Begin(s) ==
    /\ conn = NoSession
    /\ conn' = s
    /\ tx' = [threads |-> threads, posts |-> posts]
    /\ \/ pc[s] = "beginPost" /\ Goto(s, "insertPost")
       \/ pc[s] = "beginThread" /\ Goto(s, "insertThread")
    /\ UNCHANGED <<store, clock, now, screens>>

(* Begin fails: there is nothing to roll back. *)
BeginError(s) ==
    /\ pc[s] \in {"beginPost", "beginThread"}
    /\ Forget(now, s, 0)
    /\ BackToScreen(s)
    /\ UNCHANGED <<store, tx, conn, clock, screens>>

InsertPost(s) ==
    /\ pc[s] = "insertPost"
    /\ Len(tx.posts) < MaxPosts
    /\ tx' = [tx EXCEPT !.posts = Append(@, Atomic!Post(open[s], s, now[s]))]
    /\ Goto(s, "bump")
    /\ UNCHANGED <<store, conn, clock, now, screens>>

(* Mutant: the activity time is the creation time again. *)
BumpStale(s) ==
    /\ pc[s] = "bump"
    /\ tx' = [tx EXCEPT !.threads[open[s]].last = @]
    /\ Goto(s, "commitPost")
    /\ UNCHANGED <<store, conn, clock, now, screens>>

Bump(s) ==
    /\ pc[s] = "bump"
    /\ tx' = [tx EXCEPT !.threads[open[s]].last = now[s]]
    /\ Goto(s, "commitPost")
    /\ UNCHANGED <<store, conn, clock, now, screens>>

InsertThread(s) ==
    /\ pc[s] = "insertThread"
    /\ Len(tx.threads) < MaxThreads
    /\ tx' = [tx EXCEPT !.threads = Append(@, Atomic!Thread(s, now[s]))]
    /\ Goto(s, "insertOpening")
    /\ UNCHANGED <<store, conn, clock, now, screens>>

(* The new thread's id is the LastInsertId of the same transaction. *)
InsertOpening(s) ==
    /\ pc[s] = "insertOpening"
    /\ Len(tx.posts) < MaxPosts
    /\ tx' = [tx EXCEPT
                !.posts = Append(@, Atomic!Post(Len(tx.threads), s, now[s]))]
    /\ Goto(s, "commitThread")
    /\ UNCHANGED <<store, conn, clock, now, screens>>

EndTx(s) == conn' = NoSession /\ tx' = NoTx /\ Forget(now, s, 0)

CommitPost(s) ==
    /\ pc[s] = "commitPost"
    /\ threads' = tx.threads /\ posts' = tx.posts
    /\ EndTx(s)
    /\ Goto(s, "loadPosts")
    /\ UNCHANGED <<clock, screens>>

(* newThread goes on to viewThread of the thread it created. *)
CommitThread(s) ==
    /\ pc[s] = "commitThread"
    /\ threads' = tx.threads /\ posts' = tx.posts
    /\ EndTx(s)
    /\ open' = [open EXCEPT ![s] = Len(tx.threads)]
    /\ Goto(s, "loadPosts")
    /\ UNCHANGED <<clock, listed, shown>>

(* Mutant: newThread ignores the error of CreateThread's Commit. *)
TxErrorCommitIgnored(s) ==
    \/ /\ pc[s] \in InTx \ {"rollback", "commitThread"}
       /\ Goto(s, "rollback")
       /\ UNCHANGED <<store, tx, conn, clock, now, screens>>
    \/ /\ pc[s] = "commitThread"
       /\ EndTx(s)
       /\ open' = [open EXCEPT ![s] = Len(tx.threads)]
       /\ Goto(s, "loadPosts")
       /\ UNCHANGED <<store, clock, listed, shown>>

(* Any Exec or Commit may fail; a Commit that fails has undone the whole   *)
(* transaction, and the deferred Rollback then finds nothing to do.        *)
TxError(s) ==
    /\ pc[s] \in InTx \ {"rollback"}
    /\ Goto(s, "rollback")
    /\ UNCHANGED <<store, tx, conn, clock, now, screens>>

(* Mutant: the error path returns without the deferred Rollback. *)
RollbackForgotten(s) ==
    /\ pc[s] = "rollback"
    /\ BackToScreen(s)
    /\ UNCHANGED <<store, tx, conn, clock, now, screens>>

(* Mutant: what was written before the error stays. *)
RollbackKeeps(s) ==
    /\ pc[s] = "rollback"
    /\ threads' = tx.threads /\ posts' = tx.posts
    /\ EndTx(s)
    /\ BackToScreen(s)
    /\ UNCHANGED <<clock, screens>>

(* The deferred Rollback; the screen reports the error and goes on. *)
Rollback(s) ==
    /\ pc[s] = "rollback"
    /\ EndTx(s)
    /\ BackToScreen(s)
    /\ UNCHANGED <<store, clock, screens>>

-----------------------------------------------------------------------------
(* The session ends at any key, or because a query of a screen fails.      *)
EndSession(s) ==
    /\ pc[s] \in Keys \union {"loadList", "loadPosts", "loadThread"}
    /\ Leave(s)
    /\ UNCHANGED <<store, tx, conn, clock, now>>

Tick ==
    /\ clock < MaxClock
    /\ clock' = clock + 1
    /\ UNCHANGED <<store, tx, conn, now, pc, screens>>

(* The server dies and is started again. *)
Crash ==
    /\ conn' = NoSession /\ tx' = NoTx
    /\ pc' = [s \in Sessions |-> "off"]
    /\ listed' = [s \in Sessions |-> <<>>]
    /\ open' = [s \in Sessions |-> 0]
    /\ shown' = [s \in Sessions |-> 0]
    /\ now' = [s \in Sessions |-> 0]
    /\ UNCHANGED <<store, clock>>

Query(s) == LoadList(s) \/ LoadPosts(s) \/ LoadThread(s) \/ Begin(s)

TxStep(s) ==
    \/ InsertPost(s) \/ Bump(s) \/ CommitPost(s)
    \/ InsertThread(s) \/ InsertOpening(s) \/ CommitThread(s)
    \/ TxError(s) \/ Rollback(s)

Key(s) ==
    \/ OtherListKey(s) \/ NewKey(s) \/ QuitList(s)
    \/ \E n \in 1 .. MaxThreads : OpenKey(s, n)
    \/ MoveKey(s) \/ ReplyKey(s) \/ QuitView(s)
    \/ AbandonText(s) \/ FinishText(s)

Next ==
    \/ \E s \in Sessions :
         \/ Enter(s) \/ Key(s) \/ EndSession(s)
         \/ Query(s) \/ BeginError(s) \/ TxStep(s)
    \/ Tick
    \/ Crash

(***************************************************************************)
(* A goroutine that holds the connection runs; one that waits for it gets  *)
(* it if it is free again and again (database/sql hands a freed connection *)
(* to a waiting request).  Users owe nothing.                              *)
(***************************************************************************)
Fairness ==
    \A s \in Sessions : SF_vars(Query(s)) /\ WF_vars(TxStep(s))

Spec == Init /\ [][Next]_vars
FairSpec == Spec /\ Fairness

-----------------------------------------------------------------------------
(* See AtomicBoard: these hold of what is committed, at every moment. *)
OpeningPost == Atomic!OpeningPost
ActivityOfLastPost == Atomic!ActivityOfLastPost

(***************************************************************************)
(* The transactions implement the atomic board: what other sessions and a  *)
(* restart after a crash find is the result of whole operations, in some   *)
(* order, each with a time the clock has shown (CreateThread, CreatePost). *)
(***************************************************************************)
AtomicSpec == Atomic!Spec

(***************************************************************************)
(* A number typed at the list, and the thread just created, always open a  *)
(* thread with posts: viewThread never meets ErrNotFound nor an empty      *)
(* thread, however old the list and whatever failed or crashed since.      *)
(***************************************************************************)
OpenThreadLoads ==
    \A s \in Sessions :
        /\ open[s] # 0 => open[s] \in DOMAIN threads
        /\ pc[s] = "loadThread" => shown[s] > 0

(***************************************************************************)
(* The one connection is held by a session in a transaction, and by no one *)
(* else: nobody keeps it while waiting for a key (the deferred Rollback).  *)
(***************************************************************************)
ConnHeldInTx == \A s \in Sessions : conn = s <=> pc[s] \in InTx

(***************************************************************************)
(* No session waits for the database for ever, whatever fails.             *)
(***************************************************************************)
DatabaseAnswers ==
    \A s \in Sessions : (pc[s] \in Queries \union InTx)
                           ~> (pc[s] \notin Queries \union InTx)
=============================================================================
