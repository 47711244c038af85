---------------------------- MODULE BoardProofs ----------------------------
(***************************************************************************)
(* Proofs about Board, for any set of sessions and any bounds: every step  *)
(* of the transactions is a step of AtomicBoard or changes nothing that is *)
(* committed, and what AtomicBoard promises therefore holds of the store.  *)
(*                                                                         *)
(* The invariant says, for the session that holds the connection, what its *)
(* transaction has written so far on top of the committed rows; nobody     *)
(* else can commit meanwhile, because nobody else holds the connection.    *)
(***************************************************************************)
EXTENDS Board, FiniteSetTheorems, SequenceTheorems, TLAPS

(* The places inside viewThread. *)
InThread == {"loadPosts", "loadThread", "view", "write",
             "beginPost", "insertPost", "bump", "commitPost"}

TxView(s) ==
    /\ pc[s] \in {"insertPost", "insertThread", "bump"} => tx.threads = threads
    /\ pc[s] \in {"insertPost", "insertThread", "insertOpening"}
         => tx.posts = posts
    /\ pc[s] \in {"bump", "commitPost"}
         => tx.posts = Append(posts, Atomic!Post(open[s], s, now[s]))
    /\ pc[s] = "commitPost"
         => tx.threads = [threads EXCEPT ![open[s]].last = now[s]]
    /\ pc[s] \in {"insertOpening", "commitThread"}
         => tx.threads = Append(threads, Atomic!Thread(s, now[s]))
    /\ pc[s] = "commitThread"
         => tx.posts = Append(posts, Atomic!Post(Len(tx.threads), s, now[s]))

ScreenOK(s) ==
    /\ open[s] # 0 => open[s] \in DOMAIN threads
    /\ \A i \in DOMAIN listed[s] : listed[s][i] \in DOMAIN threads
    /\ pc[s] \in InThread => open[s] # 0
    /\ pc[s] = "loadThread" => shown[s] > 0

SessionOK(s) == ScreenOK(s) /\ TxView(s)

IInv ==
    /\ TypeOK
    /\ OpeningPost /\ ActivityOfLastPost
    /\ ConnHeldInTx
    /\ \A s \in Sessions : SessionOK(s)

-----------------------------------------------------------------------------
(***************************************************************************)
(* The atomic board keeps its promises.                                    *)
(***************************************************************************)

LEMMA AtomicTypes ==
  ASSUME Atomic!TypeOK, Atomic!Next
  PROVE  Atomic!TypeOK'
<1>1. ASSUME NEW a \in Sessions, NEW at \in 0 .. MaxClock,
             Atomic!StartThread(a, at)
      PROVE  Atomic!TypeOK'
  <2>1. Atomic!Thread(a, at) \in Atomic!Threads
    BY DEF Atomic!Thread, Atomic!Threads
  <2>2. Atomic!Post(Len(threads) + 1, a, at) \in Atomic!Posts
    BY LenProperties DEF Atomic!TypeOK, Atomic!Post, Atomic!Posts
  <2> QED
    BY <1>1, <2>1, <2>2, AppendProperties
    DEF Atomic!TypeOK, Atomic!StartThread
<1>2. ASSUME NEW a \in Sessions, NEW at \in 0 .. MaxClock,
             NEW t \in DOMAIN threads, Atomic!Reply(t, a, at)
      PROVE  Atomic!TypeOK'
  <2>1. threads[t] \in Atomic!Threads /\ t \in Nat \ {0}
    BY ElementOfSeq DEF Atomic!TypeOK
  <2>2. [threads[t] EXCEPT !.last = at] \in Atomic!Threads
    BY <2>1 DEF Atomic!Threads
  <2>3. threads' \in Seq(Atomic!Threads)
    BY <1>2, <2>2, ExceptSeq DEF Atomic!Reply, Atomic!TypeOK
  <2>4. Atomic!Post(t, a, at) \in Atomic!Posts
    BY <2>1 DEF Atomic!Post, Atomic!Posts
  <2> QED
    BY <1>2, <2>3, <2>4, AppendProperties DEF Atomic!TypeOK, Atomic!Reply
<1> QED
  BY <1>1, <1>2 DEF Atomic!Next

(* The ids of the next rows. *)
NewThread == Len(threads) + 1
NewPost   == Len(posts) + 1

(* Both operations add one post, after all others. *)
PostAdded(t, a, at) ==
    /\ DOMAIN posts' = DOMAIN posts \union {NewPost}
    /\ \A i \in DOMAIN posts : i <= NewPost /\ i # NewPost
    /\ NewPost <= NewPost
    /\ \A i \in DOMAIN posts : posts'[i] = posts[i]
    /\ posts'[NewPost].thread = t
    /\ posts'[NewPost].author = a
    /\ posts'[NewPost].at = at

(* Appending a post row adds a row and leaves the others. *)
LEMMA AppendPost ==
  ASSUME Atomic!TypeOK, NEW t \in Nat \ {0}, NEW a \in Sessions,
         NEW at \in 0 .. MaxClock,
         posts' = Append(posts, Atomic!Post(t, a, at))
  PROVE  PostAdded(t, a, at)
<1>1. Atomic!Post(t, a, at) \in Atomic!Posts
  BY DEF Atomic!Post, Atomic!Posts
<1>2. /\ DOMAIN posts = 1 .. Len(posts) /\ Len(posts) \in Nat
      /\ DOMAIN posts' = 1 .. Len(posts) + 1
      /\ \A i \in 1 .. Len(posts) : posts'[i] = posts[i]
      /\ posts'[Len(posts) + 1] = Atomic!Post(t, a, at)
  BY <1>1, AppendProperties, LenProperties DEF Atomic!TypeOK
<1> QED
  BY <1>2 DEF PostAdded, NewPost, Atomic!Post

(* StartThread adds a thread row and its opening post, and nothing else. *)
LEMMA StartThreadRows ==
  ASSUME Atomic!TypeOK, NEW a \in Sessions, NEW at \in 0 .. MaxClock,
         Atomic!StartThread(a, at)
  PROVE  /\ DOMAIN threads' = DOMAIN threads \union {NewThread}
         /\ NewThread \notin DOMAIN threads
         /\ \A t \in DOMAIN threads : threads'[t] = threads[t]
         /\ threads'[NewThread].author = a
         /\ threads'[NewThread].created = at
         /\ threads'[NewThread].last = at
         /\ PostAdded(NewThread, a, at)
<1>1. Atomic!Thread(a, at) \in Atomic!Threads
  BY DEF Atomic!Thread, Atomic!Threads
<1>2. /\ DOMAIN threads = 1 .. Len(threads) /\ Len(threads) \in Nat
      /\ DOMAIN threads' = 1 .. Len(threads) + 1
      /\ \A t \in 1 .. Len(threads) : threads'[t] = threads[t]
      /\ threads'[Len(threads) + 1] = Atomic!Thread(a, at)
  BY <1>1, AppendProperties, LenProperties
  DEF Atomic!TypeOK, Atomic!StartThread
<1>3. NewThread \in Nat \ {0}
  BY <1>2 DEF NewThread
<1>4. PostAdded(NewThread, a, at)
  BY <1>3, AppendPost DEF Atomic!StartThread, NewThread
<1> QED
  BY <1>2, <1>4 DEF NewThread, Atomic!Thread

(* Reply changes the activity time of its thread only. *)
LEMMA ReplyRows ==
  ASSUME Atomic!TypeOK, NEW a \in Sessions, NEW at \in 0 .. MaxClock,
         NEW t \in DOMAIN threads, Atomic!Reply(t, a, at)
  PROVE  /\ DOMAIN threads' = DOMAIN threads
         /\ \A u \in DOMAIN threads :
              /\ threads'[u].author = threads[u].author
              /\ threads'[u].created = threads[u].created
              /\ threads'[u].last = IF u = t THEN at ELSE threads[u].last
         /\ PostAdded(t, a, at)
<1>1. t \in Nat \ {0} /\ \A u \in DOMAIN threads : threads[u] \in Atomic!Threads
  BY LenProperties, ElementOfSeq DEF Atomic!TypeOK
<1>2. /\ DOMAIN threads' = DOMAIN threads
      /\ \A u \in DOMAIN threads :
              /\ threads'[u].author = threads[u].author
              /\ threads'[u].created = threads[u].created
              /\ threads'[u].last = IF u = t THEN at ELSE threads[u].last
  BY <1>1 DEF Atomic!Threads, Atomic!Reply
<1> QED
  BY <1>1, <1>2, AppendPost DEF Atomic!Reply

(* The first post of an old thread stays the first. *)
Opening(u, i) ==
    /\ i \in DOMAIN posts
    /\ posts[i].thread = u
    /\ \A j \in DOMAIN posts : posts[j].thread = u => i <= j
    /\ posts[i].author = threads[u].author
    /\ posts[i].at = threads[u].created

(* OpeningPost in terms of Opening. *)
LEMMA OpeningPostDef ==
  Atomic!OpeningPost <=>
    /\ \A u \in DOMAIN threads : \E i \in DOMAIN posts : Opening(u, i)
    /\ \A i \in DOMAIN posts : posts[i].thread \in DOMAIN threads
BY Zenon DEF Atomic!OpeningPost, Atomic!IsFirst, Atomic!PostsOf, Opening

(* A later post leaves the opening post of a thread where it is. *)
LEMMA OpeningStays ==
  ASSUME NEW u, NEW i, Opening(u, i), NEW t, NEW a, NEW at,
         PostAdded(t, a, at),
         threads'[u].author = threads[u].author,
         threads'[u].created = threads[u].created
  PROVE  Opening(u, i)'
BY Zenon DEF Opening, PostAdded

(* OpeningPost is an invariant of the atomic board. *)
LEMMA AtomicOpeningPost ==
  ASSUME Atomic!TypeOK, Atomic!OpeningPost, Atomic!Next
  PROVE  Atomic!OpeningPost'
<1>1. /\ \A u \in DOMAIN threads : \E i \in DOMAIN posts : Opening(u, i)
      /\ \A i \in DOMAIN posts : posts[i].thread \in DOMAIN threads
  BY OpeningPostDef
<1> SUFFICES /\ \A u \in DOMAIN threads' : \E i \in DOMAIN posts' : Opening(u, i)'
             /\ \A i \in DOMAIN posts' : posts'[i].thread \in DOMAIN threads'
  BY Zenon DEF Atomic!OpeningPost, Atomic!IsFirst, Atomic!PostsOf, Opening
<1>2. ASSUME NEW a \in Sessions, NEW at \in 0 .. MaxClock,
             Atomic!StartThread(a, at)
      PROVE  /\ \A u \in DOMAIN threads' : \E i \in DOMAIN posts' : Opening(u, i)'
             /\ \A i \in DOMAIN posts' : posts'[i].thread \in DOMAIN threads'
  <2>1. ASSUME NEW u \in DOMAIN threads
        PROVE  \E i \in DOMAIN posts' : Opening(u, i)'
    BY <1>1, <1>2, StartThreadRows, OpeningStays DEF PostAdded
  <2>2. ASSUME NEW n, n = NewThread
        PROVE  \E i \in DOMAIN posts' : Opening(n, i)'
    <3>1. PICK k : k = NewPost
      OBVIOUS
    <3>2. /\ k \in DOMAIN posts'
          /\ posts'[k].thread = n
          /\ \A j \in DOMAIN posts' : posts'[j].thread = n => k <= j
          /\ posts'[k].author = threads'[n].author
          /\ posts'[k].at = threads'[n].created
      BY <1>1, <1>2, <2>2, <3>1, StartThreadRows DEF PostAdded
    <3> QED
      BY <3>2 DEF Opening
  <2>3. \A u \in DOMAIN threads' : \E i \in DOMAIN posts' : Opening(u, i)'
    BY <1>2, <2>1, <2>2, StartThreadRows
  <2>4. \A i \in DOMAIN posts' : posts'[i].thread \in DOMAIN threads'
    BY <1>1, <1>2, StartThreadRows DEF PostAdded
  <2> QED
    BY <2>3, <2>4
<1>3. ASSUME NEW a \in Sessions, NEW at \in 0 .. MaxClock,
             NEW t \in DOMAIN threads, Atomic!Reply(t, a, at)
      PROVE  /\ \A u \in DOMAIN threads' : \E i \in DOMAIN posts' : Opening(u, i)'
             /\ \A i \in DOMAIN posts' : posts'[i].thread \in DOMAIN threads'
  <2>1. ASSUME NEW u \in DOMAIN threads
        PROVE  \E i \in DOMAIN posts' : Opening(u, i)'
    BY <1>1, <1>3, ReplyRows, OpeningStays DEF PostAdded
  <2> QED
    BY <1>1, <1>3, <2>1, ReplyRows DEF PostAdded
<1> QED
  BY <1>2, <1>3 DEF Atomic!Next

(* A post into its own thread becomes the last of it; into another one it  *)
(* changes nothing.                                                        *)
Latest(u, i) ==
    /\ i \in DOMAIN posts
    /\ posts[i].thread = u
    /\ \A j \in DOMAIN posts : posts[j].thread = u => j <= i
    /\ posts[i].at = threads[u].last

(* A post in another thread leaves the last post of this one. *)
LEMMA LatestStays ==
  ASSUME NEW u, NEW i, Latest(u, i), NEW t, NEW a, NEW at,
         PostAdded(t, a, at), t # u, threads'[u].last = threads[u].last
  PROVE  Latest(u, i)'
BY Zenon DEF Latest, PostAdded

(* A new post is the last one of its thread. *)
LEMMA LatestNew ==
  ASSUME NEW t, NEW a, NEW at, PostAdded(t, a, at), threads'[t].last = at
  PROVE  \E i \in DOMAIN posts' : Latest(t, i)'
<1>1. PICK k : k = NewPost
  OBVIOUS
<1>2. Latest(t, k)'
  BY <1>1 DEF Latest, PostAdded
<1> QED
  BY <1>2 DEF Latest

(* ActivityOfLastPost is an invariant of the atomic board. *)
LEMMA AtomicActivity ==
  ASSUME Atomic!TypeOK, Atomic!ActivityOfLastPost, Atomic!Next
  PROVE  Atomic!ActivityOfLastPost'
<1>1. \A u \in DOMAIN threads : \E i \in DOMAIN posts : Latest(u, i)
  BY Zenon DEF Atomic!ActivityOfLastPost, Atomic!IsLast, Atomic!PostsOf, Latest
<1> SUFFICES \A u \in DOMAIN threads' : \E i \in DOMAIN posts' : Latest(u, i)'
  BY Zenon DEF Atomic!ActivityOfLastPost, Atomic!IsLast, Atomic!PostsOf, Latest
<1>2. ASSUME NEW a \in Sessions, NEW at \in 0 .. MaxClock,
             Atomic!StartThread(a, at), NEW u \in DOMAIN threads'
      PROVE  \E i \in DOMAIN posts' : Latest(u, i)'
  <2>1. PICK n : n = NewThread
    OBVIOUS
  <2>2. PostAdded(n, a, at) /\ threads'[n].last = at
    BY <1>2, <2>1, StartThreadRows
  <2>3. CASE u = n
    BY <2>2, <2>3, LatestNew
  <2>4. CASE u # n
    <3>1. u \in DOMAIN threads /\ threads'[u].last = threads[u].last
      BY <1>2, <2>1, <2>4, StartThreadRows
    <3>2. PICK i \in DOMAIN posts : Latest(u, i)
      BY <1>1, <3>1
    <3>3. Latest(u, i)'
      BY <2>2, <2>4, <3>1, <3>2, LatestStays
    <3> QED
      BY <3>3 DEF Latest
  <2> QED
    BY <2>3, <2>4
<1>3. ASSUME NEW a \in Sessions, NEW at \in 0 .. MaxClock,
             NEW t \in DOMAIN threads, Atomic!Reply(t, a, at),
             NEW u \in DOMAIN threads'
      PROVE  \E i \in DOMAIN posts' : Latest(u, i)'
  <2>1. PostAdded(t, a, at)
    BY <1>3, ReplyRows
  <2>2. CASE u = t
    <3>1. threads'[t].last = at
      BY <1>3, ReplyRows
    <3> QED
      BY <2>1, <2>2, <3>1, LatestNew
  <2>3. CASE u # t
    <3>1. u \in DOMAIN threads /\ threads'[u].last = threads[u].last
      BY <1>3, <2>3, ReplyRows
    <3>2. PICK i \in DOMAIN posts : Latest(u, i)
      BY <1>1, <3>1
    <3>3. Latest(u, i)'
      BY <2>1, <2>3, <3>1, <3>2, LatestStays
    <3> QED
      BY <3>3 DEF Latest
  <2> QED
    BY <2>2, <2>3
<1> QED
  BY <1>2, <1>3 DEF Atomic!Next

-----------------------------------------------------------------------------
(***************************************************************************)
(* What a step of session s leaves alone: the other sessions, and, unless  *)
(* s holds the connection or may take it, the open transaction.            *)
(***************************************************************************)
Screen(s) ==
    \/ Enter(s) \/ LoadList(s) \/ OtherListKey(s) \/ NewKey(s) \/ QuitList(s)
    \/ \E n \in 1 .. MaxThreads : OpenKey(s, n)
    \/ LoadPosts(s) \/ LoadThread(s) \/ MoveKey(s) \/ ReplyKey(s) \/ QuitView(s)
    \/ AbandonText(s) \/ FinishText(s) \/ BeginError(s) \/ EndSession(s)

Commit(s) == CommitPost(s) \/ CommitThread(s)

Work(s) ==
    \/ Begin(s) \/ InsertPost(s) \/ Bump(s) \/ InsertThread(s)
    \/ InsertOpening(s) \/ TxError(s) \/ Rollback(s)

(* A step is a tick, a crash, or a step of a session of one of three kinds. *)
LEMMA StepKinds ==
  ASSUME Next
  PROVE  Tick \/ Crash \/ \E s \in Sessions : Screen(s) \/ Work(s) \/ Commit(s)
BY Zenon DEF Next, Key, Query, TxStep, Screen, Work, Commit

(* A screen's step leaves the store, the transaction and the clock alone. *)
LEMMA ScreenFrame ==
  ASSUME NEW s \in Sessions, Screen(s)
  PROVE  UNCHANGED <<store, tx, conn, clock>>
BY DEF Screen, Enter, LoadList, OtherListKey, NewKey, QuitList, OpenKey,
       LoadPosts, LoadThread, MoveKey, ReplyKey, QuitView, AbandonText,
       FinishText, BeginError, EndSession, screens

(* A step inside a transaction changes nothing that is committed. *)
LEMMA WorkFrame ==
  ASSUME NEW s \in Sessions, Work(s)
  PROVE  UNCHANGED <<store, clock, screens>>
BY DEF Work, Begin, InsertPost, Bump, InsertThread, InsertOpening, TxError,
       Rollback

(* The variables of the other sessions. *)
Others(s) ==
    \A r \in Sessions : r # s =>
        /\ pc'[r] = pc[r] /\ now'[r] = now[r]
        /\ listed'[r] = listed[r] /\ open'[r] = open[r] /\ shown'[r] = shown[r]

(* A screen's step leaves the other sessions alone. *)
LEMMA ScreenOthers ==
  ASSUME TypeOK, NEW s \in Sessions, Screen(s)
  PROVE  Others(s)
<1>1. CASE Enter(s) \/ LoadList(s) \/ OtherListKey(s) \/ NewKey(s)
  BY <1>1 DEF TypeOK, Others, Enter, LoadList, OtherListKey, NewKey, Goto,
              Forget, screens
<1>2. CASE QuitList(s) \/ EndSession(s)
  BY <1>2 DEF TypeOK, Others, QuitList, EndSession, Leave, Goto, Forget
<1>3. ASSUME NEW n \in 1 .. MaxThreads, OpenKey(s, n) PROVE Others(s)
  BY <1>3 DEF TypeOK, Others, OpenKey, Goto, Forget
<1>4. CASE LoadPosts(s) \/ MoveKey(s) \/ ReplyKey(s) \/ QuitView(s)
  BY <1>4 DEF TypeOK, Others, LoadPosts, MoveKey, ReplyKey, QuitView, Goto,
              Forget
<1>5. CASE LoadThread(s)
  BY <1>5 DEF TypeOK, Others, LoadThread, Leave, Goto, Forget, screens
<1>6. CASE AbandonText(s) \/ FinishText(s) \/ BeginError(s)
  BY <1>6 DEF TypeOK, Others, AbandonText, FinishText, BeginError,
              BackToScreen, Goto, Forget, screens
<1> QED
  BY <1>1, <1>2, <1>3, <1>4, <1>5, <1>6 DEF Screen

(* So does a step of a transaction. *)
LEMMA WorkOthers ==
  ASSUME TypeOK, NEW s \in Sessions, Work(s) \/ Commit(s)
  PROVE  Others(s)
<1>1. CASE Begin(s) \/ InsertPost(s) \/ Bump(s) \/ InsertThread(s)
  BY <1>1 DEF TypeOK, Others, Begin, InsertPost, Bump, InsertThread, Goto,
              screens
<1>2. CASE InsertOpening(s) \/ TxError(s) \/ Rollback(s)
  BY <1>2 DEF TypeOK, Others, InsertOpening, TxError, Rollback, EndTx,
              BackToScreen, Goto, Forget, screens
<1>3. CASE Commit(s)
  BY <1>3 DEF TypeOK, Others, Commit, CommitPost, CommitThread, EndTx, Goto,
              Forget, screens
<1> QED
  BY <1>1, <1>2, <1>3 DEF Work

-----------------------------------------------------------------------------
(* The connection. *)

LEMMA HolderAlone ==
  ASSUME IInv, NEW s \in Sessions, NEW r \in Sessions,
         pc[s] \in InTx, pc[r] \in InTx
  PROVE  s = r
BY DEF IInv, ConnHeldInTx

(* At the start nobody holds the connection. *)
LEMMA ConnInitial ==
  ASSUME Init
  PROVE  ConnHeldInTx
BY BoardAssumption DEF Init, ConnHeldInTx, InTx

(* A screen's step neither takes nor gives back the connection. *)
LEMMA ScreenConn ==
  ASSUME TypeOK, ConnHeldInTx, NEW s \in Sessions, Screen(s)
  PROVE  ConnHeldInTx'
<1>1. conn' = conn /\ Others(s)
  BY ScreenFrame, ScreenOthers
<1>2. pc[s] \notin InTx /\ pc'[s] \notin InTx
  <2>1. CASE Enter(s) \/ LoadList(s) \/ OtherListKey(s) \/ NewKey(s)
    BY <2>1 DEF TypeOK, InTx, Enter, LoadList, OtherListKey, NewKey, Goto
  <2>2. CASE QuitList(s) \/ EndSession(s)
    BY <2>2 DEF TypeOK, InTx, QuitList, EndSession, Keys, Leave, Goto
  <2>3. ASSUME NEW n \in 1 .. MaxThreads, OpenKey(s, n)
        PROVE  pc[s] \notin InTx /\ pc'[s] \notin InTx
    BY <2>3 DEF TypeOK, InTx, OpenKey, Goto
  <2>4. CASE LoadPosts(s) \/ MoveKey(s) \/ ReplyKey(s) \/ QuitView(s)
    BY <2>4 DEF TypeOK, InTx, LoadPosts, MoveKey, ReplyKey, QuitView, Goto
  <2>5. CASE LoadThread(s)
    BY <2>5 DEF TypeOK, InTx, LoadThread, Leave, Goto
  <2>6. CASE AbandonText(s) \/ FinishText(s) \/ BeginError(s)
    BY <2>6 DEF TypeOK, InTx, AbandonText, FinishText, BeginError,
                BackToScreen, Goto
  <2> QED
    BY <2>1, <2>2, <2>3, <2>4, <2>5, <2>6 DEF Screen
<1> QED
  BY <1>1, <1>2 DEF ConnHeldInTx, Others

(* Begin takes the free connection; commit and rollback give it back. *)
LEMMA WorkConn ==
  ASSUME TypeOK, ConnHeldInTx, NEW s \in Sessions, Work(s) \/ Commit(s)
  PROVE  ConnHeldInTx'
<1>1. Others(s)
  BY WorkOthers
<1>2. CASE Begin(s)
  <2>1. conn = NoSession /\ conn' = s /\ pc'[s] \in InTx
    BY <1>2 DEF Begin, Goto, TypeOK, InTx
  <2> QED
    BY <1>1, <2>1, BoardAssumption DEF ConnHeldInTx, Others
<1>3. CASE InsertPost(s) \/ Bump(s) \/ InsertThread(s) \/ InsertOpening(s)
           \/ TxError(s)
  <2>1. conn' = conn /\ pc[s] \in InTx /\ pc'[s] \in InTx
    BY <1>3 DEF InsertPost, Bump, InsertThread, InsertOpening, TxError, Goto,
                TypeOK, InTx
  <2> QED
    BY <1>1, <2>1 DEF ConnHeldInTx, Others
<1>4. CASE Rollback(s) \/ Commit(s)
  <2>1. conn' = NoSession /\ pc[s] \in InTx /\ pc'[s] \notin InTx
    BY <1>4 DEF Rollback, Commit, CommitPost, CommitThread, EndTx,
                BackToScreen, Goto, TypeOK, InTx
  <2> QED
    BY <1>1, <2>1, BoardAssumption DEF ConnHeldInTx, Others
<1> QED
  BY <1>2, <1>3, <1>4 DEF Work

-----------------------------------------------------------------------------
(* Refinement. *)

LEMMA CommitPostIsReply ==
  ASSUME IInv, NEW s \in Sessions, CommitPost(s)
  PROVE  Atomic!Next
<1>1. pc[s] = "commitPost" /\ threads' = tx.threads /\ posts' = tx.posts
  BY DEF CommitPost
<1>2. open[s] \in DOMAIN threads /\ now[s] \in 0 .. MaxClock
  BY <1>1 DEF IInv, TypeOK, SessionOK, ScreenOK, InThread
<1>3. Atomic!Reply(open[s], s, now[s])
  BY <1>1 DEF IInv, SessionOK, TxView, Atomic!Reply
<1> QED
  BY <1>2, <1>3 DEF Atomic!Next

(* The commit of CreateThread is StartThread. *)
LEMMA CommitThreadIsStart ==
  ASSUME IInv, NEW s \in Sessions, CommitThread(s)
  PROVE  Atomic!Next
<1>1. pc[s] = "commitThread" /\ threads' = tx.threads /\ posts' = tx.posts
  BY DEF CommitThread
<1>2. now[s] \in 0 .. MaxClock
  BY DEF IInv, TypeOK
<1>3. Atomic!Thread(s, now[s]) \in Atomic!Threads
  BY <1>2 DEF Atomic!Thread, Atomic!Threads
<1>4. Len(tx.threads) = Len(threads) + 1
  BY <1>1, <1>3, AppendProperties
  DEF IInv, TypeOK, Atomic!TypeOK, SessionOK, TxView
<1>5. /\ tx.threads = Append(threads, Atomic!Thread(s, now[s]))
      /\ tx.posts = Append(posts, Atomic!Post(Len(tx.threads), s, now[s]))
  BY <1>1, Zenon DEF IInv, SessionOK, TxView
<1>6. Atomic!StartThread(s, now[s])
  BY <1>1, <1>4, <1>5, Zenon DEF Atomic!StartThread
<1> QED
  BY <1>2, <1>6 DEF Atomic!Next

(* Every step is a step of the atomic board or changes no committed row. *)
LEMMA StepRefines ==
  ASSUME IInv, [Next]_vars
  PROVE  [Atomic!Next]_<<threads, posts>>
<1>1. CASE Tick \/ Crash \/ UNCHANGED vars
  BY <1>1 DEF Tick, Crash, vars, store
<1>2. ASSUME NEW s \in Sessions, Screen(s) \/ Work(s)
      PROVE  UNCHANGED <<threads, posts>>
  BY <1>2, ScreenFrame, WorkFrame DEF store
<1>3. ASSUME NEW s \in Sessions, Commit(s) PROVE Atomic!Next
  BY <1>3, CommitPostIsReply, CommitThreadIsStart DEF Commit
<1> QED
  BY <1>1, <1>2, <1>3, StepKinds

(* Rows are never deleted. *)
LEMMA ThreadsGrow ==
  ASSUME IInv, [Next]_vars
  PROVE  DOMAIN threads \subseteq DOMAIN threads'
<1>1. CASE UNCHANGED <<threads, posts>>
  BY <1>1
<1>2. CASE Atomic!Next
  <2>1. ASSUME NEW a \in Sessions, NEW at \in 0 .. MaxClock,
               Atomic!StartThread(a, at)
        PROVE  DOMAIN threads \subseteq DOMAIN threads'
    BY <2>1, StartThreadRows DEF IInv, TypeOK
  <2>2. ASSUME NEW a \in Sessions, NEW at \in 0 .. MaxClock,
               NEW t \in DOMAIN threads, Atomic!Reply(t, a, at)
        PROVE  DOMAIN threads \subseteq DOMAIN threads'
    BY <2>2, ReplyRows DEF IInv, TypeOK
  <2> QED
    BY <1>2, <2>1, <2>2 DEF Atomic!Next
<1> QED
  BY <1>1, <1>2, StepRefines

(* So what the atomic board promises holds of the committed rows. *)
LEMMA StoreKept ==
  ASSUME IInv, [Next]_vars
  PROVE  Atomic!TypeOK' /\ OpeningPost' /\ ActivityOfLastPost'
<1>1. CASE UNCHANGED <<threads, posts>>
  <2>1. threads' = threads /\ posts' = posts
    BY <1>1
  <2>2. Atomic!TypeOK'
    BY <2>1 DEF IInv, TypeOK, Atomic!TypeOK
  <2>3. OpeningPost'
    <3>1. OpeningPost
      BY DEF IInv
    <3> QED
      BY <2>1, <3>1
      DEF OpeningPost, Atomic!OpeningPost, Atomic!IsFirst, Atomic!PostsOf
  <2>4. ActivityOfLastPost'
    <3>1. ActivityOfLastPost
      BY DEF IInv
    <3> QED
      BY <2>1, <3>1
      DEF ActivityOfLastPost, Atomic!ActivityOfLastPost, Atomic!IsLast,
          Atomic!PostsOf
  <2> QED
    BY <2>2, <2>3, <2>4
<1>2. CASE Atomic!Next
  BY <1>2, AtomicTypes, AtomicOpeningPost, AtomicActivity
  DEF IInv, TypeOK, OpeningPost, ActivityOfLastPost
<1> QED
  BY <1>1, <1>2, StepRefines

-----------------------------------------------------------------------------
(* Types. *)

LEMMA TablesAreSeqs ==
  ASSUME TypeOK
  PROVE  /\ threads \in Seq(Atomic!Threads) /\ posts \in Seq(Atomic!Posts)
         /\ DOMAIN threads \subseteq Nat \ {0}
BY LenProperties DEF TypeOK, Atomic!TypeOK

(* A function on 1 .. n is a sequence. *)
LEMMA FunIsSeq ==
  ASSUME NEW S, NEW n \in Nat, NEW f \in [1 .. n -> S]
  PROVE  f \in Seq(S)
BY SeqDef

(* A screen's step keeps the types. *)
LEMMA ScreenTypes ==
  ASSUME TypeOK, NEW s \in Sessions, Screen(s), Atomic!TypeOK'
  PROVE  TypeOK'
<1> DEFINE PCs == Keys \union Queries \union InTx \union {"off"}
<1> DEFINE SessionTypes ==
             /\ now' \in [Sessions -> 0 .. MaxClock]
             /\ pc' \in [Sessions -> PCs]
             /\ listed' \in [Sessions -> Seq(Nat)]
             /\ open' \in [Sessions -> Nat]
             /\ shown' \in [Sessions -> Nat]
<1> SUFFICES SessionTypes
  <2>1. UNCHANGED <<tx, conn, clock>>
    BY ScreenFrame
  <2> QED
    BY <2>1 DEF TypeOK
<1>1. /\ now \in [Sessions -> 0 .. MaxClock]
      /\ pc \in [Sessions -> PCs]
      /\ listed \in [Sessions -> Seq(Nat)]
      /\ open \in [Sessions -> Nat]
      /\ shown \in [Sessions -> Nat]
      /\ clock \in 0 .. MaxClock
  BY DEF TypeOK
<1>2. <<>> \in Seq(Nat) /\ 0 \in 0 .. MaxClock
  BY EmptySeq, BoardAssumption
<1>3. {"off", "list", "view", "write", "title"} \subseteq PCs
      /\ {"loadList", "loadPosts", "loadThread"} \subseteq PCs
      /\ {"beginPost", "beginThread"} \subseteq PCs
  BY DEF Keys, Queries
<1> HIDE DEF PCs
<1>4. CASE Enter(s) \/ OtherListKey(s) \/ NewKey(s)
  BY <1>1, <1>2, <1>3, <1>4 DEF Enter, OtherListKey, NewKey, Goto, Forget, screens
<1>5. CASE LoadList(s)
  <2>1. ASSUME NEW l \in BoardOrder PROVE l \in Seq(Nat)
    <3>1. l \in [1 .. Len(threads) -> Nat] /\ Len(threads) \in Nat
      BY TablesAreSeqs, LenProperties DEF BoardOrder
    <3> QED
      BY <3>1, FunIsSeq
  <2> QED
    BY <1>1, <1>3, <1>5, <2>1 DEF LoadList, Goto
<1>6. CASE QuitList(s) \/ EndSession(s)
  <2>1. Leave(s) /\ now' = now
    BY <1>6 DEF QuitList, EndSession
  <2> QED
    BY <1>1, <1>2, <1>3, <2>1 DEF Leave, Goto, Forget
<1>7. ASSUME NEW n \in 1 .. MaxThreads, OpenKey(s, n) PROVE SessionTypes
  <2>1. listed[s][n] \in Nat
    BY <1>1, <1>7, ElementOfSeq, LenProperties DEF OpenKey
  <2> QED
    BY <1>1, <1>2, <1>3, <1>7, <2>1 DEF OpenKey, Goto, Forget
<1>8. CASE LoadPosts(s)
  <2>1. Cardinality(Atomic!PostsOf(open[s])) \in Nat
    <3>1. IsFiniteSet(1 .. Len(posts)) /\ DOMAIN posts = 1 .. Len(posts)
      BY TablesAreSeqs, LenProperties, FS_Interval
    <3>2. Atomic!PostsOf(open[s]) \in SUBSET (1 .. Len(posts))
      BY <3>1 DEF Atomic!PostsOf
    <3> QED
      BY <3>1, <3>2, FS_Subset, FS_CardinalityType
  <2> QED
    BY <1>1, <1>3, <1>8, <2>1 DEF LoadPosts, Goto
<1>9. CASE LoadThread(s)
  <2>1. now' = now
    BY <1>9 DEF LoadThread
  <2>2. CASE Leave(s)
    BY <1>1, <1>2, <1>3, <2>1, <2>2 DEF Leave, Goto, Forget
  <2>3. CASE Forget(open, s, 0) /\ Goto(s, "loadList") /\ UNCHANGED <<listed, shown>>
    BY <1>1, <1>3, <2>1, <2>3 DEF Goto, Forget
  <2>4. CASE Goto(s, "view") /\ UNCHANGED screens
    BY <1>1, <1>3, <2>1, <2>4 DEF Goto, screens
  <2> QED
    BY <1>9, <2>2, <2>3, <2>4 DEF LoadThread
<1>10. CASE MoveKey(s) \/ ReplyKey(s) \/ QuitView(s)
  <2>1. CASE MoveKey(s)
    BY <1>1, <1>2, <1>3, <2>1 DEF MoveKey, Goto, Forget
  <2>2. CASE ReplyKey(s)
    BY <1>1, <1>2, <1>3, <2>2 DEF ReplyKey, Goto, Forget
  <2>3. CASE QuitView(s)
    BY <1>1, <1>2, <1>3, <2>3 DEF QuitView, Goto, Forget
  <2> QED
    BY <1>10, <2>1, <2>2, <2>3
<1>11. CASE AbandonText(s) \/ FinishText(s)
  BY <1>1, <1>2, <1>3, <1>11
  DEF AbandonText, FinishText, UnixNow, BackToScreen, Goto, screens
<1>12. CASE BeginError(s)
  BY <1>1, <1>2, <1>3, <1>12 DEF BeginError, BackToScreen, Goto, Forget, screens
<1> QED
  BY <1>4, <1>5, <1>6, <1>7, <1>8, <1>9, <1>10, <1>11, <1>12, Zenon DEF Screen

(* A transaction's step keeps the types. *)
LEMMA WorkTypes ==
  ASSUME IInv, NEW s \in Sessions, Work(s) \/ Commit(s), Atomic!TypeOK'
  PROVE  TypeOK'
<1> USE DEF IInv, TypeOK, Keys, Queries, InTx
<1> DEFINE Tables == [threads : Seq(Atomic!Threads), posts : Seq(Atomic!Posts)]
<1>0. NoTx \in Tables /\ 0 \in 0 .. MaxClock
  BY EmptySeq, BoardAssumption DEF NoTx
<1>1. CASE Begin(s)
  BY <1>1, TablesAreSeqs DEF Begin, Goto, screens
<1>2. CASE InsertPost(s)
  <2>1. Atomic!Post(open[s], s, now[s]) \in Atomic!Posts
    BY <1>2, TablesAreSeqs
    DEF InsertPost, SessionOK, ScreenOK, InThread, Atomic!Post, Atomic!Posts
  <2> QED
    BY <1>2, <2>1, AppendProperties DEF InsertPost, Goto, screens
<1>3. CASE Bump(s)
  <2>1. open[s] \in 1 .. Len(tx.threads)
    BY <1>3, TablesAreSeqs, LenProperties
    DEF Bump, SessionOK, ScreenOK, InThread, TxView
  <2>2. tx.threads[open[s]] \in Atomic!Threads
    BY <2>1, ElementOfSeq
  <2>22. [tx.threads[open[s]] EXCEPT !.last = now[s]] \in Atomic!Threads
    BY <2>2 DEF Atomic!Threads
  <2>3. [tx.threads EXCEPT ![open[s]] = [@ EXCEPT !.last = now[s]]]
          \in Seq(Atomic!Threads)
    BY <2>1, <2>22, ExceptSeq
  <2>4. tx' \in Tables
    BY <1>3, <2>3 DEF Bump
  <2> QED
    BY <1>3, <2>4 DEF Bump, Goto, screens
<1>4. CASE InsertThread(s)
  <2>1. Atomic!Thread(s, now[s]) \in Atomic!Threads
    BY DEF Atomic!Thread, Atomic!Threads
  <2> QED
    BY <1>4, <2>1, AppendProperties DEF InsertThread, Goto, screens
<1>5. CASE InsertOpening(s)
  <2>1. Len(tx.threads) \in Nat \ {0}
    <3>1. Atomic!Thread(s, now[s]) \in Atomic!Threads
      BY DEF Atomic!Thread, Atomic!Threads
    <3> QED
      BY <1>5, <3>1, TablesAreSeqs, AppendProperties, LenProperties
      DEF InsertOpening, SessionOK, TxView
  <2>2. Atomic!Post(Len(tx.threads), s, now[s]) \in Atomic!Posts
    BY <2>1 DEF Atomic!Post, Atomic!Posts
  <2> QED
    BY <1>5, <2>2, AppendProperties DEF InsertOpening, Goto, screens
<1>6. CASE TxError(s)
  BY <1>6 DEF TxError, Goto, screens
<1>7. CASE Rollback(s)
  BY <1>0, <1>7 DEF Rollback, EndTx, BackToScreen, Goto, Forget, screens
<1>8. CASE CommitPost(s)
  BY <1>0, <1>8 DEF CommitPost, EndTx, Goto, Forget, screens
<1>9. CASE CommitThread(s)
  <2>1. Len(tx.threads) \in Nat
    BY LenProperties
  <2> QED
    BY <1>0, <1>9, <2>1 DEF CommitThread, EndTx, Goto, Forget
<1> QED
  BY <1>1, <1>2, <1>3, <1>4, <1>5, <1>6, <1>7, <1>8, <1>9 DEF Work, Commit

-----------------------------------------------------------------------------
(* The sessions. *)

LEMMA OtherSessionOK ==
  ASSUME IInv, NEW s \in Sessions, Others(s),
         DOMAIN threads \subseteq DOMAIN threads',
         NEW r \in Sessions, r # s,
         pc[r] \in InTx => UNCHANGED <<tx, threads, posts>>
  PROVE  SessionOK(r)'
<1>1. /\ pc'[r] = pc[r] /\ now'[r] = now[r]
      /\ listed'[r] = listed[r] /\ open'[r] = open[r] /\ shown'[r] = shown[r]
  BY DEF Others
<1>2. SessionOK(r)
  BY DEF IInv
<1>3. ScreenOK(r)'
  BY <1>1, <1>2 DEF SessionOK, ScreenOK
<1>4. CASE pc[r] \notin InTx
  BY <1>1, <1>3, <1>4 DEF SessionOK, TxView, InTx
<1>5. CASE pc[r] \in InTx
  <2>1. tx' = tx /\ threads' = threads /\ posts' = posts
    BY <1>5
  <2>2. TxView(r)
    BY <1>2 DEF SessionOK
  <2>3. TxView(r)'
    BY <1>1, <2>1, <2>2, Zenon DEF TxView, Atomic!Post, Atomic!Thread
  <2> QED
    BY <1>3, <2>3 DEF SessionOK
<1> QED
  BY <1>4, <1>5

(* A thread on the board has at least its opening post. *)
LEMMA ThreadHasPosts ==
  ASSUME IInv, NEW t \in DOMAIN threads
  PROVE  Cardinality(Atomic!PostsOf(t)) > 0
<1>1. Atomic!PostsOf(t) # {}
  BY DEF IInv, OpeningPost, Atomic!OpeningPost
<1>2. IsFiniteSet(1 .. Len(posts)) /\ DOMAIN posts = 1 .. Len(posts)
  BY TablesAreSeqs, LenProperties, FS_Interval DEF IInv
<1>3. Atomic!PostsOf(t) \in SUBSET (1 .. Len(posts))
  BY <1>2 DEF Atomic!PostsOf
<1> QED
  BY <1>1, <1>2, <1>3, FS_Subset, FS_CardinalityType, FS_EmptySet

(* A screen's step leads to a place outside any transaction. *)
LEMMA ScreenSelf ==
  ASSUME IInv, NEW s \in Sessions, Screen(s)
  PROVE  SessionOK(s)'
<1>1. /\ threads' = threads
      /\ DOMAIN threads \subseteq Nat \ {0}
      /\ pc \in [Sessions -> Keys \union Queries \union InTx \union {"off"}]
      /\ listed \in [Sessions -> Seq(Nat)]
      /\ open \in [Sessions -> Nat] /\ shown \in [Sessions -> Nat]
  BY ScreenFrame, TablesAreSeqs DEF store, IInv, TypeOK
<1>2. /\ open[s] # 0 => open[s] \in DOMAIN threads
      /\ \A i \in DOMAIN listed[s] : listed[s][i] \in DOMAIN threads
      /\ pc[s] \in InThread => open[s] # 0
  BY DEF IInv, SessionOK, ScreenOK
<1>3. pc'[s] \notin InTx => TxView(s)'
  BY DEF TxView, InTx
<1> SUFFICES pc'[s] \notin InTx /\ ScreenOK(s)'
  BY <1>3 DEF SessionOK
<1>4. CASE Enter(s) \/ NewKey(s) \/ OtherListKey(s)
  BY <1>1, <1>2, <1>4
  DEF Enter, NewKey, OtherListKey, Goto, Forget, screens, ScreenOK, InTx, InThread
<1>5. CASE LoadList(s)
  <2>1. PICK l \in BoardOrder : listed' = [listed EXCEPT ![s] = l]
    BY <1>5 DEF LoadList
  <2>2. \A i \in DOMAIN l : l[i] \in DOMAIN threads
    BY DEF BoardOrder
  <2> QED
    BY <1>1, <1>2, <1>5, <2>1, <2>2 DEF LoadList, Goto, ScreenOK, InTx, InThread
<1>6. CASE QuitList(s) \/ EndSession(s)
  <2>1. Leave(s)
    BY <1>6 DEF QuitList, EndSession
  <2> QED
    BY <1>1, <2>1 DEF Leave, Goto, Forget, ScreenOK, InTx, InThread
<1>7. ASSUME NEW n \in 1 .. MaxThreads, OpenKey(s, n)
      PROVE  pc'[s] \notin InTx /\ ScreenOK(s)'
  <2>1. listed[s][n] \in DOMAIN threads /\ listed[s][n] # 0
    BY <1>1, <1>2, <1>7 DEF OpenKey
  <2> QED
    BY <1>1, <1>7, <2>1 DEF OpenKey, Goto, Forget, ScreenOK, InTx, InThread
<1>8. CASE LoadPosts(s)
  <2>1. open[s] # 0 /\ open[s] \in DOMAIN threads
    BY <1>2, <1>8 DEF LoadPosts, InThread
  <2>2. Cardinality(Atomic!PostsOf(open[s])) > 0
    BY <2>1, ThreadHasPosts
  <2> QED
    BY <1>1, <1>2, <1>8, <2>1, <2>2 DEF LoadPosts, Goto, ScreenOK, InTx, InThread
<1>9. CASE LoadThread(s)
  <2>1. open[s] # 0 /\ open[s] \in DOMAIN threads /\ shown[s] > 0
    BY <1>2, <1>9 DEF LoadThread, InThread, IInv, SessionOK, ScreenOK
  <2>2. Goto(s, "view") /\ UNCHANGED screens
    BY <1>9, <2>1 DEF LoadThread
  <2> QED
    BY <1>1, <1>2, <2>1, <2>2 DEF Goto, screens, ScreenOK, InTx, InThread
<1>10. CASE MoveKey(s) \/ ReplyKey(s)
  BY <1>1, <1>2, <1>10
  DEF MoveKey, ReplyKey, Goto, Forget, ScreenOK, InTx, InThread
<1>11. CASE QuitView(s)
  BY <1>1, <1>2, <1>11 DEF QuitView, Goto, Forget, ScreenOK, InTx, InThread
<1>12. CASE AbandonText(s) \/ BeginError(s)
  BY <1>1, <1>2, <1>12
  DEF AbandonText, BeginError, BackToScreen, Goto, screens, ScreenOK, InTx, InThread
<1>13. CASE FinishText(s)
  BY <1>1, <1>2, <1>13
  DEF FinishText, Goto, screens, ScreenOK, InTx, InThread
<1> QED
  BY <1>4, <1>5, <1>6, <1>7, <1>8, <1>9, <1>10, <1>11, <1>12, <1>13 DEF Screen

(* What the transaction has written grows as TxView says. *)
LEMMA WorkSelf ==
  ASSUME IInv, NEW s \in Sessions, Work(s)
  PROVE  SessionOK(s)'
<1>1. /\ threads' = threads /\ posts' = posts
      /\ open' = open /\ listed' = listed /\ shown' = shown
      /\ pc \in [Sessions -> Keys \union Queries \union InTx \union {"off"}]
      /\ tx \in [threads : Seq(Atomic!Threads), posts : Seq(Atomic!Posts)]
  BY WorkFrame DEF store, screens, IInv, TypeOK
<1>2. ScreenOK(s) /\ TxView(s)
  BY DEF IInv, SessionOK
<1>3. CASE Begin(s)
  <2>1. tx'.threads = threads /\ tx'.posts = posts
    BY <1>3 DEF Begin
  <2> QED
    BY <1>1, <1>2, <1>3, <2>1
    DEF Begin, Goto, SessionOK, ScreenOK, TxView, InThread
<1>4. CASE InsertPost(s)
  <2>1. /\ tx'.threads = threads
        /\ tx'.posts = Append(posts, Atomic!Post(open[s], s, now[s]))
        /\ now' = now /\ pc[s] = "insertPost" /\ pc'[s] = "bump"
    BY <1>1, <1>2, <1>4 DEF InsertPost, TxView, Goto
  <2> QED
    BY <1>1, <1>2, <2>1 DEF SessionOK, ScreenOK, TxView, InThread, Atomic!Post
<1>5. CASE Bump(s)
  <2>1. /\ tx'.threads = [threads EXCEPT ![open[s]].last = now[s]]
        /\ tx'.posts = Append(posts, Atomic!Post(open[s], s, now[s]))
        /\ now' = now /\ pc[s] = "bump" /\ pc'[s] = "commitPost"
    BY <1>1, <1>2, <1>5 DEF Bump, TxView, Goto
  <2> QED
    BY <1>1, <1>2, <2>1 DEF SessionOK, ScreenOK, TxView, InThread, Atomic!Post
<1>6. CASE InsertThread(s)
  <2>1. /\ tx'.threads = Append(threads, Atomic!Thread(s, now[s]))
        /\ tx'.posts = posts
        /\ now' = now /\ pc'[s] = "insertOpening"
    BY <1>1, <1>2, <1>6 DEF InsertThread, TxView, Goto
  <2> QED
    BY <1>1, <1>2, <2>1 DEF SessionOK, ScreenOK, TxView, InThread, Atomic!Thread
<1>7. CASE InsertOpening(s)
  <2>1. /\ tx'.threads = Append(threads, Atomic!Thread(s, now[s]))
        /\ tx'.threads = tx.threads
        /\ tx'.posts = Append(posts, Atomic!Post(Len(tx.threads), s, now[s]))
        /\ now' = now /\ pc'[s] = "commitThread"
    BY <1>1, <1>2, <1>7 DEF InsertOpening, TxView, Goto
  <2> QED
    BY <1>1, <1>2, <2>1
    DEF SessionOK, ScreenOK, TxView, InThread, Atomic!Thread, Atomic!Post
<1>8. CASE TxError(s)
  BY <1>1, <1>2, <1>8 DEF TxError, Goto, SessionOK, ScreenOK, TxView, InThread
<1>9. CASE Rollback(s)
  BY <1>1, <1>2, <1>9
  DEF Rollback, BackToScreen, Goto, SessionOK, ScreenOK, TxView, InThread
<1> QED
  BY <1>3, <1>4, <1>5, <1>6, <1>7, <1>8, <1>9 DEF Work

(* After its commit a session shows a thread that exists. *)
LEMMA CommitSelf ==
  ASSUME IInv, NEW s \in Sessions, Commit(s),
         DOMAIN threads \subseteq DOMAIN threads'
  PROVE  SessionOK(s)'
<1>1. /\ pc \in [Sessions -> Keys \union Queries \union InTx \union {"off"}]
      /\ open \in [Sessions -> Nat]
      /\ tx \in [threads : Seq(Atomic!Threads), posts : Seq(Atomic!Posts)]
      /\ now[s] \in 0 .. MaxClock
  BY DEF IInv, TypeOK
<1>2. ScreenOK(s) /\ TxView(s)
  BY DEF IInv, SessionOK
<1>3. CASE CommitPost(s)
  <2>1. open[s] # 0
    BY <1>2, <1>3 DEF CommitPost, ScreenOK, InThread
  <2> QED
    BY <1>1, <1>2, <1>3, <2>1
    DEF CommitPost, Goto, screens, SessionOK, ScreenOK, TxView, InThread
<1>4. CASE CommitThread(s)
  <2>1. Atomic!Thread(s, now[s]) \in Atomic!Threads
    BY <1>1 DEF Atomic!Thread, Atomic!Threads
  <2>2. tx.threads = Append(threads, Atomic!Thread(s, now[s]))
    BY <1>2, <1>4 DEF CommitThread, TxView
  <2>3. Len(tx.threads) # 0 /\ Len(tx.threads) \in DOMAIN tx.threads
    BY <1>1, <2>1, <2>2, TablesAreSeqs, AppendProperties, LenProperties DEF IInv
  <2>4. /\ threads' = tx.threads /\ open'[s] = Len(tx.threads)
        /\ pc'[s] = "loadPosts" /\ listed'[s] = listed[s]
    BY <1>1, <1>4 DEF CommitThread, Goto
  <2> QED
    BY <1>2, <2>3, <2>4 DEF SessionOK, ScreenOK, TxView, InThread
<1> QED
  BY <1>3, <1>4 DEF Commit

-----------------------------------------------------------------------------
(* The invariant. *)

LEMMA InitIInv == Init => IInv
<1> SUFFICES ASSUME Init PROVE IInv
  OBVIOUS
<1>1. threads = <<>> /\ posts = <<>>
  BY DEF Init, Atomic!Init
<1>2. Atomic!TypeOK
  BY <1>1, EmptySeq DEF Atomic!TypeOK
<1>3. <<>> \in Seq(Nat) /\ <<>> \in Seq(Atomic!Threads) /\ <<>> \in Seq(Atomic!Posts)
  BY EmptySeq
<1>4. TypeOK
  BY <1>2, <1>3, BoardAssumption DEF Init, TypeOK, NoTx
<1>5. DOMAIN threads = {} /\ DOMAIN posts = {}
  BY <1>1
<1>6. OpeningPost /\ ActivityOfLastPost
  BY <1>5
  DEF OpeningPost, ActivityOfLastPost, Atomic!OpeningPost, Atomic!ActivityOfLastPost
<1>7. \A s \in Sessions : SessionOK(s)
  BY DEF Init, SessionOK, ScreenOK, TxView, InThread
<1> QED
  BY <1>4, <1>6, <1>7, ConnInitial DEF IInv

(* The invariant is inductive. *)
LEMMA NextIInv == IInv /\ [Next]_vars => IInv'
<1> SUFFICES ASSUME IInv, [Next]_vars PROVE IInv'
  OBVIOUS
<1>1. Atomic!TypeOK' /\ OpeningPost' /\ ActivityOfLastPost'
  BY StoreKept
<1>2. DOMAIN threads \subseteq DOMAIN threads'
  BY ThreadsGrow
<1> SUFFICES TypeOK' /\ ConnHeldInTx' /\ \A s \in Sessions : SessionOK(s)'
  BY <1>1 DEF IInv
<1>3. ASSUME NEW s \in Sessions, Screen(s)
      PROVE  TypeOK' /\ ConnHeldInTx' /\ \A r \in Sessions : SessionOK(r)'
  <2>1. Others(s) /\ UNCHANGED <<tx, threads, posts>>
    BY <1>3, ScreenOthers, ScreenFrame DEF IInv, store
  <2> QED
    BY <1>1, <1>2, <1>3, <2>1, ScreenTypes, ScreenConn, ScreenSelf, OtherSessionOK
    DEF IInv
<1>4. ASSUME NEW s \in Sessions, Work(s) \/ Commit(s)
      PROVE  TypeOK' /\ ConnHeldInTx' /\ \A r \in Sessions : SessionOK(r)'
  <2>1. Others(s)
    BY <1>4, WorkOthers DEF IInv
  <2>2. ASSUME NEW r \in Sessions, r # s
        PROVE  pc[r] \in InTx => UNCHANGED <<tx, threads, posts>>
    <3>1. CASE Begin(s)
      BY <3>1, BoardAssumption DEF Begin, IInv, ConnHeldInTx
    <3>2. CASE pc[s] \in InTx
      BY <2>2, <3>2, HolderAlone
    <3>3. Begin(s) \/ pc[s] \in InTx
      BY <1>4 DEF Work, Commit, InsertPost, Bump, InsertThread, InsertOpening,
                  TxError, Rollback, CommitPost, CommitThread, InTx
    <3> QED
      BY <3>1, <3>2, <3>3
  <2>3. SessionOK(s)'
    BY <1>2, <1>4, WorkSelf, CommitSelf
  <2> QED
    BY <1>1, <1>2, <1>4, <2>1, <2>2, <2>3, WorkTypes, WorkConn, OtherSessionOK
    DEF IInv
<1>5. CASE Tick
  <2>1. /\ UNCHANGED <<store, tx, conn, now, pc, screens>>
        /\ clock' \in 0 .. MaxClock
    BY <1>5, BoardAssumption DEF Tick, IInv, TypeOK
  <2>2. TypeOK'
    BY <1>1, <2>1 DEF IInv, TypeOK, screens
  <2>3. ConnHeldInTx'
    BY <2>1 DEF IInv, ConnHeldInTx
  <2>4. /\ threads' = threads /\ posts' = posts /\ tx' = tx /\ now' = now
        /\ pc' = pc /\ listed' = listed /\ open' = open /\ shown' = shown
    BY <2>1 DEF store, screens
  <2>5. \A s \in Sessions : SessionOK(s)'
    BY <2>4, Zenon
    DEF IInv, SessionOK, ScreenOK, TxView, Atomic!Post, Atomic!Thread
  <2> QED
    BY <2>2, <2>3, <2>5
<1>6. CASE Crash
  <2>1. <<>> \in Seq(Nat) /\ NoTx \in [threads : Seq(Atomic!Threads), posts : Seq(Atomic!Posts)]
    BY EmptySeq DEF NoTx
  <2>2. TypeOK'
    BY <1>1, <1>6, <2>1, BoardAssumption DEF Crash, IInv, TypeOK
  <2>3. ConnHeldInTx'
    BY <1>6, BoardAssumption DEF Crash, ConnHeldInTx, InTx
  <2>4. \A s \in Sessions : SessionOK(s)'
    BY <1>6 DEF Crash, SessionOK, ScreenOK, TxView, InThread
  <2> QED
    BY <2>2, <2>3, <2>4
<1>7. CASE UNCHANGED vars
  <2>1. /\ threads' = threads /\ posts' = posts /\ tx' = tx /\ now' = now
        /\ pc' = pc /\ listed' = listed /\ open' = open /\ shown' = shown
        /\ conn' = conn /\ clock' = clock
    BY <1>7 DEF vars, store, screens
  <2>2. TypeOK'
    BY <1>1, <2>1 DEF IInv, TypeOK
  <2>3. ConnHeldInTx'
    BY <2>1 DEF IInv, ConnHeldInTx
  <2>4. \A s \in Sessions : SessionOK(s)'
    BY <2>1, Zenon
    DEF IInv, SessionOK, ScreenOK, TxView, Atomic!Post, Atomic!Thread
  <2> QED
    BY <2>2, <2>3, <2>4
<1> QED
  BY <1>3, <1>4, <1>5, <1>6, <1>7, StepKinds

(* The invariant holds in every reachable state. *)
LEMMA Invariant == Spec => []IInv
BY InitIInv, NextIInv, PTL DEF Spec

(***************************************************************************)
(* Tables, transaction and screens keep their types (Board's variables).   *)
(***************************************************************************)
THEOREM BoardTypes == Spec => []TypeOK
<1>1. IInv => TypeOK
  BY DEF IInv
<1> QED
  BY <1>1, Invariant, PTL

(***************************************************************************)
(* The transactions of CreateThread and CreatePost, with their errors and  *)
(* with crashes, implement the atomic operations.                          *)
(***************************************************************************)
THEOREM BoardRefinesAtomicBoard == Spec => AtomicSpec
<1>1. Init => Atomic!Init
  BY DEF Init
<1>2. IInv /\ [Next]_vars => [Atomic!Next]_(Atomic!tables)
  BY StepRefines DEF Atomic!tables
<1> QED
  BY <1>1, <1>2, Invariant, PTL DEF Spec, AtomicSpec, Atomic!Spec

(***************************************************************************)
(* Every thread has its opening post at every moment, whatever failed or   *)
(* crashed (CreateThread).                                                 *)
(***************************************************************************)
THEOREM BoardOpeningPost == Spec => []OpeningPost
<1>1. IInv => OpeningPost
  BY DEF IInv
<1> QED
  BY <1>1, Invariant, PTL

(***************************************************************************)
(* The activity time of a thread is the time of its last post, at every    *)
(* moment (CreatePost).                                                    *)
(***************************************************************************)
THEOREM BoardActivityOfLastPost == Spec => []ActivityOfLastPost
<1>1. IInv => ActivityOfLastPost
  BY DEF IInv
<1> QED
  BY <1>1, Invariant, PTL

(***************************************************************************)
(* A thread opened from a list, however old, or just created, is there and *)
(* has posts (readBoard, newThread, viewThread).                           *)
(***************************************************************************)
THEOREM BoardOpenThreadLoads == Spec => []OpenThreadLoads
<1>1. IInv => OpenThreadLoads
  BY DEF IInv, SessionOK, ScreenOK, OpenThreadLoads
<1> QED
  BY <1>1, Invariant, PTL

(***************************************************************************)
(* The one connection is held exactly by the session in a transaction, and *)
(* every way out of a transaction gives it back (the deferred Rollback).   *)
(***************************************************************************)
THEOREM BoardConnHeldInTx == Spec => []ConnHeldInTx
<1>1. IInv => ConnHeldInTx
  BY DEF IInv
<1> QED
  BY <1>1, Invariant, PTL
=============================================================================
