---------------------------- MODULE AtomicBoard ----------------------------
(***************************************************************************)
(* What the board promises, whatever the sessions, the transactions and    *)
(* the crashes underneath: threads and posts are only ever added, a thread *)
(* together with its opening post, a reply together with the new activity  *)
(* time of its thread.  Rows have AUTOINCREMENT ids and are never deleted, *)
(* so a table is a sequence and a row's id its index.                      *)
(***************************************************************************)
EXTENDS Naturals, Sequences

CONSTANTS Authors, Times

VARIABLES threads,   (* rows of the table threads *)
          posts      (* rows of the table posts   *)

tables == <<threads, posts>>

Thread(a, at)  == [author |-> a, created |-> at, last |-> at]
Post(t, a, at) == [thread |-> t, author |-> a, at |-> at]

Threads == [author : Authors, created : Times, last : Times]
Posts   == [thread : Nat \ {0}, author : Authors, at : Times]

TypeOK == threads \in Seq(Threads) /\ posts \in Seq(Posts)

Init == threads = <<>> /\ posts = <<>>

StartThread(a, at) ==
    /\ threads' = Append(threads, Thread(a, at))
    /\ posts' = Append(posts, Post(Len(threads) + 1, a, at))

Reply(t, a, at) ==
    /\ threads' = [threads EXCEPT ![t].last = at]
    /\ posts' = Append(posts, Post(t, a, at))

Next ==
    \E a \in Authors, at \in Times :
        \/ StartThread(a, at)
        \/ \E t \in DOMAIN threads : Reply(t, a, at)

Spec == Init /\ [][Next]_tables

-----------------------------------------------------------------------------
PostsOf(t) == {i \in DOMAIN posts : posts[i].thread = t}

(* i is the first (the last) post of thread t. *)
IsFirst(t, i) == i \in PostsOf(t) /\ \A j \in PostsOf(t) : i <= j
IsLast(t, i)  == i \in PostsOf(t) /\ \A j \in PostsOf(t) : j <= i

(***************************************************************************)
(* CreateThread: every thread has an opening post, by the thread's author  *)
(* and of the thread's time, and no post lacks its thread.                 *)
(***************************************************************************)
OpeningPost ==
    /\ \A t \in DOMAIN threads :
         \E i \in PostsOf(t) :
            /\ IsFirst(t, i)
            /\ posts[i].author = threads[t].author
            /\ posts[i].at = threads[t].created
    /\ \A i \in DOMAIN posts : posts[i].thread \in DOMAIN threads

(***************************************************************************)
(* CreatePost: the activity time of a thread, by which Threads sorts the   *)
(* board, is the time of the last post in it.                              *)
(***************************************************************************)
ActivityOfLastPost ==
    \A t \in DOMAIN threads :
        \E i \in PostsOf(t) : IsLast(t, i) /\ posts[i].at = threads[t].last
=============================================================================
