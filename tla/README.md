# Thistle BBS in TLA+

Thistle BBS is a telnet bulletin board: a TCP server, one goroutine per caller,
a SQLite store behind a pool of one connection, and a games "door" that bridges
the caller to a game server.  This directory holds TLA+ models of its parts, the
TLC configurations that check them on small instances, and TLAPS proofs of the
properties that matter most.  All definitions are translated from the Go source;
paths below are relative to `internal/` (or the repository for `main.go`).

    tlc -workers 2 -config session_door.cfg MCSession     # one run
    tlapm SessionProofs.tla                               # one module of proofs

## The system

| component | state | operations | talks to |
|---|---|---|---|
| input queue (`server/session.go`) | `buf`, `closed`, `aborted`, a condition variable | append, close, abort, readByte | fed by the read loop, drained by screens and by the local pumps of doors |
| session (`server/session.go`, `screen.go`, `main.go`, `games.go`) | read loop, queue, telnet parser and policy, window size, user | run, mainMenu, readSingleKey, readLine, readText, writeRaw, close | started and closed by the server; calls every screen |
| games door (`server/door.go`) | connection to the door, two pumps, a `sync.Once` | dial, RLOGIN packet, pump both ways, kill | the queue, the client's connection, the door server |
| server (`server/server.go`, `main.go`) | listener, `conns`, `closed`, a wait group | Serve, handle, Shutdown; signal, deadline, store close | sessions, the store |
| board store (`store/threads.go`, `boards.go`, `store.go`) | tables `threads`, `posts` | CreateThread, CreatePost (transactions), Threads, Posts, Thread | SQLite, one connection |
| board screens (`server/board.go`, `view_thread.go`) | the list as loaded, the open thread, the page | list, open, reply, new thread, paging | the store |
| accounts (`server/front_gate.go`, `login.go`, `profile.go`, `store/users.go`) | table `users`, the session's copy of its user | register, log in, record login, edit profile | the store |
| migration (`store/migrate.go`) | schema, `user_version` | Open's migrations | SQLite |
| telnet (`telnet/telnet.go`, `telnet_policy.go`) | parser state across chunks, options enabled | Feed, Handle | the read loop and the door's remote pump |
| line input (`server/session.go`) | the line under the cursor | readLine, readSingleKey's numbers, readText | the queue |
| paging (`server/view_thread.go`, `ansi.Wrap`; `pager.go`, `users.go`) | page, `pos`, `sub` | next, previous, jump, reply, resize | the store, the read loop's sizes |
| templates and ANSI (`server/template.go`, `ansi/`) | none | rendering | screens |

What is hard in it: goroutines of four kinds compete for one queue, and an abort
is a flag that any of them may consume; a door's local pump can outlive its
door; `Shutdown` races with connections that are between `Accept` and the table
of connections; a single database connection must be given back on every path;
transactions fail or are cut by a crash half-way; screens act on lists and users
they loaded long ago.  `PROJECT.json` lists each hazard at its line.

For each component, what makes it correct:

* queue and session: no sleeper misses a wake-up; keys are neither lost nor
  reordered across menus and doors; a dead link ends everything;
* door: its output never reaches a menu; either side can end it;
* server: the table of connections is exact; Shutdown waits for what it closed;
  a signal ends the process;
* board: threads and replies appear whole or not at all, with the right activity
  time; what is on a screen can be opened; the database is never held for ever;
* accounts: names stay unique, nobody acts as a user without the password, a
  session knows its user as the database does, edits survive;
* migration: a program that serves has the whole schema, whatever went before;
* telnet: the parse does not depend on how the stream is cut; negotiation ends,
  with nothing left open however the two sides' requests cross; the session follows
  the window; a door's output appears where the door believes;
* line input and paging: no page is blank, none is skipped or shown twice, and a
  text that is too long loses as little as possible, whatever is typed, posted or
  resized meanwhile.

## Modules

| module | models |
|---|---|
| `InputQueue` | `inputQueue` and its four methods, with the blocked readers explicit |
| `Session` | EXTENDS `InputQueue`: read loop, main menu and games list, the door with its pumps, `kill`, and `Session.close` |
| `AtomicBoard` | what the board promises: whole threads and whole replies, in some order |
| `Board` | the transactions of the store on one connection, with errors and crashes, driven by the screens; implements `AtomicBoard` |
| `Server` | `main`, `Serve`, `handle`, `Shutdown` |
| `Migration` | `Open` and `migrate`, statement by statement, over any number of starts of the program |
| `Accounts` | EXTENDS `Migration`: the gate, login, registration, profile and the table `users` |
| `TelnetCodec` | the parser as a machine that takes one byte, the encoding of messages, the policy's answers |
| `Telnet` | EXTENDS `TelnetCodec`: a session on the wire with a telnet client on the other side, and a door whose output the remote pump parses and encodes |
| `Text` | messages as lines of words: `ansi.Wrap`, `totalLen`, `truncateLines` |
| `Viewer` | EXTENDS `Text`: a session that reads a thread and replies to it, while its window changes and others post |
| `SessionProofs`, `BoardProofs`, `ServerProofs`, `AccountsProofs`, `TelnetProofs`, `NegotiationProofs`, `TextProofs`, `ViewerProofs` | theorems |
| `MCSession`, `MCBoard`, `MCServer`, `MCAccounts`, `MCTelnet`, `MCViewer` | values of the constants for TLC |

### InputQueue and Session

Each method of the queue runs under its mutex and is one step.  `readByte` has
three outcomes, `ReadByte`, `ReadErr` and `ReadWait`; a reader in `cond.Wait` is
in `waiting` until a Broadcast empties that set, and then competes again.

`Session` gives each goroutine a program counter: `readLoop`, `screen`, and per
visit to the door `remote[d]` and `local[d]`.  The screen reads the queue as
reader 0, the local pump of visit `d` as reader `d`; a visit's pumps keep their
identity after the visit because the code does not wait for the local one.
`once[d]` is the `sync.Once` of `kill`: `KillClose` and `KillAbort` are its two
statements and `KillSecond` a caller that finds it done; a caller that finds it
busy blocks.  `typed` and `taken` are history variables.

Bytes are drawn from the ones some reader tells apart: the menu keys `g w q l`,
Ctrl-C and Ctrl-D; any other byte behaves as a key the menu does not know.  `w`
stands for either door.  Chunks hold no telnet command.  Logging in comes before
the initial state.

### AtomicBoard and Board

Rows are never deleted and ids are AUTOINCREMENT, so a table is a sequence and an
id an index.  A transaction works on `tx`, its private view; commit makes it the
committed view.  Every statement may fail (`TxError`, then the deferred
`Rollback`), `Begin` may fail too, and `Crash` may come at any moment.  A query
that is not in a transaction is one step, possible when the connection is free.
`CreateThread` and `CreatePost` read the clock in `FinishText`, before the wait.
The screens keep what they loaded: `listed` (board list), `open` (thread shown),
`shown` (posts shown).

Assumed: the clock does not go backwards; a `Commit` that reports an error has
not committed; `Threads`' LIMIT of 1000 is not reached.

### Server

`handler[c]` is the goroutine in `handle` for connection `c`, `conns` and `wg`
the shared variables.  A session is `run`, or `dial` while it is in the dial of a
door and deaf to its link.  `Server.ln` is written by `Serve` and read by
`Shutdown` without a lock; `lnSet` is the moment at which the write becomes
visible, and a Shutdown that comes earlier leaves the listener open.

### Migration and Accounts

`version`, `tables` and `lastLogin` are what the file holds after a commit,
`opening` is the statement that `Open` has come to.  `schema`, `setV1` and
`commit` are one transaction and change the file at `Commit` only; `AddColumn`
and `SetVersion2` each change it at once.  `StopProcess` is the failure of a
statement (main then ends) as well as the end of the process at any moment, also
while it serves; `StartProcess` opens the file again.

`Accounts` runs the sessions of a program that is `serving`.  Each statement of
the store is a step, between two of which other sessions act: `check` to
`create` is registerFlow's window between finding a name free and inserting it,
and a session's `copy` of its profile is as old as its login.  `form` is what
the user typed into a form, `typed` the name and password; for a session that
is logged in `typed` is history, as is `stale`, the sessions whose user another
session has edited since they read it.  `Fold` is the column's NOCASE collation,
`Clip` is `clip`, which changes nothing the second time.  `UserByUsername`'s
error counts as "incorrect" at login and as "free" at registration, as in the
code.  Of login times there is whether a user was ever stamped; hashes are the
passwords themselves, and the names are valid ones.

### TelnetCodec and Telnet

What travels is a stream of messages, each with the bytes of its encoding that
have not been read.  `Feed` loops over bytes and has no memory but the parser's
fields, so `DigestByte` takes one byte; `EndChunk` says that the Read ended
there, `HandleEvent` is the loop over the events that `Feed` returned, with
`Policy.Handle`, and `applyDims` ends the round.  So every way to cut the stream
into Reads is a behaviour.  Payload comes as one event per byte; the code joins
the bytes between two commands, which nothing tells apart.  `RemotePump` does
the same for a door, event by event, and `EndDoorChunk` forgets `lastCR` as
`doorEncode` does between chunks.  A door only starts when the line is quiet.

The client is external: `us` and `him` are the two halves of RFC 1143, without
its queue; it answers a request only when that changes something, tells its type
when asked and its size when NAWS is agreed and when its window changes while it
believes NAWS is on. It ignores the refusal of an option it does not know
(`HearOther`), which it gets when a door asks for one. It sends no NOPs.
`pending`, `announced`, `drawn` and `leaked` are history. Not in the model
because nothing in the program calls them: `PasswordEcho`, `RestoreEcho`,
`Policy.Preamble`.

### Text and Viewer

A line is the sequence of its words' lengths, one space apart; doubled spaces
count in the limit of a text and nowhere else, and are left out.  `Wrapped`
names the output lines of `ansi.Wrap` by the word they start with: `Columns` is
the loop over the words of a paragraph, with the width of the line under way.

`Viewer.Load` is the top of viewThread's loop up to the wait for a key: queries,
clamps, page, painting.  `shown` keeps what it loaded and painted, in which
`NextKey`, `PrevKey`, `BottomKey` and `EnterNumber` count, while
`ResizeWidth`, `ResizeHeight` (`applyDims`) and `OthersPost` change what is
loaded next.  The template's bindings of `data/menus/view_thread.txt` and the
fallback lead to the same actions.  readText's `lines` and readLine's `buf` are
edited in `text`, and `post` is what `reply` does with the text.  A dot is a
letter that happens to be one, so a line of one letter is both a line and the
end.  `turn`, `still`, `typed` and `own` are history.

Both read the size while the read loop may write it; the two dimensions are read
at different moments, which is the same as a change of the other one before or
after `Load`.  A thread has an opening post (`OpeningPost` of `Board`), so the
return on an empty thread is left out.  Windows are those in which the headings
fit (see Not modelled).

## Runs

| run | instance | shows |
|---|---|---|
| `session_door` | 6 kinds of bytes, 4 bytes typed, 2 visits | types, no lost wake-up, order of input, nothing lost at the end, pumps confined; liveness of dead links, hang-ups and Ctrl-D |
| `session_abort` (violation) | 3 bytes, 1 visit | the abort of a door ends the session: after Ctrl-D no pump is left to consume the flag, and the games list does |
| `session_pump` (violation) | 3 bytes, 1 visit | the local pump of a door that is over takes a key typed at the menu |
| `board_store` | 2 sessions, 2 threads, 3 posts, 2 times | refinement of `AtomicBoard`, opening posts, activity, screens, the connection; the database answers |
| `server_shutdown` | 3 connections | table exact, swept sessions ended, a signal ends the process |
| `server_contract` (violation) | 3 connections | Shutdown returns nil with an accepted connection's handler still to start |
| `accounts` | 2 sessions, 3 names of which 2 differ in case, 2 passwords, 1 field, 3 texts of which 1 too long, 2 users | names unique, sessions authenticated, copies fresh unless marked, a serving program has its schema |
| `accounts_edit` (violation) | 1 name, 1 password, 1 user | a blank field is overwritten with a stale copy |
| `migration_again` (violation) | the same | a stop between the two statements of version 2 blocks every later start |
| `telnet` | 5 clients (refusing, agreeing to all, asking first, with a door, resizing), 2 windows of which one has 255 columns and no height, 2 keys of which one is 255, 4 door messages of 8 kinds | messages whole however Reads end, nothing left open by the negotiation, the last size told is followed, a door's cursor; negotiation settles |
| `telnet_preamble` (violation) | the same | a client agrees to what the preamble offers and requests, and is refused |
| `viewer` | a thread of a five- or four-line and a one-line message, 2 widths, 2 heights (pages of 1 and 2 lines), 1 reply or another's post, 2 digits, texts of at most 5 characters with 2 in excess | types, no blank page, pages turn without loss or repetition, replies shown, texts fit and lose one line at most, wrapping loses no word |

Why the bounds are enough.  Two visits give an old local pump next to a new
visit's, which is all the competition there is for the queue besides the menu;
four bytes reach a second door (`g w` and `w` after the first one ends) with one
byte to spare for the pumps to fight over.  Two sessions and three posts give a
thread, a reply and a concurrent reply or second thread, and two times tell
before from after.  Three connections are one in the table, one between
Accept and the table and one still queued when the sweep comes.  Two sessions
are two registrations of one name, or two editors of one user; the third name
and the second password make a wrong login and a second user.  The two fields of
a profile are treated alike, so one is enough.  Files of every version are
opened, any number of times.  Only `accounts` uses symmetry, of its two
sessions, which nothing tells apart; it checks no liveness.

In `telnet` the parser's states meet a command, a doubled 255 (the window's
columns, a key, a door's byte) and a subnegotiation; a client asks first, second
or for what it will not get; two sizes are told and one is partly unknown; four
messages of a door contain a CRLF, cut or not, before or after a command, which
may be about an option that the client does not know. In `viewer` a page has
fewer lines than, as many as and more than the next one in either dimension, a
post has one page or five, a text reaches the limit exactly, exceeds it by one
and by two, in one line or several; two digits make numbers in and out of range.
Sizes change and keys are pressed any number of times.

Deadlock is checked in every run; the states in which the program has ended step
to themselves (`Finished`, `Exited`, `Idle`).

### Fairness

* Session: goroutines that can go on do (`WF` on the read loop's error, on the
  screen and on each pump's own steps).  Nothing is assumed of the client
  (typing, reading), of the network, or of the door.  A write to an open door is
  not fair, since the door need not read; a write to a closed one returns.  So
  `LinkDownEndsAll` has the exception `StuckInDoor`, which is real: there is no
  write deadline.  `DoorHangupReturns` and `CtrlDReturns` assume that the client
  reads from some time on, because `writeRaw` has no deadline either.
* Board: the goroutine in a transaction runs (`WF`); one waiting for the
  connection gets it if it is free again and again (`SF`), as `database/sql`
  hands a freed connection to a waiting request.  Users owe nothing.
* Server: goroutines run, a dial ends (10 s timeout), Shutdown's deadline passes
  (5 s).  Users owe nothing: a session may go on for ever.
* Telnet: the read loop and the remote pump run, and the client reads what it is
  sent (`WF` on each); that is what TCP and a telnet program do.  User and door
  owe nothing; their moves are bounded, as `Settles` is about the negotiation.
* Viewer: no liveness is claimed; nothing obliges a user to press a key.

## Proofs

All theorems hold for every value of the constants that the named assumptions
admit (`SessionAssumption`, `BoardAssumption`, `ServerAssumption`,
`AccountsAssumption`, `TelnetAssumption`, `ViewerAssumption`); none of them
bounds anything beyond what its module does.

* `SessionProofs`.  `QueueStep`: whatever a step does to the queue is one of its
  operations, so `NoLostWakeup` need only be proved per operation, in lemmas on
  `InputQueue` alone.  `InputInOrder` is not inductive: when the queue closes,
  one must know that the read loop is over so that no later byte is counted as
  typed and dropped in the middle.  The strengthening `InputOK` says that
  `taken \o buf` is exactly `typed` until the close and a prefix after it, and
  ties `closed` to the read loop, the link and the screen's place in
  `Session.close`; `NothingTypedIsLost` follows.  `RemotePumpConfined` is
  inductive with the types.
* `BoardProofs`.  The invariant `IInv` says of the session that holds the
  connection what its transaction has written on top of the committed rows
  (`TxView`), place by place; the committed rows cannot change meanwhile because
  only the holder commits (`ConnHeldInTx`).  A commit is then exactly one
  operation of `AtomicBoard` and every other step a stutter
  (`BoardRefinesAtomicBoard`); `OpeningPost` and `ActivityOfLastPost` are proved
  of `AtomicBoard` and carried over.  Rows only grow, so ids on a screen stay
  valid (`ScreenOK`, `BoardOpenThreadLoads`).
* `ServerProofs`.  `SweptSessionsEnded` needs the meaning of the count: `wg` is
  the number of handlers between Add and Done (`Counted`), and swept connections
  are registered or further on (`SweptPast`).  At `wg = 0` none is alive.
* `AccountsProofs`.  `FileOK` says which version the file has at which statement
  of an opening, whence `ServingHasSchema`.  For the users, `CopyFresh` is not
  inductive: a login copies a row, so every row must be clipped already
  (`RowsClipped`), and a registration copies what was typed, so that must be
  clipped when it is inserted (`FormOK`).  `Authenticated` survives the steps of
  others because rows keep their name and password (`RowsKept`).  Steps that
  only read are proved together (`QuietOK`), the others one by one.

* `TelnetProofs`.  `ParseStep` is the heart: on a parser whose state is that of
  a message partly read, the next byte of the encoding leads to the state of the
  rest, or to exactly that message as an event.  `StreamOK` keeps parser and wire
  in this agreement, whence `FeedIntact` (`MessagesIntact`).  For `SizeSettled`,
  `WindowOK` says that the last size in `pending`, or else the session's own, is
  the one announced last.  For `DoorRendered`, `DoorOK` relates the remote
  parser, `lastCR`, `screen` and `drawn` in the middle of a message and after a
  CR that may or may not be doubled.
* `NegotiationProofs`.  `Outcome` speaks of the rest state alone and says nothing
  on the way there.  `NInv`, which TLC checked before it was proved, says where
  the message is that will settle each option: for one that the server refuses,
  the request or the refusal is on its way (`Refused`, `NoEcho`); for one that
  it agrees to perform, nobody speaks of it unless the client asked or a door's
  agreement leaked (`Lent`); for go-ahead, offer, agreement and request follow
  each other (`Suppressed`).  Only membership counts, except in the preamble:
  the size is told at its `DO NAWS` and the type at its last message, after
  `DO TTYPE` has been agreed to, so `Ordered` keeps what is still `Ahead` and
  the `Progress` made.  One lemma says what it does to the client to hear a
  message (`HearIsHeard`), one what the policy replies (`ReplyIs`); each part of
  `NInv` follows from these.  When all is quiet nothing is on its way, and what
  remains of `NInv` is `AtRest`.  It implies `Outcome`, and also `RefusedAtRest`:
  the run `telnet_preamble` shows one client in one order of messages, the
  theorem that it is so for every client in every order.
* `TextProofs`.  The library's inductions are out of reach, so `SetInduction` is
  proved for sets of numbers; by it each recursive function of `Text` is one
  (`Recursion`) and satisfies its equation.  From the equations follow
  `TruncateKeepsMost` (what is kept is the longest beginning within the limit),
  `WrapKeepsWords` (each word is on exactly one output line) and `LinesType` (a
  wrapped message has a number of lines).
* `ViewerProofs`.  `PageOfBody`: page s of a
  body is not blank while s is below `postPages`, and the last one ends with the
  body.  `Waiting` says that the page on the screen is page `sub` of what was
  loaded, and current if the window kept its size; `Loading` says for a key just
  pressed which page it asked for relative to that one.  Then one `Load` makes
  `PagesTurn` true (`LoadTurns`), and `Waiting` implies `NoBlankPage`.
  `TextFits` and `OnlyLastLost` need `Collected`, that what is being entered has
  lost nothing so far; then `TruncateKeepsMost` applies to the one line that may
  exceed the limit.  `LinesFit` needs that the post on the screen is still a
  post, and is then `WrapKeepsWords` with the rule where a line is broken; it
  speaks of paragraphs whose words all fit, as `Wrap` does not split a word.

Every invariant and action property that a passing run checks, and the
refinement, is a theorem.  Only model-checked are the liveness properties
(`LinkDownEndsAll`, `DoorHangupReturns`, `CtrlDReturns`, `DatabaseAnswers`,
`SignalEndsProcess`, `Settles`), since fairness and ENABLED are out of the
prover's reach.

## Where code and documents differ

With a run that shows it:

1. `session.go:23` says that ErrQueueAbort means "the current phase is over",
   not that the session is done.  After Ctrl-D in a door it ends the session at
   the next prompt, unless a key that is already on its way clears the flag
   (`session_abort`).
2. `door_test.go:153` says the local pump must be gone once the door is over; it
   may take one more key (`session_pump`).
3. `server.go:110` says Shutdown waits for handlers; one that is between Accept
   and `wg.Add` is missed (`server_contract`).
4. `store_test.go:217` says that running migrate again should not fail; after a
   stop between ALTER TABLE and the new `user_version` it always does
   (`migration_again`).
5. `profile.go:80` tells the user that Enter keeps the current value; it writes
   the value this session read at login, over a later one of another session
   (`accounts_edit`).
6. `server.go:157-158` says that the server controls all echoing, announces WILL
   ECHO and requests NAWS, BINARY and TTYPE.  Its policy answers the client's DO
   ECHO with WONT ECHO and its WILL for the others with DONT, so at rest none of
   them is in force (`telnet_preamble`): a client echoes itself what `readLine`
   echoes too, and passwords appear.  `telnet_policy.go:76` gives the refusal of
   ECHO a reason, to avoid double echo, which it brings about.  The size and the
   type that go with the client's agreement still arrive, so `Outcome` can say
   that they have been told.  WILL SGA and DO SGA are both answered with DO SGA;
   the client's DO SGA answers the preamble's WILL, so each side suppresses
   go-ahead in the end if the client can (`Suppressed`).

Without a run:

7. `threads.go:167` promises chronological order; `CreatePost` reads the clock
   before it waits for the connection, so order of ids and of times may differ.
8. `session.go:92` says that window sizes are honoured; a client that believes
   the DONT NAWS of point 6 does not announce a later one.  `SizeFollows` speaks
   of the sizes that are announced.
9. `telnet_policy.go:3` says that the policy answers the client; the door's
   policy is given the door's commands, and its answers go to the client too
   (`door.go:163`).  A refusal does no lasting harm; an agreement makes the
   client believe that the server performs BINARY, NAWS or TTYPE, for which it
   never asked.  `leaked` marks these options, and `Outcome` allows for them.
10. `ansi.go:143` says that long words are split; they are written whole, on a
    line wider than asked for.  `LinesFit` makes no claim about them.
11. `session.go:368` says that Ctrl-D ends a message; on an empty line it ends the
    session and the message is lost, elsewhere it is ignored.
12. `board.go:18` and `users.go:38` make the pager anew for each key.  The keys for
    next and previous change the page of a pager that is not painted again:
    the lists never leave their first page, although `session.go:318` calls
    Enter the "next page" default in list views.  Rows of other pages can be
    opened by number.
13. A message that grows too long is cut by whole lines (`session.go:383` says
    "truncating"): the last line is lost, and a first line of 4000 characters or
    more leaves nothing, which is then reported as empty.
14. `users.go:81` (store) says that of those who never logged in the oldest member
    comes first; the query sorts by `joined_at DESC`.
15. An abandoned or failed reply moves the reader to the last post as a reply
    does; after a change of the window's size the page number is kept, so the
    reader is not where she was (`PagesTurn` therefore has `still`).

## Not modelled

* Pager and the two lists that use it: point 12 leaves them without state that
  lives from one key to the next.  viewUser, dates and counts only read.
* Templates, colours, rules, banners: formatting without state.  A row of a list
  clips its title to `contentWidth()-44` bytes (`users.go`: `-36`) and `ansi.Rule`
  its title to `w-2`; in windows narrower than that the count is negative.
* The text of the RLOGIN packet, password hashing, log lines.
* SQLite itself, the operating system's TCP.

Further work: `Session` with `Viewer`'s screens in place of its menu loop, and
the accounts' sessions on the queue.
