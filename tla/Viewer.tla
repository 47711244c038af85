-------------------------------- MODULE Viewer --------------------------------
(***************************************************************************)
(* One session reads a thread message by message and replies to it:        *)
(* viewThread and reply (view_thread.go) with the key, number and text     *)
(* entry under them (session.go), while its window changes size and others *)
(* post to the thread.                                                     *)
(*                                                                         *)
(* The screen works on what it loaded before it waits for a key: how many  *)
(* posts and pages there were and how many lines a page had.               *)
(***************************************************************************)
EXTENDS Text

CONSTANTS InitialThreads,  (* threads, as sequences of messages            *)
          OtherPosts,      (* messages that others post                    *)
          MaxPosts,        (* bound: nobody starts a post beyond it        *)
          Widths, Heights, (* sizes of the window                          *)
          Digits,          (* digits that the user types                   *)
          MaxDigits,       (* bound: digits of a number                    *)
          maxMessageChars, (* the limit of readText                        *)
          MaxExcess        (* bound: characters typed beyond that limit    *)

ASSUME ViewerAssumption ==
    /\ InitialThreads \subseteq Seq(Message) /\ << >> \notin InitialThreads
    /\ OtherPosts \subseteq Message
    /\ Widths \subseteq Nat /\ Heights \subseteq Nat
    /\ Digits \subseteq 0..9
    /\ MaxPosts \in Nat /\ MaxDigits \in Nat /\ MaxExcess \in Nat
    /\ maxMessageChars \in Nat

VARIABLES pc,             (* where the screen is, see PC                    *)
          posts,          (* the thread in the store                        *)
          width, height,  (* Session.width and Session.height               *)
          pos, sub,       (* viewThread's post and its page, from 0         *)
          jumpLast,       (* viewThread's flag                              *)
          shown,          (* the page on the screen, with what was loaded   *)
          num,            (* readSingleKey's number: digits and value       *)
          lines,          (* readText's lines                               *)
          buf,            (* readLine's line; a last 0 is a trailing space  *)
          turn,           (* history: what the last key asked for           *)
          still,          (* history: no change of size since the painting  *)
          typed,          (* history: the lines entered since the text began*)
          own             (* history: the place of a reply just made, or 0  *)

sizeVars == <<width, height>>
pageVars == <<pos, sub, jumpLast, shown>>
textVars == <<lines, buf, typed>>
vars == <<pc, posts, sizeVars, pageVars, num, textVars, turn, still, own>>

(* Outside viewThread, loading and painting, waiting for a key, in         *)
(* readText, and with a text read.                                         *)
PC    == {"out", "load", "key", "text", "post"}
Turns == {"none", "open", "next", "prev", "top", "bottom", "jump", "reply", "other"}

Page == [post : Nat, n : Nat, from : Nat, to : Nat, len : Nat, budget : Nat]
NoPage == [post |-> 0, n |-> 0, from |-> 0, to |-> 0, len |-> 0, budget |-> 1]

NoNumber == [digits |-> 0, value |-> 0]

Init ==
    /\ pc = "out"
    /\ posts \in InitialThreads
    /\ width \in Widths /\ height \in Heights
    /\ pos = 0 /\ sub = 0 /\ jumpLast = FALSE /\ shown = NoPage
    /\ num = NoNumber
    /\ lines = << >> /\ buf = << >> /\ typed = << >>
    /\ turn = "none" /\ still = TRUE /\ own = 0

-----------------------------------------------------------------------------
(* The screen's geometry. *)

viewThreadFrame == 6

contentWidth(w)  == w - 2
contentHeight(h) == h - 2

viewBudget(ch) == IF ch > viewThreadFrame THEN ch - viewThreadFrame ELSE 1

(* How many lines post p (from 0) has in a window of width w. *)
BodyLines(p, w) == Lines(posts[p + 1], contentWidth(w) - 4)

(* Mutant of postPages: one page too many when the last one is full. *)
PagesOver(len, budget) == IF budget < 1 THEN 1 ELSE len \div budget + 1

postPages(len, budget) ==
    IF len = 0 \/ budget < 1 THEN 1 ELSE (len + budget - 1) \div budget

(* Mutant of LastPage: the pages of the post on the screen are counted. *)
LastOfShown(p, w, budget) == postPages(shown.len, budget) - 1

LastPage(p, w, budget) == postPages(BodyLines(p, w), budget) - 1

Clamped(x, hi) == IF x > hi THEN hi ELSE x

-----------------------------------------------------------------------------
(* viewThread: its loop up to the wait for a key. *)

Open ==
    /\ pc = "out"
    /\ pc' = "load" /\ turn' = "open"
    /\ pos' = 0 /\ sub' = 0 /\ jumpLast' = FALSE
    /\ UNCHANGED <<posts, sizeVars, shown, num, textVars, still, own>>

(* postBlock's lines from..to of page s, counted from 1. *)
PageOf(p, s, len, budget) ==
    [post |-> p, n |-> Len(posts), len |-> len, budget |-> budget,
     from |-> Clamped(s * budget, len) + 1,
     to   |-> Clamped(Clamped(s * budget, len) + budget, len)]

Load ==
    LET n      == Len(posts)
        p      == IF jumpLast THEN n - 1 ELSE Clamped(pos, n - 1)
        budget == viewBudget(contentHeight(height))
        len    == BodyLines(p, width)
        s      == Clamped(IF jumpLast THEN 0 ELSE sub, postPages(len, budget) - 1)
    IN  /\ pc = "load"
        /\ pc' = "key" /\ turn' = "none"
        /\ pos' = p /\ sub' = s /\ jumpLast' = FALSE
        /\ shown' = PageOf(p, s, len, budget)
        /\ num' = NoNumber /\ still' = TRUE /\ own' = 0
        /\ UNCHANGED <<posts, sizeVars, textVars>>

(* Posts or ThreadByID fails, and viewThread returns its error. *)
LoadFails ==
    /\ pc = "load"
    /\ pc' = "out" /\ own' = 0
    /\ UNCHANGED <<posts, sizeVars, pageVars, num, textVars, turn, still>>

-----------------------------------------------------------------------------
(* readSingleKey's number.  Any other key is ignored while there is one.   *)

TypeDigit(d) ==
    /\ pc = "key" /\ num.digits < MaxDigits
    /\ num' = [digits |-> num.digits + 1, value |-> 10 * num.value + d]
    /\ UNCHANGED <<pc, posts, sizeVars, pageVars, textVars, turn, still, own>>

(* Mutant of EraseDigit: the number may be empty. *)
EraseAnyDigit ==
    /\ pc = "key"
    /\ num' = [digits |-> num.digits - 1, value |-> num.value \div 10]
    /\ UNCHANGED <<pc, posts, sizeVars, pageVars, textVars, turn, still, own>>

EraseDigit ==
    /\ pc = "key" /\ num.digits > 0
    /\ num' = [digits |-> num.digits - 1, value |-> num.value \div 10]
    /\ UNCHANGED <<pc, posts, sizeVars, pageVars, textVars, turn, still, own>>

-----------------------------------------------------------------------------
(* viewThread: what a key does.  Then the loop begins again. *)

Turn(t, p, s) ==
    /\ pc = "key" /\ pc' = "load"
    /\ turn' = t /\ pos' = p /\ sub' = s
    /\ UNCHANGED <<posts, sizeVars, jumpLast, shown, num, textVars, still, own>>

(* A letter, or Enter, when no number is begun. *)
Key == num.digits = 0

Pages == postPages(shown.len, shown.budget)

NextKey ==
    /\ Key
    /\ \/ sub < Pages - 1 /\ Turn("next", pos, sub + 1)
       \/ sub >= Pages - 1 /\ pos < shown.n - 1 /\ Turn("next", pos + 1, 0)
       \/ sub >= Pages - 1 /\ pos >= shown.n - 1 /\ Turn("next", pos, sub)

PrevKey ==
    /\ Key
    /\ \/ sub > 0 /\ Turn("prev", pos, sub - 1)
       \/ sub = 0 /\ pos > 0
          /\ Turn("prev", pos - 1, LastPage(pos - 1, width, shown.budget))
       \/ sub = 0 /\ pos = 0 /\ Turn("prev", pos, sub)

TopKey == Key /\ Turn("top", 0, 0)

BottomKey ==
    Key /\ Turn("bottom", shown.n - 1, LastPage(shown.n - 1, width, shown.budget))

EnterNumber ==
    /\ num.digits > 0
    /\ \/ num.value \in 1..shown.n /\ Turn("jump", num.value - 1, 0)
       \/ num.value \notin 1..shown.n /\ Turn("other", pos, sub)

OtherKey == Key /\ Turn("other", pos, sub)

QuitKey ==
    /\ pc = "key" /\ Key /\ pc' = "out"
    /\ UNCHANGED <<posts, sizeVars, pageVars, num, textVars, turn, still, own>>

ReplyKey ==
    /\ pc = "key" /\ Key /\ Len(posts) < MaxPosts
    /\ pc' = "text"
    /\ UNCHANGED <<posts, sizeVars, pageVars, num, textVars, turn, still, own>>

-----------------------------------------------------------------------------
(* readText and readLine.  A space is typed after a letter only.           *)

EndsInSpace == buf # << >> /\ buf[Len(buf)] = 0

Trimmed == IF EndsInSpace THEN SubSeq(buf, 1, Len(buf) - 1) ELSE buf

Edit(b) ==
    /\ pc = "text" /\ buf' = b
    /\ UNCHANGED <<pc, posts, sizeVars, pageVars, num, lines, typed, turn, still, own>>

Room == totalLen(Append(lines, buf)) < maxMessageChars + MaxExcess

TypeLetter ==
    Room /\ Edit(IF buf = << >> THEN <<1>> ELSE [buf EXCEPT ![Len(buf)] = @ + 1])

TypeSpace == Room /\ buf # << >> /\ ~EndsInSpace /\ Edit(Append(buf, 0))

Erase ==
    /\ buf # << >>
    /\ Edit(IF buf[Len(buf)] = 0 \/ buf = <<1>> THEN SubSeq(buf, 1, Len(buf) - 1)
            ELSE [buf EXCEPT ![Len(buf)] = @ - 1])

KillLine == buf # << >> /\ Edit(<< >>)

(* A line is entered; with it the text may be too long, and then ends.     *)
EnterLine ==
    LET all == Append(lines, Trimmed)
    IN  /\ pc = "text"
        /\ typed' = all /\ buf' = << >>
        /\ \/ /\ totalLen(all) <= maxMessageChars
              /\ lines' = all /\ UNCHANGED pc
           \/ /\ totalLen(all) > maxMessageChars
              /\ lines' = truncateLines(all, maxMessageChars) /\ pc' = "post"
        /\ UNCHANGED <<posts, sizeVars, pageVars, num, turn, still, own>>

(* The line is one character, and that is a dot. *)
EnterDot ==
    /\ pc = "text" /\ Trimmed = <<1>>
    /\ pc' = "post" /\ buf' = << >>
    /\ UNCHANGED <<posts, sizeVars, pageVars, num, lines, typed, turn, still, own>>

-----------------------------------------------------------------------------
(* reply.  Whenever it returns nil viewThread goes to the last post.       *)

(* Mutant of Replied: the place in the thread stays. *)
RepliedHere ==
    /\ pc' = "load" /\ turn' = "reply"
    /\ lines' = << >> /\ buf' = << >> /\ typed' = << >>
    /\ UNCHANGED <<sizeVars, pageVars, num, still>>

Replied ==
    /\ pc' = "load" /\ turn' = "reply" /\ jumpLast' = TRUE
    /\ lines' = << >> /\ buf' = << >> /\ typed' = << >>
    /\ UNCHANGED <<sizeVars, pos, sub, shown, num, still>>

(* Ctrl-C. *)
AbandonReply == pc = "text" /\ Replied /\ UNCHANGED <<posts, own>>

(* The text is empty, or CreatePost fails. *)
NoReply == pc = "post" /\ Replied /\ UNCHANGED <<posts, own>>

PostReply ==
    /\ pc = "post" /\ ~IsEmpty(lines)
    /\ posts' = Append(posts, lines) /\ own' = Len(posts) + 1
    /\ Replied

(* The link ends, or the user ends the session: Ctrl-C or Ctrl-D at a key, *)
(* Ctrl-D on an empty line.                                                *)
InputFails ==
    /\ pc \in {"key", "text"}
    /\ pc' = "out"
    /\ lines' = << >> /\ buf' = << >> /\ typed' = << >>
    /\ UNCHANGED <<posts, sizeVars, pageVars, num, turn, still, own>>

-----------------------------------------------------------------------------
(* The others: the read loop's applyDims, one dimension at a time, and     *)
(* CreatePost in other sessions.                                           *)

ResizeWidth(w) ==
    /\ w # width /\ width' = w /\ still' = FALSE
    /\ UNCHANGED <<pc, posts, height, pageVars, num, textVars, turn, own>>

ResizeHeight(h) ==
    /\ h # height /\ height' = h /\ still' = FALSE
    /\ UNCHANGED <<pc, posts, width, pageVars, num, textVars, turn, own>>

OthersPost(t) ==
    /\ Len(posts) < MaxPosts
    /\ posts' = Append(posts, t)
    /\ UNCHANGED <<pc, sizeVars, pageVars, num, textVars, turn, still, own>>

Resize == \/ \E w \in Widths : ResizeWidth(w)
          \/ \E h \in Heights : ResizeHeight(h)

Dispatch == NextKey \/ PrevKey \/ TopKey \/ BottomKey \/ EnterNumber \/ OtherKey

Editing == TypeLetter \/ TypeSpace \/ Erase \/ KillLine

Next ==
    \/ Open \/ Load \/ LoadFails
    \/ \E d \in Digits : TypeDigit(d)
    \/ EraseDigit
    \/ Dispatch \/ QuitKey \/ ReplyKey
    \/ Editing \/ EnterLine \/ EnterDot
    \/ AbandonReply \/ NoReply \/ PostReply \/ InputFails
    \/ Resize
    \/ \E t \in OtherPosts : OthersPost(t)

Spec == Init /\ [][Next]_vars

-----------------------------------------------------------------------------
(* Properties.                                                             *)

(* Every variable has its type. *)
TypeOK ==
    /\ pc \in PC
    /\ posts \in Seq(Message) /\ posts # << >>
    /\ width \in Widths /\ height \in Heights
    /\ pos \in Nat /\ sub \in Nat /\ jumpLast \in BOOLEAN
    /\ shown \in Page
    /\ num \in [digits : 0..MaxDigits, value : Nat]
    /\ lines \in Message /\ buf \in Line /\ typed \in Message
    /\ turn \in Turns /\ still \in BOOLEAN
    /\ own \in Nat

(* Whatever jumps, replies and changes of size came before, the page that  *)
(* waits for a key is of a post that exists, has no more lines than the    *)
(* screen was made for, and is blank only when the post has no lines       *)
(* (view_thread.go:148-163, postBlock).                                    *)
NoBlankPage ==
    pc = "key" =>
        /\ shown.post < shown.n /\ shown.n <= Len(posts)
        /\ shown.to <= shown.len
        /\ shown.to < shown.from + shown.budget
        /\ shown.len > 0 => shown.from <= shown.to

(* Reading a thread in a window that keeps its size loses no line and      *)
(* repeats none: the next page begins where the present one ends, on to    *)
(* the first page of the next post; the previous page ends where the       *)
(* present one begins, back to the last page of the post before.  The      *)
(* other keys lead where they say, among the posts as they were painted.   *)
FirstPage == shown'.from = 1
FinalPage == shown'.to = shown'.len
SamePage  == shown'.post = shown.post /\ shown'.from = shown.from

TurnsNext ==
    \/ shown.to < shown.len /\ shown'.post = shown.post /\ shown'.from = shown.to + 1
    \/ shown.to = shown.len /\ shown.post < shown.n - 1
       /\ shown'.post = shown.post + 1 /\ FirstPage
    \/ shown.to = shown.len /\ shown.post = shown.n - 1 /\ SamePage

TurnsPrev ==
    \/ shown.from > 1 /\ shown'.post = shown.post /\ shown'.to = shown.from - 1
    \/ shown.from = 1 /\ shown.post > 0
       /\ shown'.post = shown.post - 1 /\ FinalPage
    \/ shown.from = 1 /\ shown.post = 0 /\ SamePage

PagesTurn ==
    [][ pc = "load" /\ pc' = "key" =>
        /\ turn = "next" /\ still => TurnsNext
        /\ turn = "prev" /\ still => TurnsPrev
        /\ turn = "bottom" /\ still => shown'.post = shown.n - 1 /\ FinalPage
        /\ turn = "jump" => shown'.post = num.value - 1 /\ FirstPage
        /\ turn \in {"open", "top"} => shown'.post = 0 /\ FirstPage ]_vars

(* After a reply its author sees the first page of the reply, or of a      *)
(* later one when others were quicker than the screen (view_thread.go:     *)
(* 225-229).                                                               *)
ReplyShown ==
    [][ pc = "load" /\ pc' = "key" /\ own # 0 =>
        shown'.post >= own - 1 /\ FirstPage ]_vars

(* No text that readText returns or goes on collecting exceeds the limit   *)
(* (session.go:384-388).                                                   *)
TextFits == totalLen(lines) <= maxMessageChars

(* A text loses nothing that was entered but its last line, and that only  *)
(* when it is too long with it (session.go:402-412).                       *)
OnlyLastLost ==
    \/ lines = typed
    \/ /\ pc = "post" /\ typed # << >>
       /\ lines = SubSeq(typed, 1, Len(typed) - 1)
       /\ totalLen(typed) > maxMessageChars

(* A paragraph of the post on the screen whose words are no wider than the *)
(* screen gives it is wrapped without loss: each word is on one line of    *)
(* the output and on no other, no line is too wide, and none has room for  *)
(* the word after it (ansi.go:142-174).  Of wider words, which Wrap does   *)
(* not split, it says nothing.                                             *)
LinesFit ==
    LET t == posts[shown.post + 1]
        w == contentWidth(width) - 4
        Holds(p, i, k) == p[1] = i /\ p[2] # 0 /\ k \in Taken(t[i], w, p[2])
    IN  \A i \in DOMAIN t : (\A k \in DOMAIN t[i] : t[i][k] <= w) =>
            /\ \A k \in DOMAIN t[i] :
                   \E p \in Wrapped(t, w) :
                       /\ Holds(p, i, k)
                       /\ \A q \in Wrapped(t, w) : Holds(q, i, k) => q = p
            /\ \A p \in Wrapped(t, w) : p[1] = i /\ p[2] # 0 =>
                   \A k \in p[2]..Len(t[i]) :
                       Holds(p, i, k) <=> LineLen(SubSeq(t[i], p[2], k)) <= w

=============================================================================
