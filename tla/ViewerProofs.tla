---------------------------- MODULE ViewerProofs ----------------------------
(***************************************************************************)
(* Proofs about Viewer, for any threads, messages, windows and limits.     *)
(*                                                                         *)
(* Page s of a body begins at line s * budget and is not empty while s is  *)
(* below postPages.  The invariant keeps, with the page on the screen,     *)
(* which page and post the last key has asked for, and that what was       *)
(* loaded is current while the window keeps its size; and, with the text,  *)
(* that the lines are those entered until a line is one too many.  What    *)
(* wrapping and cutting do to a text is TextProofs.                        *)
(***************************************************************************)
EXTENDS Viewer, TextProofs

-----------------------------------------------------------------------------
(* Pages. *)

(* Multiplication by a page's lines, as far as pages need it. *)
LEMMA Product ==
  ASSUME NEW b \in Nat \ {0}, NEW s \in Nat, NEW u \in Nat
  PROVE  /\ s * b \in Nat
         /\ (s + 1) * b = s * b + b
         /\ s <= u => s * b <= u * b
<1>1. s * b \in Nat /\ (s + 1) * b = s * b + b
  OBVIOUS
<1>2. ASSUME s <= u PROVE s * b <= u * b
  <2>1. PICK d \in Nat : u = s + d
    <3>1. u - s \in Nat /\ u = s + (u - s)
      BY <1>2
    <3> QED BY <3>1
  <2>2. u * b = s * b + d * b /\ d * b \in Nat
    BY <2>1
  <2> QED BY <1>1, <2>2
<1> QED BY <1>1, <1>2

(* A body of len lines has just as many pages of b lines as it needs. *)
LEMMA PagesNeeded ==
  ASSUME NEW b \in Nat \ {0}, NEW len \in Nat
  PROVE  \E q \in Nat \ {0} :
         /\ q = postPages(len, b)
         /\ len = 0 => q = 1
         /\ len > 0 => (q - 1) * b < len
         /\ len <= q * b
<1>0. PICK q : q = postPages(len, b)
  OBVIOUS
<1>1. CASE len = 0
  <2>1. q = 1
    BY <1>0, <1>1 DEF postPages
  <2>2. q * b = b
    BY <2>1
  <2> QED BY <1>0, <1>1, <2>1, <2>2
<1>2. CASE len > 0
  <2>1. q = (len + b - 1) \div b
    BY <1>0, <1>2 DEF postPages
  <2>2. PICK a \in Nat : a = len + b - 1
    BY <1>2
  <2>3. a \div b \in Nat /\ (a \div b) * b <= a /\ a < (a \div b) * b + b
    <3>1. a = b * (a \div b) + (a % b)
      OBVIOUS
    <3>2. a % b \in 0..(b - 1)
      OBVIOUS
    <3>3. a \div b \in Nat
      OBVIOUS
    <3>4. b * (a \div b) = (a \div b) * b /\ (a \div b) * b \in Nat
      BY <3>3
    <3> QED BY <3>1, <3>2, <3>3, <3>4
  <2>4. q \in Nat /\ q * b <= len + b - 1 /\ len + b - 1 < q * b + b
    BY <2>1, <2>2, <2>3
  <2>5. q # 0
    <3> SUFFICES ASSUME q = 0 PROVE FALSE
      OBVIOUS
    <3>1. q * b = 0
      OBVIOUS
    <3> QED BY <1>2, <2>4, <3>1
  <2>6. PICK r \in Nat : q = r + 1
    <3>1. q - 1 \in Nat /\ q = (q - 1) + 1
      BY <2>4, <2>5
    <3> QED BY <3>1
  <2>7. q * b = r * b + b /\ r * b \in Nat
    BY <2>6, Product
  <2>8. q - 1 = r
    BY <2>6
  <2>9. r * b < len /\ len <= q * b
    BY <2>4, <2>7
  <2> QED BY <1>0, <1>2, <2>4, <2>5, <2>8, <2>9
<1> QED BY <1>1, <1>2

(* Page s of such a body: where it begins, whether it is the last one, and *)
(* that the page after it begins where it ends.                            *)
LEMMA PageOfBody ==
  ASSUME NEW b \in Nat \ {0}, NEW len \in Nat,
         NEW s \in Nat, s < postPages(len, b)
  PROVE  /\ s * b \in Nat /\ s * b <= len
         /\ len > 0 => s * b < len
         /\ s < postPages(len, b) - 1 => s * b + b < len
         /\ s = postPages(len, b) - 1 => len <= s * b + b
         /\ (s + 1) * b = s * b + b
<1>1. PICK q \in Nat \ {0} : /\ q = postPages(len, b)
                             /\ len = 0 => q = 1
                             /\ len > 0 => (q - 1) * b < len
                             /\ len <= q * b
  BY PagesNeeded
<1>2. PICK r \in Nat : r = q - 1 /\ q = r + 1
  BY <1>1
<1>3. /\ s * b \in Nat /\ r * b \in Nat
      /\ (s + 1) * b = s * b + b
      /\ s <= r => s * b <= r * b
      /\ q * b = r * b + b
  <2>1. s * b \in Nat /\ (s + 1) * b = s * b + b /\ (s <= r => s * b <= r * b)
    BY <1>2, Product
  <2>2. r * b \in Nat /\ (r + 1) * b = r * b + b
    BY <1>2, Product
  <2> QED BY <1>2, <2>1, <2>2
<1>4. s <= r
  BY <1>1, <1>2
<1>5. s * b <= r * b
  BY <1>3, <1>4
<1>6. len > 0 => r * b < len
  BY <1>1, <1>2
<1>7. len = 0 => s * b = 0
  <2> SUFFICES ASSUME len = 0 PROVE s * b = 0
    OBVIOUS
  <2>1. s = 0
    BY <1>1
  <2> QED BY <2>1
<1>8. len > 0 => s * b < len
  BY <1>3, <1>5, <1>6
<1>9. s < r => s * b + b < len
  <2> SUFFICES ASSUME s < r PROVE s * b + b < len
    OBVIOUS
  <2>1. PICK u \in Nat : u = s + 1 /\ u <= r
    OBVIOUS
  <2>2. u * b <= r * b /\ u * b = s * b + b
    BY <1>2, <1>3, <2>1, Product
  <2>3. len > 0
    BY <1>1, <1>2
  <2> QED BY <1>3, <1>6, <2>2, <2>3
<1>10. s = r => len <= s * b + b
  BY <1>1, <1>3
<1> QED BY <1>1, <1>2, <1>3, <1>7, <1>8, <1>9, <1>10

-----------------------------------------------------------------------------
(* The invariant. *)

(* The page on the screen is page s of the post as it was loaded. *)
ShownPage(s) ==
    /\ shown.post < shown.n /\ shown.n <= Len(posts)
    /\ shown.budget # 0
    /\ s < Pages
    /\ shown.from = s * shown.budget + 1
    /\ shown.to = Clamped(s * shown.budget + shown.budget, shown.len)

(* Loaded again in the same window the post would be the same pages. *)
Current ==
    still => /\ shown.len = BodyLines(shown.post, width)
             /\ shown.budget = viewBudget(contentHeight(height))

Waiting == pc = "key" => pos = shown.post /\ ShownPage(sub) /\ Current /\ ~jumpLast

(* From page s the last key asked for the page at pos and sub. *)
AskedNext(s) ==
    \/ s < Pages - 1 /\ pos = shown.post /\ sub = s + 1
    \/ s >= Pages - 1 /\ shown.post < shown.n - 1 /\ pos = shown.post + 1 /\ sub = 0
    \/ s >= Pages - 1 /\ shown.post >= shown.n - 1 /\ pos = shown.post /\ sub = s

AskedPrev(s) ==
    \/ s > 0 /\ pos = shown.post /\ sub = s - 1
    \/ /\ s = 0 /\ shown.post > 0 /\ pos = shown.post - 1
       /\ still => sub = LastPage(pos, width, shown.budget)
    \/ s = 0 /\ shown.post = 0 /\ pos = 0 /\ sub = 0

AskedBottom ==
    pos = shown.n - 1 /\ (still => sub = LastPage(pos, width, shown.budget))

Asked(s) ==
    /\ turn = "next" => AskedNext(s)
    /\ turn = "prev" => AskedPrev(s)
    /\ turn = "bottom" => AskedBottom

Loading ==
    pc = "load" =>
        /\ turn # "reply" => ~jumpLast
        /\ turn \in {"open", "top"} => pos = 0 /\ sub = 0
        /\ turn = "jump" => pos = num.value - 1 /\ sub = 0 /\ pos < Len(posts)
        /\ turn \in {"next", "prev", "bottom"} =>
               Current /\ \E s \in Nat : ShownPage(s) /\ Asked(s)

Replying == own # 0 => pc = "load" /\ jumpLast /\ own <= Len(posts)

IInv == TypeOK /\ Waiting /\ Loading /\ Replying

-----------------------------------------------------------------------------
(* What the code's expressions are. *)

LEMMA BodyType ==
  ASSUME TypeOK, NEW p \in Nat, p < Len(posts), NEW w
  PROVE  BodyLines(p, w) \in Nat
<1>1. posts \in Seq(Message)
  BY DEF TypeOK
<1>2. p + 1 \in 1..Len(posts)
  BY <1>1
<1>3. posts[p + 1] \in Message
  BY <1>1, <1>2
<1> QED BY <1>3, LinesType DEF BodyLines

LEMMA LastPageType ==
  ASSUME TypeOK, NEW p \in Nat, p < Len(posts), NEW w, NEW b \in Nat \ {0}
  PROVE  /\ LastPage(p, w, b) \in Nat
         /\ LastPage(p, w, b) + 1 = postPages(BodyLines(p, w), b)
<1>1. PICK len \in Nat : len = BodyLines(p, w)
  BY BodyType
<1>2. PICK q \in Nat \ {0} : q = postPages(len, b)
  BY PagesNeeded
<1> QED BY <1>1, <1>2 DEF LastPage

(* What is shown has a page number of type Nat. *)
LEMMA PagesType ==
  ASSUME TypeOK, shown.budget # 0
  PROVE  /\ shown.budget \in Nat \ {0} /\ shown.len \in Nat
         /\ Pages \in Nat \ {0}
<1>1. shown.budget \in Nat \ {0} /\ shown.len \in Nat
  BY DEF TypeOK, Page
<1>2. PICK b \in Nat \ {0}, len \in Nat : b = shown.budget /\ len = shown.len
  BY <1>1
<1>3. PICK q \in Nat \ {0} : q = postPages(len, b)
  BY PagesNeeded
<1> QED BY <1>1, <1>2, <1>3 DEF Pages

LEMMA NoPostsLost == TypeOK => Len(posts) \in Nat \ {0}
  BY EmptySeq, SMT DEF TypeOK

(* A loaded page: it is a page of the post it belongs to, and the clamps   *)
(* change no position that exists.                                         *)
Painting(p, s, len, b) ==
    /\ p < Len(posts) /\ len = BodyLines(p, width)
    /\ b = viewBudget(contentHeight(height))
    /\ s < postPages(len, b)
    /\ pos' = p /\ sub' = s /\ jumpLast' = FALSE
    /\ shown' = [post |-> p, n |-> Len(posts), len |-> len, budget |-> b,
                 from |-> s * b + 1, to |-> Clamped(s * b + b, len)]
    /\ jumpLast => p = Len(posts) - 1 /\ s = 0
    /\ ~jumpLast => /\ pos < Len(posts) => p = pos
                    /\ s = Clamped(sub, postPages(len, b) - 1)

LEMMA LoadPaints ==
  ASSUME TypeOK, Load
  PROVE  \E p \in Nat, s \in Nat, len \in Nat, b \in Nat \ {0} :
             Painting(p, s, len, b)
<1>1. PICK n \in Nat \ {0} : n = Len(posts)
  BY NoPostsLost
<1>2. pos \in Nat /\ sub \in Nat /\ jumpLast \in BOOLEAN /\ height \in Nat
  BY ViewerAssumption DEF TypeOK
<1>3. PICK p \in Nat : p = IF jumpLast THEN n - 1 ELSE Clamped(pos, n - 1)
  BY <1>2 DEF Clamped
<1>4. p < n /\ (jumpLast => p = n - 1) /\ (~jumpLast /\ pos < n => p = pos)
  BY <1>2, <1>3 DEF Clamped
<1>5. PICK b \in Nat \ {0} : b = viewBudget(contentHeight(height))
  BY <1>2 DEF viewBudget, contentHeight, viewThreadFrame
<1>6. PICK len \in Nat : len = BodyLines(p, width)
  BY <1>1, <1>4, BodyType
<1>7. PICK q \in Nat \ {0} : q = postPages(len, b)
  BY PagesNeeded
<1>8. PICK s \in Nat : s = Clamped(IF jumpLast THEN 0 ELSE sub, q - 1)
  BY <1>2 DEF Clamped
<1>9. s < q /\ (jumpLast => s = 0) /\ (~jumpLast => s = Clamped(sub, q - 1))
  BY <1>2, <1>8 DEF Clamped
<1>10. s * b \in Nat /\ s * b <= len
  BY <1>7, <1>9, PageOfBody
<1>11. Clamped(s * b, len) = s * b
  BY <1>10 DEF Clamped
<1>12. pos' = p /\ sub' = s /\ jumpLast' = FALSE /\ shown' = PageOf(p, s, len, b)
  BY <1>1, <1>3, <1>5, <1>6, <1>7, <1>8 DEF Load
<1>13. shown' = [post |-> p, n |-> Len(posts), len |-> len, budget |-> b,
                 from |-> s * b + 1, to |-> Clamped(s * b + b, len)]
  BY <1>11, <1>12 DEF PageOf
<1>14. Painting(p, s, len, b)
  BY <1>1, <1>4, <1>5, <1>6, <1>7, <1>9, <1>12, <1>13 DEF Painting
<1> QED BY <1>14

-----------------------------------------------------------------------------
(* Types. *)

LEMMA EditTypes ==
  ASSUME TypeOK, NEW b \in Line, Edit(b)
  PROVE  TypeOK'
  BY DEF TypeOK, Edit, pageVars, sizeVars, Message, Line, Page, PC, Turns

LEMMA TurnTypes ==
  ASSUME TypeOK, NEW t \in Turns, NEW p \in Nat, NEW s \in Nat, Turn(t, p, s)
  PROVE  TypeOK'
  BY DEF TypeOK, Turn, textVars, sizeVars, Message, Line, Page, PC, Turns

LEMMA TurnNames ==
  {"next", "prev", "top", "bottom", "jump", "other"} \subseteq Turns
  BY DEF Turns

LEMMA DispatchTypes ==
  ASSUME TypeOK, Waiting, Dispatch, pc = "key"
  PROVE  TypeOK'
<1>0. /\ pos = shown.post /\ shown.post < shown.n /\ shown.n <= Len(posts)
      /\ shown.budget # 0
  BY DEF Waiting, ShownPage
<1>1. /\ pos \in Nat /\ sub \in Nat /\ shown.n \in Nat /\ shown.post \in Nat
      /\ Len(posts) \in Nat /\ num.value \in Nat
  BY NoPostsLost DEF TypeOK, Page
<1>2. shown.budget \in Nat \ {0} /\ Pages \in Nat \ {0}
  BY <1>0, PagesType
<1>3. PICK b \in Nat \ {0} : b = shown.budget
  BY <1>2
<1>4. CASE NextKey
  <2>1. pos + 1 \in Nat /\ sub + 1 \in Nat /\ 0 \in Nat /\ "next" \in Turns
    BY <1>1, TurnNames
  <2> QED BY <1>1, <1>4, <2>1, TurnTypes DEF NextKey
<1>5. CASE PrevKey
  <2>0. "prev" \in Turns
    BY TurnNames
  <2>1. CASE sub > 0 /\ Turn("prev", pos, sub - 1)
    <3>1. PICK s \in Nat : s = sub - 1
      BY <1>1, <2>1
    <3> QED BY <1>1, <2>0, <2>1, <3>1, TurnTypes
  <2>2. CASE sub = 0 /\ pos > 0
             /\ Turn("prev", pos - 1, LastPage(pos - 1, width, shown.budget))
    <3>1. PICK p \in Nat : p = pos - 1 /\ p < Len(posts)
      BY <1>0, <1>1, <2>2
    <3>2. LastPage(p, width, b) \in Nat
      BY <3>1, LastPageType
    <3>3. PICK s \in Nat : s = LastPage(pos - 1, width, shown.budget)
      BY <1>3, <3>1, <3>2
    <3> QED BY <2>0, <2>2, <3>1, <3>3, TurnTypes
  <2>3. CASE sub = 0 /\ pos = 0 /\ Turn("prev", pos, sub)
    BY <1>1, <2>0, <2>3, TurnTypes
  <2> QED BY <1>5, <2>1, <2>2, <2>3 DEF PrevKey
<1>6. CASE TopKey
  <2>1. PICK z \in Nat : z = 0
    OBVIOUS
  <2>2. Turn("top", z, z) /\ "top" \in Turns
    BY <1>6, <2>1, TurnNames DEF TopKey
  <2> QED BY <2>1, <2>2, TurnTypes
<1>7. CASE BottomKey
  <2>1. PICK p \in Nat : p = shown.n - 1 /\ p < Len(posts)
    BY <1>0, <1>1
  <2>2. LastPage(p, width, b) \in Nat
    BY <1>3, <2>1, LastPageType
  <2>3. PICK s \in Nat : s = LastPage(shown.n - 1, width, shown.budget)
    BY <1>3, <2>1, <2>2
  <2>4. Turn("bottom", p, s) /\ "bottom" \in Turns
    BY <1>7, <2>1, <2>3, TurnNames DEF BottomKey
  <2> QED BY <2>1, <2>3, <2>4, TurnTypes
<1>8. CASE EnterNumber
  <2>1. CASE num.value \in 1..shown.n /\ Turn("jump", num.value - 1, 0)
    <3>1. PICK p \in Nat, z \in Nat : p = num.value - 1 /\ z = 0
      BY <1>1, <2>1
    <3>2. Turn("jump", p, z) /\ "jump" \in Turns
      BY <2>1, <3>1, TurnNames
    <3> QED BY <3>1, <3>2, TurnTypes
  <2>2. CASE Turn("other", pos, sub)
    BY <1>1, <2>2, TurnNames, TurnTypes
  <2> QED BY <1>8, <2>1, <2>2 DEF EnterNumber
<1>9. CASE OtherKey
  BY <1>1, <1>9, TurnNames, TurnTypes DEF OtherKey
<1> QED BY <1>4, <1>5, <1>6, <1>7, <1>8, <1>9 DEF Dispatch

(* Editing keeps a line a line. *)
LEMMA EditingTypes ==
  ASSUME TypeOK, Editing
  PROVE  TypeOK'
<1>0. buf \in Seq(Nat) /\ Line = Seq(Nat)
  BY DEF TypeOK, Line
<1>1. CASE TypeLetter
  <2>1. PICK b : b = (IF buf = << >> THEN <<1>> ELSE [buf EXCEPT ![Len(buf)] = @ + 1])
    OBVIOUS
  <2>2. CASE buf = << >>
    <3>1. b = <<1>>
      BY <2>1, <2>2
    <3>2. <<1>> \in Seq(Nat)
      OBVIOUS
    <3>3. b \in Line
      BY <1>0, <3>1, <3>2
    <3>4. Edit(b)
      BY <1>1, <2>1 DEF TypeLetter
    <3> QED BY <3>3, <3>4, EditTypes
  <2>3. CASE buf # << >>
    <3>1. Len(buf) \in DOMAIN buf
      BY <1>0, <2>3, EmptySeq
    <3>2. buf[Len(buf)] + 1 \in Nat
      BY <1>0, <3>1
    <3>3. [buf EXCEPT ![Len(buf)] = @ + 1] \in Seq(Nat)
      BY <1>0, <3>1, <3>2, ExceptSeq
    <3>4. b \in Line
      BY <1>0, <2>1, <2>3, <3>3
    <3>5. Edit(b)
      BY <1>1, <2>1 DEF TypeLetter
    <3> QED BY <3>4, <3>5, EditTypes
  <2> QED BY <2>2, <2>3
<1>2. CASE TypeSpace
  <2>1. Append(buf, 0) \in Line
    BY <1>0, Zenon, AppendProperties
  <2>2. PICK b \in Line : b = Append(buf, 0)
    BY <2>1
  <2>3. Edit(b)
    BY <1>2, <2>2 DEF TypeSpace
  <2> QED BY <2>2, <2>3, EditTypes
<1>3. CASE Erase
  <2>1. Len(buf) \in DOMAIN buf
    BY <1>0, <1>3, EmptySeq DEF Erase
  <2>2. PICK b : b = (IF buf[Len(buf)] = 0 \/ buf = <<1>> THEN SubSeq(buf, 1, Len(buf) - 1)
                      ELSE [buf EXCEPT ![Len(buf)] = @ - 1])
    OBVIOUS
  <2>3. SubSeq(buf, 1, Len(buf) - 1) \in Seq(Nat)
    BY <1>0, <2>1
  <2>4. ASSUME buf[Len(buf)] # 0 PROVE [buf EXCEPT ![Len(buf)] = @ - 1] \in Seq(Nat)
    <3>1. buf[Len(buf)] - 1 \in Nat
      BY <1>0, <2>1, <2>4
    <3> QED BY <1>0, <2>1, <3>1, ExceptSeq
  <2>5. b \in Line
    BY <1>0, <2>2, <2>3, <2>4
  <2>6. Edit(b)
    BY <1>3, <2>2 DEF Erase
  <2> QED BY <2>5, <2>6, EditTypes
<1>4. CASE KillLine
  <2>1. << >> \in Line
    BY <1>0, EmptySeq
  <2>2. PICK b \in Line : b = << >>
    BY <2>1
  <2>3. Edit(b)
    BY <1>4, <2>2 DEF KillLine
  <2> QED BY <2>2, <2>3, EditTypes
<1> QED BY <1>1, <1>2, <1>3, <1>4 DEF Editing

LEMMA StepTypes == TypeOK /\ Waiting /\ [Next]_vars => TypeOK'
<1> SUFFICES ASSUME TypeOK, Waiting, [Next]_vars PROVE TypeOK'
  OBVIOUS
<1>0. posts \in Seq(Message) /\ lines \in Seq(Line) /\ buf \in Line /\ Message = Seq(Line)
  BY DEF TypeOK, Message
<1>1. CASE Open
  BY <1>1 DEF TypeOK, Open, textVars, sizeVars, PC, Turns
<1>2. CASE Load
  <2>1. PICK p \in Nat, s \in Nat, len \in Nat, b \in Nat \ {0} : Painting(p, s, len, b)
    BY <1>2, LoadPaints
  <2>2. pos' \in Nat /\ sub' \in Nat /\ jumpLast' \in BOOLEAN
    BY <2>1 DEF Painting
  <2>3. shown' \in Page
    <3>1. Len(posts) \in Nat
      BY NoPostsLost
    <3>2. s * b \in Nat
      OBVIOUS
    <3>3. PICK x \in Nat : x = s * b
      BY <3>2
    <3>4. Clamped(x + b, len) \in Nat
      BY DEF Clamped
    <3>5. shown' = [post |-> p, n |-> Len(posts), len |-> len, budget |-> b,
                    from |-> x + 1, to |-> Clamped(x + b, len)]
      BY <2>1, <3>3 DEF Painting
    <3>6. x + 1 \in Nat
      OBVIOUS
    <3> QED BY <3>1, <3>4, <3>5, <3>6 DEF Page
  <2>4. num' \in [digits : 0..MaxDigits, value : Nat]
    BY <1>2, ViewerAssumption DEF Load, NoNumber
  <2>5. pc' = "key" /\ turn' = "none" /\ still' = TRUE /\ own' = 0
        /\ UNCHANGED <<posts, width, height, lines, buf, typed>>
    BY <1>2 DEF Load, sizeVars, textVars
  <2> QED BY <2>2, <2>3, <2>4, <2>5 DEF TypeOK, PC, Turns
<1>3. CASE LoadFails
  BY <1>3 DEF TypeOK, LoadFails, textVars, sizeVars, pageVars, PC
<1>4. ASSUME NEW d \in Digits, TypeDigit(d) PROVE TypeOK'
  <2>1. d \in Nat /\ num.digits \in 0..MaxDigits /\ num.value \in Nat /\ MaxDigits \in Nat
    BY ViewerAssumption DEF TypeOK
  <2>2. num' \in [digits : 0..MaxDigits, value : Nat]
    BY <1>4, <2>1 DEF TypeDigit
  <2> QED BY <1>4, <2>2 DEF TypeOK, TypeDigit, textVars, sizeVars, pageVars
<1>5. CASE EraseDigit
  <2>1. num.digits \in 0..MaxDigits /\ num.value \in Nat /\ MaxDigits \in Nat
    BY ViewerAssumption DEF TypeOK
  <2>2. num.value \div 10 \in Nat
    BY <2>1
  <2>3. num.digits - 1 \in 0..MaxDigits
    BY <1>5, <2>1 DEF EraseDigit
  <2>4. num' \in [digits : 0..MaxDigits, value : Nat]
    BY <1>5, <2>2, <2>3 DEF EraseDigit
  <2> QED BY <1>5, <2>4 DEF TypeOK, EraseDigit, textVars, sizeVars, pageVars
<1>6. CASE Dispatch
  <2>1. pc = "key"
    BY <1>6 DEF Dispatch, NextKey, PrevKey, TopKey, BottomKey, EnterNumber, OtherKey, Turn
  <2> QED BY <1>6, <2>1, DispatchTypes
<1>7. CASE QuitKey
  BY <1>7 DEF TypeOK, QuitKey, textVars, sizeVars, pageVars, PC
<1>8. CASE ReplyKey
  BY <1>8 DEF TypeOK, ReplyKey, textVars, sizeVars, pageVars, PC
<1>9. CASE Editing
  BY <1>9, EditingTypes
<1>10. CASE EnterLine
  <2>1. Trimmed \in Line
    <3>1. buf \in Seq(Nat)
      BY <1>0 DEF Line
    <3>2. CASE EndsInSpace
      <4>1. Len(buf) \in Nat \ {0}
        BY <3>1, <3>2, EmptySeq DEF EndsInSpace
      <4>2. SubSeq(buf, 1, Len(buf) - 1) \in Seq(Nat)
        BY <3>1, <4>1
      <4> QED BY <3>2, <4>2 DEF Trimmed, Line
    <3>3. CASE ~EndsInSpace
      BY <1>0, <3>3 DEF Trimmed
    <3> QED BY <3>2, <3>3
  <2>2. PICK all \in Message : all = Append(lines, Trimmed)
    <3>1. Append(lines, Trimmed) \in Seq(Line)
      BY <1>0, <2>1, AppendProperties
    <3> QED BY <1>0, <3>1
  <2>3. PICK cut \in Message : cut = truncateLines(all, maxMessageChars)
    BY TruncateType, ViewerAssumption
  <2>4. << >> \in Line
    BY EmptySeq DEF Line
  <2>5. typed' = all /\ buf' = << >> /\ (lines' = all \/ lines' = cut)
        /\ (pc' = pc \/ pc' = "post")
        /\ UNCHANGED <<posts, width, height, pos, sub, jumpLast, shown, num, turn, still, own>>
    BY <1>10, <2>2, <2>3 DEF EnterLine, sizeVars, pageVars
  <2> QED BY <2>4, <2>5 DEF TypeOK, PC
<1>11. CASE EnterDot
  <2>1. << >> \in Line
    BY EmptySeq DEF Line
  <2> QED BY <1>11, <2>1 DEF TypeOK, EnterDot, sizeVars, pageVars, PC
<1>12. ASSUME Replied, posts' \in Seq(Message), posts' # << >>, own' \in Nat
       PROVE  TypeOK'
  <2>1. << >> \in Line /\ << >> \in Message
    BY EmptySeq DEF Line, Message
  <2> QED BY <1>12, <2>1 DEF TypeOK, Replied, sizeVars, PC, Turns
<1>13. CASE AbandonReply
  BY <1>12, <1>13 DEF TypeOK, AbandonReply
<1>14. CASE NoReply
  BY <1>12, <1>14 DEF TypeOK, NoReply
<1>15. CASE PostReply
  <2>1. posts' \in Seq(Message) /\ posts' # << >>
    <3>1. lines \in Message
      BY <1>0
    <3> QED BY <1>0, <1>15, <3>1, AppendProperties DEF PostReply
  <2>2. own' \in Nat
    BY <1>15, NoPostsLost DEF PostReply
  <2> QED BY <1>12, <1>15, <2>1, <2>2 DEF PostReply
<1>16. CASE InputFails
  <2>1. << >> \in Line /\ << >> \in Message
    BY EmptySeq DEF Line, Message
  <2> QED BY <1>16, <2>1 DEF TypeOK, InputFails, sizeVars, pageVars, PC
<1>17. CASE Resize
  <2>1. CASE \E w \in Widths : ResizeWidth(w)
    BY <2>1 DEF TypeOK, ResizeWidth, pageVars, textVars
  <2>2. CASE \E h \in Heights : ResizeHeight(h)
    BY <2>2 DEF TypeOK, ResizeHeight, pageVars, textVars
  <2> QED BY <1>17, <2>1, <2>2 DEF Resize
<1>18. ASSUME NEW t \in OtherPosts, OthersPost(t) PROVE TypeOK'
  <2>1. t \in Message
    BY ViewerAssumption
  <2>2. posts' \in Seq(Message) /\ posts' # << >>
    BY <1>0, <1>18, <2>1, AppendProperties DEF OthersPost
  <2> QED BY <1>18, <2>2 DEF TypeOK, OthersPost, sizeVars, pageVars, textVars
<1>19. CASE UNCHANGED vars
  BY <1>19 DEF TypeOK, vars, sizeVars, pageVars, textVars
<1> QED
  BY <1>1, <1>2, <1>3, <1>4, <1>5, <1>6, <1>7, <1>8, <1>9, <1>10, <1>11, <1>13,
     <1>14, <1>15, <1>16, <1>17, <1>18, <1>19 DEF Next

-----------------------------------------------------------------------------
(* The page on the screen and the page asked for. *)

(* A post that is added leaves the bodies before it alone. *)
LEMMA Grown ==
  ASSUME TypeOK, NEW t \in Message, posts' = Append(posts, t)
  PROVE  /\ Len(posts') = Len(posts) + 1
         /\ \A p \in Nat : \A w : p < Len(posts) => BodyLines(p, w)' = BodyLines(p, w)
         /\ \A p \in Nat : \A w, b : p < Len(posts) => LastPage(p, w, b)' = LastPage(p, w, b)
<1>1. posts \in Seq(Message) /\ Len(posts) \in Nat
  BY DEF TypeOK
<1>2. Len(posts') = Len(posts) + 1
  BY <1>1
<1>3. ASSUME NEW p \in Nat, NEW w, p < Len(posts)
      PROVE  BodyLines(p, w)' = BodyLines(p, w)
  <2>1. p + 1 \in 1..Len(posts)
    BY <1>1, <1>3
  <2>2. posts'[p + 1] = posts[p + 1]
    BY <1>1, <2>1
  <2> QED BY <2>2 DEF BodyLines
<1>4. ASSUME NEW p \in Nat, NEW w, NEW b, p < Len(posts)
      PROVE  LastPage(p, w, b)' = LastPage(p, w, b)
  BY <1>3, <1>4 DEF LastPage
<1> QED BY <1>2, <1>3, <1>4

(* Load shows a page of the post it goes to. *)
LEMMA LoadWaits ==
  ASSUME TypeOK, Load
  PROVE  Waiting' /\ Loading' /\ Replying'
<1>1. PICK p \in Nat, s \in Nat, len \in Nat, b \in Nat \ {0} : Painting(p, s, len, b)
  BY LoadPaints
<1>2. pc' = "key" /\ own' = 0 /\ UNCHANGED <<posts, width, height>>
  BY DEF Load, sizeVars
<1>3. shown' = [post |-> p, n |-> Len(posts), len |-> len, budget |-> b,
                from |-> s * b + 1, to |-> Clamped(s * b + b, len)]
  BY <1>1 DEF Painting
<1>4. PICK x \in Nat : x = s * b
  OBVIOUS
<1>5. /\ shown'.post = p /\ shown'.n = Len(posts) /\ shown'.len = len
      /\ shown'.budget = b /\ shown'.from = s * b + 1
      /\ shown'.to = Clamped(s * b + b, len)
  BY <1>3, <1>4
<1>6. pos' = p /\ sub' = s /\ jumpLast' = FALSE
  BY <1>1 DEF Painting
<1>7. Pages' = postPages(len, b)
  BY <1>5 DEF Pages
<1>8. ShownPage(sub)'
  <2>1. Len(posts) \in Nat
    BY NoPostsLost
  <2>2. shown'.post < shown'.n /\ shown'.n <= Len(posts')
    BY <1>1, <1>2, <1>5, <2>1 DEF Painting
  <2>3. sub' < Pages'
    BY <1>1, <1>6, <1>7 DEF Painting
  <2> QED BY <1>5, <1>6, <2>2, <2>3 DEF ShownPage
<1>9. Current'
  <2>1. len = BodyLines(p, width) /\ b = viewBudget(contentHeight(height))
    BY <1>1 DEF Painting
  <2>2. BodyLines(shown.post, width)' = BodyLines(p, width)
    BY <1>2, <1>5 DEF BodyLines
  <2> QED BY <1>2, <1>5, <2>1, <2>2 DEF Current
<1>10. Waiting'
  BY <1>5, <1>6, <1>8, <1>9 DEF Waiting
<1> QED BY <1>2, <1>10 DEF Loading, Replying

(* A key asks for a page beside the one on the screen. *)
LEMMA DispatchLoads ==
  ASSUME TypeOK, Waiting, Replying, Dispatch
  PROVE  Waiting' /\ Loading' /\ Replying'
<1>1. pc = "key" /\ pc' = "load"
      /\ UNCHANGED <<posts, width, height, jumpLast, shown, num, still, own>>
  BY DEF Dispatch, NextKey, PrevKey, TopKey, BottomKey, EnterNumber, OtherKey, Turn,
         sizeVars
<1>2. pos = shown.post /\ ShownPage(sub) /\ Current /\ ~jumpLast
  BY <1>1 DEF Waiting
<1>3. pos \in Nat /\ sub \in Nat /\ Len(posts) \in Nat /\ shown.n \in Nat
  BY NoPostsLost DEF TypeOK, Page
<1>4. Waiting' /\ Replying'
  BY <1>1 DEF Waiting, Replying
<1>5. PICK s \in Nat : s = sub
  BY <1>3
<1>6. ShownPage(s)' /\ Current'
  BY <1>1, <1>2, <1>5 DEF ShownPage, Current, Pages, BodyLines
<1>7. Pages \in Nat \ {0} /\ Pages' = Pages /\ s < Pages
  BY <1>1, <1>2, <1>5, PagesType DEF ShownPage, Pages
<1>8. ~jumpLast'
  BY <1>1, <1>2
<1>9. ASSUME turn' \in {"next", "prev", "bottom"}, Asked(s)'
      PROVE  Loading'
  BY <1>6, <1>8, <1>9 DEF Loading
<1>16. SUFFICES Loading'
  BY <1>4
<1>10. CASE NextKey
  <2>1. turn' = "next" /\ AskedNext(s)'
    BY <1>1, <1>2, <1>3, <1>5, <1>7, <1>10 DEF NextKey, Turn, AskedNext
  <2> QED BY <1>9, <2>1 DEF Asked
<1>11. CASE PrevKey
  <2>1. turn' = "prev" /\ AskedPrev(s)'
    BY <1>1, <1>2, <1>3, <1>5, <1>11 DEF PrevKey, Turn, AskedPrev, LastPage, BodyLines
  <2> QED BY <1>9, <2>1 DEF Asked
<1>12. CASE TopKey
  BY <1>8, <1>12 DEF TopKey, Turn, Loading
<1>13. CASE BottomKey
  <2>1. turn' = "bottom" /\ AskedBottom'
    BY <1>1, <1>13 DEF BottomKey, Turn, AskedBottom, LastPage, BodyLines
  <2> QED BY <1>9, <2>1 DEF Asked
<1>14. CASE EnterNumber
  <2>1. CASE num.value \in 1..shown.n /\ Turn("jump", num.value - 1, 0)
    <3>1. turn' = "jump" /\ pos' = num'.value - 1 /\ sub' = 0
      BY <1>1, <2>1 DEF Turn
    <3>2. shown.n <= Len(posts)
      BY <1>2 DEF ShownPage
    <3>3. pos' < Len(posts')
      BY <1>1, <1>3, <2>1, <3>1, <3>2
    <3> QED BY <1>8, <3>1, <3>3 DEF Loading
  <2>2. CASE Turn("other", pos, sub)
    BY <1>8, <2>2 DEF Turn, Loading
  <2> QED BY <1>14, <2>1, <2>2 DEF EnterNumber
<1>15. CASE OtherKey
  BY <1>8, <1>15 DEF OtherKey, Turn, Loading
<1> QED BY <1>10, <1>11, <1>12, <1>13, <1>14, <1>15 DEF Dispatch

(* A change of size leaves what is on the screen as it was. *)
LEMMA ResizeKeeps ==
  ASSUME TypeOK, Waiting, Loading, Replying, Resize
  PROVE  Waiting' /\ Loading' /\ Replying'
<1>1. still' = FALSE
      /\ UNCHANGED <<pc, posts, pos, sub, jumpLast, shown, num, turn, own>>
  BY DEF Resize, ResizeWidth, ResizeHeight, pageVars, textVars
<1>2. Current'
  BY <1>1 DEF Current
<1>3. ASSUME NEW s \in Nat, ShownPage(s) PROVE ShownPage(s)'
  BY <1>1, <1>3 DEF ShownPage, Pages
<1>4. ASSUME NEW s \in Nat, Asked(s) PROVE Asked(s)'
  BY <1>1, <1>4 DEF Asked, AskedNext, AskedPrev, AskedBottom, Pages
<1>5. Waiting'
  <2>1. sub \in Nat /\ sub' = sub
    BY <1>1 DEF TypeOK
  <2>2. PICK s \in Nat : s = sub
    BY <2>1
  <2>3. pc' = "key" => ShownPage(s)'
    BY <1>1, <1>3, <2>2 DEF Waiting
  <2>4. ShownPage(s)' => ShownPage(sub)'
    BY <2>1, <2>2 DEF ShownPage
  <2> QED BY <1>1, <1>2, <2>3, <2>4 DEF Waiting
<1>6. Loading'
  BY <1>1, <1>2, <1>3, <1>4 DEF Loading
<1> QED BY <1>1, <1>5, <1>6 DEF Replying

(* Others add posts behind the ones that the screen knows. *)
LEMMA OthersKeep ==
  ASSUME TypeOK, Waiting, Loading, Replying, NEW t \in OtherPosts, OthersPost(t)
  PROVE  Waiting' /\ Loading' /\ Replying'
<1>1. posts' = Append(posts, t)
      /\ UNCHANGED <<pc, width, height, pos, sub, jumpLast, shown, num, turn, still, own>>
  BY DEF OthersPost, sizeVars, pageVars, textVars
<1>2. t \in Message
  BY ViewerAssumption
<1>3. /\ Len(posts') = Len(posts) + 1
      /\ \A p \in Nat : \A w : p < Len(posts) => BodyLines(p, w)' = BodyLines(p, w)
      /\ \A p \in Nat : \A w, b : p < Len(posts) => LastPage(p, w, b)' = LastPage(p, w, b)
  BY <1>1, <1>2, Grown
<1>4. /\ Len(posts) \in Nat /\ pos \in Nat /\ own \in Nat
      /\ shown.post \in Nat /\ shown.n \in Nat
  BY NoPostsLost DEF TypeOK, Page
<1>5. ASSUME NEW s \in Nat, ShownPage(s) PROVE ShownPage(s)'
  BY <1>1, <1>3, <1>4, <1>5 DEF ShownPage, Pages
<1>6. ASSUME NEW s \in Nat, ShownPage(s), Current PROVE Current'
  <2>1. shown.post < Len(posts)
    BY <1>4, <1>6 DEF ShownPage
  <2>2. PICK p \in Nat : p = shown.post
    BY <1>4
  <2>5. PICK w : w = width
    OBVIOUS
  <2>3. BodyLines(p, w)' = BodyLines(p, w)
    BY <1>3, <2>1, <2>2
  <2>4. BodyLines(shown.post, width)' = BodyLines(shown.post, width)
    BY <1>1, <2>2, <2>3, <2>5 DEF BodyLines
  <2> QED BY <1>1, <1>6, <2>4 DEF Current
<1>7. ASSUME NEW s \in Nat, ShownPage(s), Asked(s) PROVE Asked(s)'
  <2>1. Pages' = Pages /\ shown.n <= Len(posts) /\ shown.post < shown.n
    BY <1>1, <1>7 DEF Pages, ShownPage
  <2>2. AskedNext(s) => AskedNext(s)'
    BY <1>1, <2>1 DEF AskedNext
  <2>3. ASSUME pos < Len(posts)
        PROVE  LastPage(pos, width, shown.budget)' = LastPage(pos, width, shown.budget)
    <3>1. PICK p \in Nat : p = pos
      BY <1>4
    <3>3. PICK w, b : w = width /\ b = shown.budget
      OBVIOUS
    <3>2. LastPage(p, w, b)' = LastPage(p, w, b)
      BY <1>3, <2>3, <3>1
    <3> QED BY <1>1, <3>1, <3>2, <3>3 DEF LastPage, BodyLines
  <2>4. AskedPrev(s) => AskedPrev(s)'
    BY <1>1, <1>4, <2>1, <2>3 DEF AskedPrev
  <2>5. AskedBottom => AskedBottom'
    BY <1>1, <1>4, <2>1, <2>3 DEF AskedBottom
  <2> QED BY <1>1, <1>7, <2>2, <2>4, <2>5 DEF Asked
<1>8. Waiting'
  <2> SUFFICES ASSUME pc = "key" PROVE Waiting'
    BY <1>1 DEF Waiting
  <2>1. sub \in Nat /\ sub' = sub
    BY <1>1 DEF TypeOK
  <2>2. PICK s \in Nat : s = sub
    BY <2>1
  <2>3. ShownPage(s) /\ Current
    BY <2>2 DEF Waiting
  <2>4. ShownPage(s)' /\ Current'
    BY <1>5, <1>6, <2>3
  <2>5. ShownPage(sub)'
    BY <2>1, <2>2, <2>4 DEF ShownPage
  <2> QED BY <1>1, <2>4, <2>5 DEF Waiting
<1>9. Loading'
  <2> SUFFICES ASSUME pc = "load" PROVE Loading'
    BY <1>1 DEF Loading
  <2>1. ASSUME turn \in {"next", "prev", "bottom"}
        PROVE  Current' /\ \E s \in Nat : ShownPage(s)' /\ Asked(s)'
    <3>1. PICK s \in Nat : ShownPage(s) /\ Asked(s)
      BY <2>1 DEF Loading
    <3>2. Current
      BY <2>1 DEF Loading
    <3> QED BY <1>5, <1>6, <1>7, <3>1, <3>2
  <2>2. turn = "jump" => pos < Len(posts')
    BY <1>3, <1>4 DEF Loading
  <2> QED BY <1>1, <2>1, <2>2 DEF Loading
<1>10. Replying'
  BY <1>1, <1>3, <1>4 DEF Replying
<1> QED BY <1>8, <1>9, <1>10

(* The number is of no account before Enter. *)
LEMMA NumberKeeps ==
  ASSUME Waiting, Replying, pc = "key",
         UNCHANGED <<pc, posts, width, height, pos, sub, jumpLast, shown, turn, still, own>>
  PROVE  Waiting' /\ Loading' /\ Replying'
  BY DEF Waiting, Loading, Replying, ShownPage, Current, Pages, BodyLines

(* Elsewhere there is no page to keep. *)
LEMMA AwayKeeps ==
  ASSUME Replying, pc' \notin {"key", "load"},
         own' = 0 \/ (pc # "load" /\ own' = own)
  PROVE  Waiting' /\ Loading' /\ Replying'
  BY DEF Waiting, Loading, Replying

LEMMA StepKeeps ==
  ASSUME IInv, [Next]_vars
  PROVE  Waiting' /\ Loading' /\ Replying'
<1>0. TypeOK /\ Waiting /\ Loading /\ Replying
  BY DEF IInv
<1>1. CASE Open
  <2>1. pc = "out" /\ pc' = "load" /\ turn' = "open" /\ own' = own
        /\ pos' = 0 /\ sub' = 0 /\ jumpLast' = FALSE
    BY <1>1 DEF Open
  <2> QED BY <1>0, <2>1 DEF Waiting, Loading, Replying
<1>2. CASE Load
  BY <1>0, <1>2, LoadWaits
<1>3. CASE LoadFails
  BY <1>0, <1>3, AwayKeeps DEF LoadFails
<1>4. CASE EraseDigit \/ \E d \in Digits : TypeDigit(d)
  BY <1>0, <1>4, NumberKeeps DEF EraseDigit, TypeDigit, sizeVars, pageVars, textVars
<1>5. CASE Dispatch
  BY <1>0, <1>5, DispatchLoads
<1>6. CASE QuitKey \/ ReplyKey
  BY <1>0, <1>6, AwayKeeps DEF QuitKey, ReplyKey
<1>7. CASE Editing
  BY <1>0, <1>7, AwayKeeps DEF Editing, TypeLetter, TypeSpace, Erase, KillLine, Edit
<1>8. CASE EnterLine \/ EnterDot
  BY <1>0, <1>8, AwayKeeps DEF EnterLine, EnterDot
<1>9. CASE AbandonReply \/ NoReply
  BY <1>0, <1>9 DEF AbandonReply, NoReply, Replied, Waiting, Loading, Replying
<1>10. CASE PostReply
  <2>1. pc' = "load" /\ turn' = "reply" /\ jumpLast' = TRUE
    BY <1>10 DEF PostReply, Replied
  <2>2. lines \in Message
    BY <1>0 DEF TypeOK
  <2>3. own' = Len(posts') /\ own' \in Nat
    BY <1>0, <1>10, <2>2, Grown, NoPostsLost DEF PostReply
  <2> QED BY <2>1, <2>3 DEF Waiting, Loading, Replying
<1>11. CASE InputFails
  BY <1>0, <1>11, AwayKeeps DEF InputFails
<1>12. CASE Resize
  BY <1>0, <1>12, ResizeKeeps
<1>13. ASSUME NEW t \in OtherPosts, OthersPost(t)
       PROVE  Waiting' /\ Loading' /\ Replying'
  BY <1>0, <1>13, OthersKeep
<1>14. CASE UNCHANGED vars
  BY <1>0, <1>14 DEF vars, sizeVars, pageVars, textVars, Waiting, Loading, Replying,
     ShownPage, Asked, AskedNext, AskedPrev, AskedBottom, Current, Pages, LastPage,
     BodyLines
<1> QED
  BY <1>1, <1>2, <1>3, <1>4, <1>5, <1>6, <1>7, <1>8, <1>9, <1>10, <1>11, <1>12,
     <1>13, <1>14 DEF Next

LEMMA Invariance == Spec => []IInv
<1>1. Init => IInv
  <2> SUFFICES ASSUME Init PROVE IInv
    OBVIOUS
  <2>1. posts \in Seq(Message) /\ posts # << >>
    BY ViewerAssumption DEF Init
  <2>2. << >> \in Line /\ << >> \in Message
    BY EmptySeq DEF Line, Message
  <2>3. num \in [digits : 0..MaxDigits, value : Nat] /\ shown \in Page
    BY ViewerAssumption DEF Init, NoNumber, NoPage, Page
  <2> QED
    BY <2>1, <2>2, <2>3 DEF Init, IInv, TypeOK, Waiting, Loading, Replying, PC, Turns
<1>2. IInv /\ [Next]_vars => IInv'
  BY StepTypes, StepKeeps DEF IInv
<1> QED BY <1>1, <1>2, PTL DEF Spec

-----------------------------------------------------------------------------
(* The properties. *)

LEMMA OnlyLoadPaints ==
  ASSUME [Next]_vars, pc = "load", pc' = "key"
  PROVE  Load
<1>1. ~UNCHANGED vars
  BY DEF vars
<1>2. ~Dispatch
  BY DEF Dispatch, NextKey, PrevKey, TopKey, BottomKey, EnterNumber, OtherKey, Turn
<1>3. ~Editing
  BY DEF Editing, TypeLetter, TypeSpace, Erase, KillLine, Edit
<1>4. ~Resize
  BY DEF Resize, ResizeWidth, ResizeHeight
<1> QED
  BY <1>1, <1>2, <1>3, <1>4 DEF Next, Open, LoadFails, TypeDigit, EraseDigit, QuitKey,
     ReplyKey, EnterLine, EnterDot, AbandonReply, NoReply, PostReply, InputFails,
     OthersPost

(* A shown page is not blank, and tells by from and to which page it is. *)
LEMMA ShownExtent ==
  ASSUME TypeOK, NEW s \in Nat, ShownPage(s)
  PROVE  /\ shown.to <= shown.len /\ shown.to < shown.from + shown.budget
         /\ shown.len > 0 => shown.from <= shown.to
         /\ s < Pages - 1 <=> shown.to < shown.len
         /\ s >= Pages - 1 => shown.to = shown.len
         /\ s > 0 <=> shown.from > 1
         /\ s < Pages - 1 => shown.to + 1 = (s + 1) * shown.budget + 1
<1>1. PICK b \in Nat \ {0}, len \in Nat : b = shown.budget /\ len = shown.len
  BY PagesType DEF ShownPage
<1>2. PICK q \in Nat \ {0} : q = Pages /\ q = postPages(len, b)
  BY <1>1, PagesType DEF ShownPage, Pages
<1>3. s < postPages(len, b)
  BY <1>2 DEF ShownPage
<1>4. /\ s * b \in Nat /\ s * b <= len
      /\ len > 0 => s * b < len
      /\ s < postPages(len, b) - 1 => s * b + b < len
      /\ s = postPages(len, b) - 1 => len <= s * b + b
      /\ (s + 1) * b = s * b + b
  BY <1>3, PageOfBody
<1>5. PICK x \in Nat, y \in Nat : x = s * b /\ y = (s + 1) * b
  BY <1>4
<1>6. shown.from = x + 1 /\ shown.to = Clamped(x + b, len)
  BY <1>1, <1>5 DEF ShownPage
<1>7. /\ x <= len /\ y = x + b
      /\ len > 0 => x < len
      /\ s < q - 1 => x + b < len
      /\ s = q - 1 => len <= x + b
  BY <1>2, <1>4, <1>5
<1>8. s < q
  BY <1>2, <1>3
<1>9. s > 0 <=> x > 0
  <2>1. CASE s = 0
    BY <1>5, <2>1
  <2>2. CASE s > 0
    <3>1. PICK r \in Nat : s = r + 1
      <4>1. s - 1 \in Nat /\ s = (s - 1) + 1
        BY <2>2
      <4> QED BY <4>1
    <3>2. s * b = r * b + b /\ r * b \in Nat
      BY <3>1, Product
    <3> QED BY <1>5, <2>2, <3>2
  <2> QED BY <2>1, <2>2
<1>10. PICK a \in Nat, z \in Nat : a = x + 1 /\ z = Clamped(x + b, len)
  BY DEF Clamped
<1>11. /\ z <= len /\ z < a + b
       /\ len > 0 => a <= z
       /\ s < q - 1 <=> z < len
       /\ s >= q - 1 => z = len
       /\ s > 0 <=> a > 1
       /\ s < q - 1 => z + 1 = y + 1
  BY <1>7, <1>8, <1>9, <1>10 DEF Clamped
<1>12. (s + 1) * shown.budget = y
  BY <1>1, <1>5
<1>13. a = shown.from /\ z = shown.to /\ b = shown.budget /\ len = shown.len /\ q = Pages
  BY <1>1, <1>2, <1>6, <1>10
<1> QED BY <1>11, <1>12, <1>13

(* Every variable keeps its type. *)
THEOREM ViewerTypes == Spec => []TypeOK
<1>1. IInv => TypeOK
  BY DEF IInv
<1> QED BY <1>1, Invariance, PTL

(* The page that waits for a key is of a post that exists and is not blank *)
(* unless the post is (viewThread, postBlock).                             *)
THEOREM PagesNotBlank == Spec => []NoBlankPage
<1>1. IInv => NoBlankPage
  <2> SUFFICES ASSUME IInv, pc = "key" PROVE NoBlankPage
    BY DEF NoBlankPage
  <2>1. TypeOK /\ ShownPage(sub)
    BY DEF IInv, Waiting
  <2>2. PICK s \in Nat : s = sub
    BY <2>1 DEF TypeOK
  <2>3. ShownPage(s)
    BY <2>1, <2>2 DEF ShownPage
  <2>4. /\ shown.to <= shown.len /\ shown.to < shown.from + shown.budget
        /\ shown.len > 0 => shown.from <= shown.to
    BY <2>1, <2>3, ShownExtent
  <2> QED BY <2>3, <2>4 DEF NoBlankPage, ShownPage
<1> QED BY <1>1, Invariance, PTL

(* What Load shows of a post of len lines. *)
LEMMA PaintedExtent ==
  ASSUME NEW p \in Nat, NEW s \in Nat, NEW len \in Nat, NEW b \in Nat \ {0},
         Painting(p, s, len, b)
  PROVE  /\ shown'.post = p /\ shown'.len = len
         /\ shown'.from = s * b + 1
         /\ shown'.to = Clamped(s * b + b, len)
         /\ s = 0 => shown'.from = 1
         /\ s = postPages(len, b) - 1 => shown'.to = len
<1>1. PICK x \in Nat : x = s * b
  OBVIOUS
<1>2. shown' = [post |-> p, n |-> Len(posts), len |-> len, budget |-> b,
                from |-> x + 1, to |-> Clamped(x + b, len)]
  BY <1>1 DEF Painting
<1>3. s = 0 => x = 0
  <2> SUFFICES ASSUME s = 0 PROVE x = 0
    OBVIOUS
  <2>1. 0 * b = 0
    OBVIOUS
  <2> QED BY <1>1, <2>1
<1>4. s < postPages(len, b)
  BY DEF Painting
<1>5. s = postPages(len, b) - 1 => len <= x + b
  BY <1>1, <1>4, PageOfBody
<1> QED BY <1>1, <1>2, <1>3, <1>5 DEF Clamped

(* In a window of the same size the next load has the same pages. *)
LEMMA SameWindow ==
  ASSUME still, Current, NEW p \in Nat, NEW s \in Nat, NEW len \in Nat,
         NEW b \in Nat \ {0}, Painting(p, s, len, b)
  PROVE  /\ b = shown.budget
         /\ p = shown.post => len = shown.len
  BY DEF Current, Painting

LEMMA LoadTurns ==
  ASSUME IInv, Load
  PROVE  /\ turn = "next" /\ still => TurnsNext
         /\ turn = "prev" /\ still => TurnsPrev
         /\ turn = "bottom" /\ still => shown'.post = shown.n - 1 /\ FinalPage
         /\ turn = "jump" => shown'.post = num.value - 1 /\ FirstPage
         /\ turn \in {"open", "top"} => shown'.post = 0 /\ FirstPage
<1>0. TypeOK /\ pc = "load" /\ Loading
  BY DEF IInv, Load
<1>1. PICK p \in Nat, s \in Nat, len \in Nat, b \in Nat \ {0} : Painting(p, s, len, b)
  BY <1>0, LoadPaints
<1>2. PICK q \in Nat \ {0} : q = postPages(len, b)
  BY PagesNeeded
<1>3. /\ shown'.post = p /\ shown'.len = len
      /\ shown'.from = s * b + 1
      /\ shown'.to = Clamped(s * b + b, len)
      /\ s = 0 => shown'.from = 1
      /\ s = q - 1 => shown'.to = len
  BY <1>1, <1>2, PaintedExtent
<1>4. /\ pos \in Nat /\ sub \in Nat /\ Len(posts) \in Nat
      /\ shown.post \in Nat /\ shown.n \in Nat
  BY <1>0, NoPostsLost DEF TypeOK, Page
<1>5. turn # "reply" => (pos < Len(posts) => p = pos) /\ s = Clamped(sub, q - 1)
  BY <1>0, <1>1, <1>2 DEF Painting, Loading
<1>6. sub = 0 => Clamped(sub, q - 1) = 0
  BY DEF Clamped
<1>7. turn = "jump" => shown'.post = num.value - 1 /\ FirstPage
  BY <1>0, <1>3, <1>4, <1>5, <1>6 DEF Loading, FirstPage
<1>8. turn \in {"open", "top"} => shown'.post = 0 /\ FirstPage
  <2> SUFFICES ASSUME turn \in {"open", "top"} PROVE shown'.post = 0 /\ FirstPage
    OBVIOUS
  <2>1. pos = 0 /\ sub = 0 /\ pos < Len(posts)
    BY <1>0, NoPostsLost DEF Loading
  <2> QED BY <1>3, <1>5, <1>6, <2>1 DEF FirstPage
<1>9. ASSUME turn \in {"next", "prev", "bottom"}, still
      PROVE  /\ turn = "next" => TurnsNext
             /\ turn = "prev" => TurnsPrev
             /\ turn = "bottom" => shown'.post = shown.n - 1 /\ FinalPage
  <2>1. PICK o \in Nat : ShownPage(o) /\ Asked(o)
    BY <1>0, <1>9 DEF Loading
  <2>2. Current
    BY <1>0, <1>9 DEF Loading
  <2>3. b = shown.budget /\ (p = shown.post => len = shown.len)
    BY <1>1, <1>9, <2>2, SameWindow
  <2>4. shown.post < shown.n /\ shown.n <= Len(posts) /\ o < Pages
    BY <2>1 DEF ShownPage
  <2>5. /\ o < Pages - 1 <=> shown.to < shown.len
        /\ o >= Pages - 1 => shown.to = shown.len
        /\ o > 0 <=> shown.from > 1
        /\ o < Pages - 1 => shown.to + 1 = (o + 1) * shown.budget + 1
    BY <1>0, <2>1, ShownExtent
  <2>6. Pages \in Nat \ {0}
    BY <1>0, <2>1, PagesType DEF ShownPage
  <2>7. p = shown.post => q = Pages
    BY <1>2, <2>3 DEF Pages
  <2>8. s = Clamped(sub, q - 1) /\ (pos < Len(posts) => p = pos)
    BY <1>5, <1>9
  <2>9. shown.from = o * shown.budget + 1
    BY <2>1 DEF ShownPage
  <2>10. ASSUME turn = "next" PROVE TurnsNext
    <3>1. AskedNext(o)
      BY <2>1, <2>10 DEF Asked
    <3>2. CASE o < Pages - 1 /\ pos = shown.post /\ sub = o + 1
      <4>1. p = shown.post
        BY <1>4, <2>4, <2>8, <3>2
      <4>2. s = o + 1
        BY <2>6, <2>7, <2>8, <3>2, <4>1 DEF Clamped
      <4>3. shown'.from = shown.to + 1
        BY <1>3, <2>3, <2>5, <3>2, <4>2
      <4> QED BY <1>3, <2>5, <3>2, <4>1, <4>3 DEF TurnsNext
    <3>3. CASE o >= Pages - 1 /\ shown.post < shown.n - 1 /\ pos = shown.post + 1 /\ sub = 0
      <4>1. p = shown.post + 1 /\ s = 0
        BY <1>4, <1>6, <2>4, <2>8, <3>3
      <4> QED BY <1>3, <2>5, <3>3, <4>1 DEF TurnsNext, FirstPage
    <3>4. CASE o >= Pages - 1 /\ shown.post >= shown.n - 1 /\ pos = shown.post /\ sub = o
      <4>1. p = shown.post
        BY <1>4, <2>4, <2>8, <3>4
      <4>2. s = o
        BY <2>4, <2>6, <2>7, <2>8, <3>4, <4>1 DEF Clamped
      <4>3. shown'.from = shown.from
        BY <1>3, <2>3, <2>9, <4>2
      <4>4. shown.post = shown.n - 1
        BY <1>4, <2>4, <3>4
      <4> QED BY <1>3, <2>5, <3>4, <4>1, <4>3, <4>4 DEF TurnsNext, SamePage
    <3> QED BY <3>1, <3>2, <3>3, <3>4 DEF AskedNext
  <2>11. ASSUME turn = "prev" PROVE TurnsPrev
    <3>1. AskedPrev(o)
      BY <2>1, <2>11 DEF Asked
    <3>2. CASE o > 0 /\ pos = shown.post /\ sub = o - 1
      <4>1. p = shown.post
        BY <1>4, <2>4, <2>8, <3>2
      <4>2. s = o - 1
        BY <2>4, <2>6, <2>7, <2>8, <3>2, <4>1 DEF Clamped
      <4>3. s * b + b = o * b
        <5>1. (s + 1) * b = s * b + b
          BY Product
        <5>2. s + 1 = o
          BY <4>2
        <5> QED BY <5>1, <5>2
      <4>4. o * b \in Nat /\ o * b <= len
        <5>1. o < postPages(len, b)
          BY <1>2, <2>4, <2>7, <4>1
        <5> QED BY <5>1, PageOfBody
      <4>5. PICK x \in Nat : x = o * b
        BY <4>4
      <4>6. shown'.to = x /\ shown.from = x + 1
        BY <1>3, <2>3, <2>9, <4>3, <4>4, <4>5 DEF Clamped
      <4>7. shown'.to = shown.from - 1
        BY <4>6
      <4> QED BY <1>3, <2>5, <3>2, <4>1, <4>7 DEF TurnsPrev
    <3>3. CASE /\ o = 0 /\ shown.post > 0 /\ pos = shown.post - 1
               /\ still => sub = LastPage(pos, width, shown.budget)
      <4>1. pos < Len(posts) /\ p = pos /\ p = shown.post - 1
        BY <1>4, <2>4, <2>8, <3>3
      <4>2. sub = LastPage(p, width, b)
        BY <1>9, <2>3, <3>3, <4>1 DEF LastPage, BodyLines
      <4>3. sub = q - 1
        BY <1>1, <1>2, <4>2 DEF LastPage, Painting
      <4>4. s = q - 1
        BY <2>8, <4>3 DEF Clamped
      <4>5. shown.from = 1
        BY <2>3, <2>9, <3>3
      <4> QED BY <1>3, <3>3, <4>1, <4>4, <4>5 DEF TurnsPrev, FinalPage
    <3>4. CASE o = 0 /\ shown.post = 0 /\ pos = 0 /\ sub = 0
      <4>1. p = shown.post /\ s = 0
        BY <1>4, <1>6, <2>4, <2>8, <3>4
      <4>2. shown.from = 1
        BY <2>3, <2>9, <3>4
      <4> QED BY <1>3, <3>4, <4>1, <4>2 DEF TurnsPrev, SamePage
    <3> QED BY <3>1, <3>2, <3>3, <3>4 DEF AskedPrev
  <2>12. ASSUME turn = "bottom" PROVE shown'.post = shown.n - 1 /\ FinalPage
    <3>1. pos = shown.n - 1 /\ sub = LastPage(pos, width, shown.budget)
      BY <1>9, <2>1, <2>12 DEF Asked, AskedBottom
    <3>2. p = pos
      BY <1>4, <2>4, <2>8, <3>1
    <3>3. sub = LastPage(p, width, b)
      BY <2>3, <3>1, <3>2 DEF LastPage, BodyLines
    <3>4. sub = q - 1
      BY <1>1, <1>2, <3>3 DEF LastPage, Painting
    <3>5. s = q - 1
      BY <2>8, <3>4 DEF Clamped
    <3> QED BY <1>3, <3>1, <3>2, <3>5 DEF FinalPage
  <2> QED BY <2>10, <2>11, <2>12
<1> QED BY <1>7, <1>8, <1>9

(* In a window that keeps its size, turning pages loses no line of the     *)
(* thread and repeats none; the other keys lead where they say             *)
(* (viewThread).                                                           *)
THEOREM ReadingComplete == Spec => PagesTurn
<1> DEFINE Turned ==
        pc = "load" /\ pc' = "key" =>
            /\ turn = "next" /\ still => TurnsNext
            /\ turn = "prev" /\ still => TurnsPrev
            /\ turn = "bottom" /\ still => shown'.post = shown.n - 1 /\ FinalPage
            /\ turn = "jump" => shown'.post = num.value - 1 /\ FirstPage
            /\ turn \in {"open", "top"} => shown'.post = 0 /\ FirstPage
<1>1. IInv /\ [Next]_vars => [Turned]_vars
  <2> SUFFICES ASSUME IInv, [Next]_vars, pc = "load", pc' = "key" PROVE Turned
    OBVIOUS
  <2>1. Load
    BY OnlyLoadPaints
  <2> QED BY <2>1, LoadTurns
<1>2. Spec => [][Next]_vars
  BY PTL DEF Spec
<1> QED BY <1>1, <1>2, Invariance, PTL DEF PagesTurn

(* After a reply its author sees the first page of the reply or of a later *)
(* one (reply, and viewThread's jumpLast).                                 *)
THEOREM ReplyIsShown == Spec => ReplyShown
<1> DEFINE Seen ==
        pc = "load" /\ pc' = "key" /\ own # 0 => shown'.post >= own - 1 /\ FirstPage
<1>1. IInv /\ [Next]_vars => [Seen]_vars
  <2> SUFFICES ASSUME IInv, [Next]_vars, pc = "load", pc' = "key", own # 0
               PROVE  shown'.post >= own - 1 /\ FirstPage
    OBVIOUS
  <2>1. Load
    BY OnlyLoadPaints
  <2>2. TypeOK /\ jumpLast /\ own <= Len(posts)
    BY DEF IInv, Replying
  <2>3. PICK p \in Nat, s \in Nat, len \in Nat, b \in Nat \ {0} : Painting(p, s, len, b)
    BY <2>1, <2>2, LoadPaints
  <2>4. p = Len(posts) - 1 /\ s = 0
    BY <2>2, <2>3 DEF Painting
  <2>5. shown'.post = p /\ shown'.from = 1
    BY <2>3, <2>4, PaintedExtent
  <2>6. own \in Nat /\ Len(posts) \in Nat
    BY <2>2, NoPostsLost DEF TypeOK
  <2> QED BY <2>2, <2>4, <2>5, <2>6 DEF FirstPage
<1>2. Spec => [][Next]_vars
  BY PTL DEF Spec
<1> QED BY <1>1, <1>2, Invariance, PTL DEF ReplyShown


-----------------------------------------------------------------------------
(* The text.  Until it is ended the lines are those that were entered.     *)

Collected == pc # "post" => lines = typed

TextKept == TextFits /\ OnlyLastLost /\ Collected

LEMMA NothingCollected ==
  ASSUME lines' = << >>, typed' = << >>
  PROVE  TextKept'
<1>1. 0 <= maxMessageChars
  BY ViewerAssumption
<1>2. TextFits'
  BY <1>1, TotalEmpty DEF TextFits
<1> QED BY <1>2 DEF TextKept, OnlyLastLost, Collected

LEMMA TextUntouched ==
  ASSUME TextKept, UNCHANGED <<lines, typed>>,
         pc' = pc \/ pc # "post"
  PROVE  TextKept'
BY DEF TextKept, TextFits, OnlyLastLost, Collected

LEMMA EnteredKept ==
  ASSUME TypeOK, TextKept, EnterLine
  PROVE  TextKept'
<1>1. PICK l \in Line : l = Trimmed
  <2>1. buf \in Seq(Nat)
    BY DEF TypeOK, Line
  <2>2. CASE EndsInSpace
    <3>1. Len(buf) \in Nat \ {0}
      BY <2>1, <2>2, EmptySeq DEF EndsInSpace
    <3>2. SubSeq(buf, 1, Len(buf) - 1) \in Seq(Nat)
      BY <2>1, <3>1
    <3> QED BY <2>2, <3>2 DEF Trimmed, Line
  <2>3. CASE ~EndsInSpace
    BY <2>3 DEF Trimmed, TypeOK
  <2> QED BY <2>2, <2>3
<1>2. PICK ls \in Message : ls = lines
  BY DEF TypeOK
<1>3. PICK all : all = Append(ls, l)
  OBVIOUS
<1>4. /\ pc = "text" /\ typed' = all
      /\ \/ totalLen(all) <= maxMessageChars /\ lines' = all /\ pc' = pc
         \/ /\ totalLen(all) > maxMessageChars
            /\ lines' = truncateLines(all, maxMessageChars) /\ pc' = "post"
  BY <1>1, <1>2, <1>3 DEF EnterLine
<1>5. totalLen(ls) <= maxMessageChars
  BY <1>2 DEF TextKept, TextFits
<1>6. CASE totalLen(all) <= maxMessageChars /\ lines' = all
  BY <1>4, <1>6 DEF TextKept, TextFits, OnlyLastLost, Collected
<1>7. CASE /\ totalLen(all) > maxMessageChars
           /\ lines' = truncateLines(all, maxMessageChars) /\ pc' = "post"
  <2>1. PICK max \in Nat : max = maxMessageChars
    BY ViewerAssumption
  <2>2. truncateLines(all, max) = ls /\ ls = SubSeq(all, 1, Len(all) - 1)
    BY <1>3, <1>5, <1>7, <2>1, TruncateLast
  <2>3. all # << >>
    BY <1>2, <1>3, AppendProperties DEF Message
  <2>4. lines' = ls
    BY <1>7, <2>1, <2>2
  <2> QED
    BY <1>4, <1>5, <1>7, <2>2, <2>3, <2>4 DEF TextKept, TextFits, OnlyLastLost, Collected
<1> QED BY <1>4, <1>6, <1>7

LEMMA TextInvariance == Spec => []TextKept
<1>1. Init => TextKept
  <2> SUFFICES ASSUME Init PROVE TextKept
    OBVIOUS
  <2>1. lines = << >> /\ typed = << >> /\ 0 <= maxMessageChars
    BY ViewerAssumption DEF Init
  <2> QED BY <2>1, TotalEmpty DEF TextKept, TextFits, OnlyLastLost, Collected
<1>2. TypeOK /\ TextKept /\ [Next]_vars => TextKept'
  <2> SUFFICES ASSUME TypeOK, TextKept, [Next]_vars PROVE TextKept'
    OBVIOUS
  <2>1. CASE EnterLine
    BY <2>1, EnteredKept
  <2>2. CASE AbandonReply \/ NoReply \/ PostReply \/ InputFails
    BY <2>2, NothingCollected DEF AbandonReply, NoReply, PostReply, Replied, InputFails
  <2>3. CASE Open \/ Load \/ LoadFails
    BY <2>3, TextUntouched DEF Open, Load, LoadFails, textVars
  <2>4. ASSUME NEW d \in Digits, TypeDigit(d) PROVE TextKept'
    BY <2>4, TextUntouched DEF TypeDigit, textVars
  <2>5. CASE EraseDigit
    BY <2>5, TextUntouched DEF EraseDigit, textVars
  <2>6. CASE Dispatch
    BY <2>6, TextUntouched
    DEF Dispatch, NextKey, PrevKey, TopKey, BottomKey, EnterNumber, OtherKey, Turn, textVars
  <2>7. CASE QuitKey \/ ReplyKey
    BY <2>7, TextUntouched DEF QuitKey, ReplyKey, textVars
  <2>8. CASE Editing
    BY <2>8, TextUntouched DEF Editing, TypeLetter, TypeSpace, Erase, KillLine, Edit
  <2>9. CASE EnterDot
    BY <2>9, TextUntouched DEF EnterDot
  <2>10. CASE Resize
    BY <2>10, TextUntouched DEF Resize, ResizeWidth, ResizeHeight, textVars
  <2>11. ASSUME NEW t \in OtherPosts, OthersPost(t) PROVE TextKept'
    BY <2>11, TextUntouched DEF OthersPost, textVars
  <2>12. CASE UNCHANGED vars
    BY <2>12, TextUntouched DEF vars, textVars
  <2> QED
    BY <2>1, <2>2, <2>3, <2>4, <2>5, <2>6, <2>7, <2>8, <2>9, <2>10, <2>11, <2>12
    DEF Next
<1> QED BY <1>1, <1>2, ViewerTypes, PTL DEF Spec

(* No text that readText returns or goes on collecting is longer than the  *)
(* limit, whatever lines are entered and whatever the limit.               *)
THEOREM TextWithinLimit == Spec => []TextFits
<1>1. TextKept => TextFits
  BY DEF TextKept
<1> QED BY <1>1, TextInvariance, PTL

(* A text loses at most the line that made it too long, and no other.      *)
THEOREM TextWhole == Spec => []OnlyLastLost
<1>1. TextKept => OnlyLastLost
  BY DEF TextKept
<1> QED BY <1>1, TextInvariance, PTL

-----------------------------------------------------------------------------
(* The lines on the screen. *)

OnPost == shown.post < Len(posts)

LEMMA PostsGrow == TypeOK /\ [Next]_vars => Len(posts) <= Len(posts') /\ Len(posts') \in Nat
<1> SUFFICES ASSUME TypeOK, [Next]_vars
             PROVE  Len(posts) <= Len(posts') /\ Len(posts') \in Nat
  OBVIOUS
<1>1. posts \in Seq(Message) /\ Len(posts) \in Nat
  BY DEF TypeOK
<1>2. ASSUME NEW t \in Message, posts' = Append(posts, t)
      PROVE  Len(posts) <= Len(posts') /\ Len(posts') \in Nat
  BY <1>1, <1>2, AppendProperties
<1>3. CASE UNCHANGED posts
  BY <1>1, <1>3
<1>4. CASE PostReply
  BY <1>2, <1>4 DEF PostReply, TypeOK
<1>5. ASSUME NEW t \in OtherPosts, OthersPost(t)
      PROVE  Len(posts) <= Len(posts') /\ Len(posts') \in Nat
  BY <1>2, <1>5, ViewerAssumption DEF OthersPost
<1>6. CASE \/ Open \/ Load \/ LoadFails \/ EraseDigit \/ Dispatch \/ QuitKey \/ ReplyKey
           \/ Editing \/ EnterLine \/ EnterDot \/ AbandonReply \/ NoReply \/ InputFails
           \/ Resize \/ UNCHANGED vars \/ \E d \in Digits : TypeDigit(d)
  <2>1. UNCHANGED posts
    BY <1>6 DEF Open, Load, LoadFails, EraseDigit, Dispatch, NextKey, PrevKey, TopKey,
       BottomKey, EnterNumber, OtherKey, Turn, QuitKey, ReplyKey, Editing, TypeLetter,
       TypeSpace, Erase, KillLine, Edit, EnterLine, EnterDot, AbandonReply, NoReply,
       InputFails, Resize, ResizeWidth, ResizeHeight, TypeDigit, vars
  <2> QED BY <2>1, <1>3
<1> QED BY <1>4, <1>5, <1>6 DEF Next

LEMMA OnPostStep == TypeOK /\ OnPost /\ [Next]_vars => OnPost'
<1> SUFFICES ASSUME TypeOK, OnPost, [Next]_vars PROVE OnPost'
  OBVIOUS
<1>1. Len(posts) \in Nat /\ shown.post \in Nat
  BY DEF TypeOK, Page
<1>2. CASE Load
  <2>1. PICK p \in Nat, s \in Nat, len \in Nat, b \in Nat \ {0} : Painting(p, s, len, b)
    BY <1>2, LoadPaints
  <2>2. shown'.post = p /\ p < Len(posts) /\ UNCHANGED posts
    BY <1>2, <2>1 DEF Painting, Load
  <2> QED BY <2>2 DEF OnPost
<1>3. CASE UNCHANGED shown
  BY <1>1, <1>3, PostsGrow DEF OnPost
<1>4. ~Load => UNCHANGED shown
  BY DEF Next, Open, LoadFails, EraseDigit, Dispatch, NextKey, PrevKey, TopKey,
     BottomKey, EnterNumber, OtherKey, Turn, QuitKey, ReplyKey, Editing, TypeLetter,
     TypeSpace, Erase, KillLine, Edit, EnterLine, EnterDot, AbandonReply, NoReply,
     PostReply, Replied, InputFails, Resize, ResizeWidth, ResizeHeight, TypeDigit,
     OthersPost, vars, pageVars
<1> QED BY <1>2, <1>3, <1>4

(* Whatever the post and the window, a paragraph of words that fit is on   *)
(* the screen word for word, in lines that hold as many of them as fit     *)
(* (ansi.Wrap).                                                            *)
THEOREM LinesAsWide == Spec => []LinesFit
<1>1. Init => OnPost
  <2> SUFFICES ASSUME Init PROVE OnPost
    OBVIOUS
  <2>1. posts \in Seq(Message) /\ posts # << >>
    BY ViewerAssumption DEF Init
  <2>2. Len(posts) \in Nat \ {0}
    BY <2>1, EmptySeq
  <2> QED BY <2>2 DEF Init, NoPage, OnPost
<1>2. TypeOK /\ OnPost => LinesFit
  <2> SUFFICES ASSUME TypeOK, OnPost PROVE LinesFit
    OBVIOUS
  <2>1. PICK w \in Int : w = contentWidth(width) - 4
    BY ViewerAssumption DEF TypeOK, contentWidth
  <2>2. PICK t \in Message : t = posts[shown.post + 1]
    <3>1. posts \in Seq(Message) /\ shown.post + 1 \in 1..Len(posts)
      BY DEF TypeOK, Page, OnPost
    <3> QED BY <3>1, ElementOfSeq
  <2>3. ASSUME NEW i \in DOMAIN t, \A k \in DOMAIN t[i] : t[i][k] <= w,
               NEW p \in Wrapped(t, w), p[1] = i, p[2] # 0, NEW k \in p[2]..Len(t[i])
        PROVE  k \in Taken(t[i], w, p[2]) <=> LineLen(SubSeq(t[i], p[2], k)) <= w
    <3>1. \/ \E h \in DOMAIN t : p = <<h, 0>>
          \/ \E h \in DOMAIN t : \E j \in DOMAIN t[h] : StartsLine(t[h], w, j) /\ p = <<h, j>>
      BY DEF Wrapped
    <3>2. PICK h \in DOMAIN t : \E j \in DOMAIN t[h] : StartsLine(t[h], w, j) /\ p = <<h, j>>
      BY <2>3, <3>1
    <3>3. PICK j \in DOMAIN t[i] : StartsLine(t[i], w, j) /\ p[2] = j
      BY <2>3, <3>2
    <3>4. PICK l \in Line : l = t[i]
      BY DEF Message
    <3>5. k \in j..Len(l)
      BY <2>3, <3>3, <3>4
    <3>6. k \in Taken(l, w, j) <=> k = j \/ LineLen(SubSeq(l, j, k)) <= w
      BY <3>3, <3>4, <3>5, TakenStep
    <3>7. LineLen(SubSeq(l, j, j)) <= w
      <4>1. LineLen(SubSeq(l, j, j)) = l[j]
        BY <3>3, <3>4, WordsFrom
      <4> QED BY <2>3, <3>3, <3>4, <4>1
    <3> QED BY <3>3, <3>4, <3>6, <3>7
  <2>4. ASSUME NEW i \in DOMAIN t, NEW k \in DOMAIN t[i]
        PROVE  \E p \in Wrapped(t, w) :
                   /\ p[1] = i /\ p[2] # 0 /\ k \in Taken(t[i], w, p[2])
                   /\ \A q \in Wrapped(t, w) :
                          q[1] = i /\ q[2] # 0 /\ k \in Taken(t[i], w, q[2]) => q = p
    BY <2>2, WrapKeepsWords
  <2> QED BY <2>1, <2>2, <2>3, <2>4 DEF LinesFit
<1> QED BY <1>1, <1>2, OnPostStep, ViewerTypes, PTL DEF Spec
=============================================================================
