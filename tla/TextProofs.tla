----------------------------- MODULE TextProofs -----------------------------
(***************************************************************************)
(* What the operators of Text compute, for any message, width and limit.   *)
(*                                                                         *)
(* A recursive function is the function, if there is one, that satisfies   *)
(* its equation.  Recursion shows by induction that there is one; with it  *)
(* each of the three has its equation, and what they compute follows by    *)
(* induction on the line or the message.  The library's inductions take an *)
(* operator, so these are done with sets of numbers (SetInduction).        *)
(***************************************************************************)
EXTENDS Text, FiniteSetTheorems, SequenceTheorems, TLAPS

-----------------------------------------------------------------------------
(* Finite sets. *)

(* Induction over the natural numbers, for a set of them. *)
LEMMA SetInduction ==
  ASSUME NEW T \in SUBSET Nat, 0 \in T, \A n \in T : n + 1 \in T
  PROVE  T = Nat
<1> SUFFICES ASSUME T # Nat PROVE FALSE
  OBVIOUS
<1> DEFINE Bad == {1..n : n \in Nat \ T}
<1>1. IsWellFoundedOn(StrictSubsetOrdering(Nat), FiniteSubsetsOf(Nat))
  BY FS_StrictSubsetOrderingWellFounded
<1>2. Bad \subseteq FiniteSubsetsOf(Nat)
  <2> SUFFICES ASSUME NEW n \in Nat \ T PROVE 1..n \in FiniteSubsetsOf(Nat)
    OBVIOUS
  <2>1. PICK one \in Int : one = 1
    OBVIOUS
  <2>2. IsFiniteSet(one..n)
    BY FS_Interval
  <2>3. 1..n \in SUBSET Nat
    OBVIOUS
  <2> QED BY <2>1, <2>2, <2>3 DEF FiniteSubsetsOf
<1>3. Bad # {}
  OBVIOUS
<1> HIDE DEF Bad
<1>4. \E x \in Bad : \A y \in Bad : ~(<<y, x>> \in StrictSubsetOrdering(Nat))
  BY <1>1, <1>2, <1>3, WFMin
<1>5. PICK x \in Bad : \A y \in Bad : ~(<<y, x>> \in StrictSubsetOrdering(Nat))
  BY <1>4
<1>6. PICK m \in Nat \ T : x = 1..m
  BY DEF Bad
<1>7. m # 0 /\ m - 1 \in Nat /\ (m - 1) + 1 = m
  OBVIOUS
<1>8. m - 1 \notin T
  BY <1>7
<1>9. 1..(m - 1) \in Bad
  BY <1>7, <1>8 DEF Bad
<1>10. 1..(m - 1) \subseteq 1..m /\ 1..(m - 1) # 1..m
  <2>1. m \in 1..m /\ m \notin 1..(m - 1)
    BY <1>7
  <2>2. 1..(m - 1) \subseteq 1..m
    OBVIOUS
  <2> QED BY <2>1, <2>2
<1>11. <<1..(m - 1), x>> \in StrictSubsetOrdering(Nat)
  <2>1. 1..(m - 1) \in SUBSET Nat /\ 1..m \in SUBSET Nat
    OBVIOUS
  <2> QED BY <1>6, <1>10, <2>1 DEF StrictSubsetOrdering
<1> QED BY <1>5, <1>9, <1>11

(* The union of two finite sets is finite. *)
LEMMA FiniteTwo ==
  ASSUME NEW A, NEW B, IsFiniteSet(A), IsFiniteSet(B)
  PROVE  IsFiniteSet(A \cup B)
<1> DEFINE T == {n \in Nat : \A C \in SUBSET B :
                    IsFiniteSet(C) /\ Cardinality(C) = n => IsFiniteSet(A \cup C)}
<1>1. 0 \in T
  <2> SUFFICES ASSUME NEW C \in SUBSET B, IsFiniteSet(C), Cardinality(C) = 0
               PROVE  IsFiniteSet(A \cup C)
    OBVIOUS
  <2>1. C = {}
    BY FS_EmptySet
  <2>2. A \cup C = A
    BY <2>1
  <2> QED BY <2>2
<1>2. ASSUME NEW n \in T PROVE n + 1 \in T
  <2> SUFFICES ASSUME NEW C \in SUBSET B, IsFiniteSet(C), Cardinality(C) = n + 1
               PROVE  IsFiniteSet(A \cup C)
    OBVIOUS
  <2>1. C # {}
    BY FS_EmptySet
  <2>2. PICK x : x \in C
    BY <2>1
  <2>3. IsFiniteSet(C \ {x}) /\ Cardinality(C \ {x}) = Cardinality(C) - 1
    BY <2>2, FS_RemoveElement
  <2>4. Cardinality(C \ {x}) = n
    BY <2>3
  <2>5. IsFiniteSet(A \cup (C \ {x}))
    BY <2>3, <2>4
  <2>6. PICK D : D = A \cup (C \ {x})
    OBVIOUS
  <2>7. IsFiniteSet(D \cup {x})
    BY <2>5, <2>6, FS_AddElement
  <2>8. D \cup {x} = A \cup C
    BY <2>2, <2>6
  <2> QED BY <2>7, <2>8
<1>3. T = Nat
  <2>1. T \in SUBSET Nat
    OBVIOUS
  <2> HIDE DEF T
  <2> QED BY <1>1, <1>2, <2>1, SetInduction
<1>4. Cardinality(B) \in T
  BY <1>3, FS_CardinalityType
<1> QED BY <1>4

(* The union of finitely many finite sets is finite. *)
LEMMA FiniteUnion ==
  ASSUME NEW n \in Nat, NEW W, \A i \in 1..n : IsFiniteSet(W[i])
  PROVE  IsFiniteSet(UNION {W[i] : i \in 1..n})
<1> DEFINE U(m) == UNION {W[i] : i \in 1..m}
           T == {m \in Nat : m <= n => IsFiniteSet(U(m))}
<1>1. 0 \in T
  <2>1. U(0) = {}
    OBVIOUS
  <2> QED BY <2>1, FS_EmptySet
<1>2. ASSUME NEW m \in T PROVE m + 1 \in T
  <2> SUFFICES ASSUME m + 1 <= n PROVE IsFiniteSet(U(m + 1))
    OBVIOUS
  <2>1. IsFiniteSet(U(m)) /\ IsFiniteSet(W[m + 1])
    OBVIOUS
  <2>2. U(m + 1) = U(m) \cup W[m + 1]
    <3>1. 1..(m + 1) = (1..m) \cup {m + 1}
      OBVIOUS
    <3> QED BY <3>1, Zenon
  <2> HIDE DEF U
  <2> QED BY <2>1, <2>2, FiniteTwo
<1>3. T = Nat
  <2>1. T \in SUBSET Nat
    OBVIOUS
  <2> HIDE DEF T
  <2> QED BY <1>1, <1>2, <2>1, SetInduction
<1> QED BY <1>3

(* A finite set of numbers gives finitely many places in a line. *)
LEMMA FiniteRow ==
  ASSUME NEW i, NEW S, IsFiniteSet(S)
  PROVE  IsFiniteSet({<<i, j>> : j \in S})
<1> DEFINE R == {<<i, j>> : j \in S}
           f == [j \in S |-> <<i, j>>]
<1>1. f \in Surjection(S, R)
  BY DEF Surjection
<1> QED BY <1>1, FS_Surjection

(* Every message has a number of lines at every width. *)
LEMMA LinesType ==
  ASSUME NEW t \in Message, NEW w
  PROVE  Lines(t, w) \in Nat
<1> DEFINE Starts(i) == {h \in DOMAIN t[i] : StartsLine(t[i], w, h)}
           Row(i) == {<<i, j>> : j \in Starts(i)}
           W == [i \in DOMAIN t |-> Row(i)]
           Blanks == {h \in DOMAIN t : KeptBlank(t, h)}
           Empties == {<<i, 0>> : i \in Blanks}
<1>1. Len(t) \in Nat /\ DOMAIN t = 1..Len(t)
  BY DEF Message
<1>2. ASSUME NEW n \in Nat PROVE IsFiniteSet(1..n)
  <2>1. PICK one \in Int : one = 1
    OBVIOUS
  <2>2. IsFiniteSet(one..n)
    BY FS_Interval
  <2> QED BY <2>1, <2>2
<1>3. ASSUME NEW i \in DOMAIN t PROVE IsFiniteSet(W[i])
  <2>1. t[i] \in Seq(Nat)
    BY DEF Message, Line
  <2>2. Len(t[i]) \in Nat /\ DOMAIN t[i] = 1..Len(t[i])
    BY <2>1
  <2>3. IsFiniteSet(DOMAIN t[i])
    BY <1>2, <2>2
  <2>4. Starts(i) \in SUBSET DOMAIN t[i]
    OBVIOUS
  <2>5. IsFiniteSet(Starts(i))
    BY <2>3, <2>4, FS_Subset
  <2> HIDE DEF Starts
  <2>6. IsFiniteSet(Row(i))
    BY <2>5, FiniteRow
  <2> QED BY <2>6
<1>4. IsFiniteSet(UNION {W[i] : i \in 1..Len(t)})
  <2> HIDE DEF W
  <2> QED BY <1>1, <1>3, FiniteUnion
<1>5. IsFiniteSet(Empties)
  <2>1. Blanks \in SUBSET DOMAIN t
    OBVIOUS
  <2>2. IsFiniteSet(DOMAIN t)
    BY <1>1, <1>2
  <2>3. IsFiniteSet(Blanks)
    BY <2>1, <2>2, FS_Subset
  <2> DEFINE f == [i \in Blanks |-> <<i, 0>>]
  <2> HIDE DEF Blanks
  <2>4. f \in Surjection(Blanks, Empties)
    BY DEF Surjection
  <2> QED BY <2>3, <2>4, FS_Surjection
<1>6. Wrapped(t, w) = Empties \cup UNION {W[i] : i \in 1..Len(t)}
  <2>1. Wrapped(t, w) = Empties \cup UNION {Row(i) : i \in DOMAIN t}
    BY Zenon DEF Wrapped
  <2>2. \A i \in DOMAIN t : W[i] = Row(i)
    OBVIOUS
  <2> HIDE DEF W, Row
  <2>3. {W[i] : i \in DOMAIN t} = {Row(i) : i \in DOMAIN t}
    BY <2>2
  <2> QED BY <1>1, <2>1, <2>3
<1>7. IsFiniteSet(Wrapped(t, w))
  <2> HIDE DEF Empties, W
  <2> QED BY <1>4, <1>5, <1>6, FiniteTwo
<1> QED BY <1>7, FS_CardinalityType DEF Lines

-----------------------------------------------------------------------------
(* Recursive functions. *)

(* A recursion over 1..n that starts from b and steps by h has a solution. *)
LEMMA Recursion ==
  ASSUME NEW n \in Nat, NEW b \in Nat, NEW h \in [(1..n) \X Nat -> Nat]
  PROVE  \E f \in [0..n -> Nat] :
             f[0] = b /\ \A i \in 1..n : f[i] = h[<<i, f[i - 1]>>]
<1> DEFINE Solves(f, m) == f[0] = b /\ \A i \in 1..m : f[i] = h[<<i, f[i - 1]>>]
           T == {m \in Nat : m <= n => \E f \in [0..m -> Nat] : Solves(f, m)}
<1>1. 0 \in T
  <2> DEFINE f == [i \in 0..0 |-> b]
  <2>1. f \in [0..0 -> Nat] /\ Solves(f, 0)
    OBVIOUS
  <2> QED BY <2>1
<1>2. ASSUME NEW m \in T PROVE m + 1 \in T
  <2>0. m + 1 \in Nat
    OBVIOUS
  <2> HIDE DEF Solves
  <2> SUFFICES ASSUME m + 1 <= n
               PROVE  \E f \in [0..(m + 1) -> Nat] : Solves(f, m + 1)
    BY <2>0
  <2> USE DEF Solves
  <2>1. m \in Nat /\ m <= n
    OBVIOUS
  <2>2. PICK g \in [0..m -> Nat] : Solves(g, m)
    BY <2>1
  <2> DEFINE f == [i \in 0..(m + 1) |-> IF i = m + 1 THEN h[<<m + 1, g[m]>>] ELSE g[i]]
  <2>3. h[<<m + 1, g[m]>>] \in Nat
    <3>1. g[m] \in Nat /\ m + 1 \in 1..n
      BY <2>1
    <3> QED BY <3>1
  <2>4. f \in [0..(m + 1) -> Nat]
    BY <2>1, <2>3
  <2>5. \A i \in 0..m : f[i] = g[i]
    BY <2>1
  <2>6. f[m + 1] = h[<<m + 1, g[m]>>]
    BY <2>1
  <2> HIDE DEF f
  <2>7. Solves(f, m + 1)
    <3>1. f[0] = b
      BY <2>1, <2>2, <2>5
    <3>2. ASSUME NEW i \in 1..(m + 1) PROVE f[i] = h[<<i, f[i - 1]>>]
      <4>1. CASE i = m + 1
        <5>1. i - 1 = m /\ f[m] = g[m]
          BY <4>1, <2>1, <2>5
        <5> QED BY <4>1, <5>1, <2>6
      <4>2. CASE i # m + 1
        <5>1. i \in 1..m /\ i \in 0..m /\ i - 1 \in 0..m
          BY <4>2, <2>1
        <5>2. f[i] = g[i] /\ f[i - 1] = g[i - 1]
          BY <5>1, <2>5
        <5> QED BY <5>1, <5>2, <2>2
      <4> QED BY <4>1, <4>2
    <3> QED BY <3>1, <3>2
  <2> QED BY <2>4, <2>7
<1>3. T = Nat
  <2>1. T \in SUBSET Nat
    OBVIOUS
  <2> HIDE DEF T
  <2> QED BY <1>1, <1>2, <2>1, SetInduction
<1>4. n <= n => \E f \in [0..n -> Nat] : Solves(f, n)
  <2> HIDE DEF Solves
  <2> QED BY <1>3
<1> QED BY <1>4

(* A function whose values stay numbers from one place to the next. *)
LEMMA StepwiseType ==
  ASSUME NEW n \in Nat, NEW f, 1 <= n => f[1] \in Nat,
         \A i \in 2..n : f[i - 1] \in Nat => f[i] \in Nat
  PROVE  \A i \in 1..n : f[i] \in Nat
<1> DEFINE T == {m \in Nat : m \in 1..n => f[m] \in Nat}
<1>1. 0 \in T
  OBVIOUS
<1>2. ASSUME NEW m \in T PROVE m + 1 \in T
  <2>1. CASE m = 0
    BY <2>1
  <2>2. CASE m # 0 /\ m + 1 <= n
    <3>1. m \in 1..n /\ m + 1 \in 2..n /\ (m + 1) - 1 = m
      BY <2>2
    <3> QED BY <3>1
  <2>3. CASE m + 1 > n
    BY <2>3
  <2> QED BY <2>1, <2>2, <2>3
<1>3. T = Nat
  <2>1. T \in SUBSET Nat
    OBVIOUS
  <2> HIDE DEF T
  <2> QED BY <1>1, <1>2, <2>1, SetInduction
<1> QED BY <1>3

(* The equation of Ends. *)
LEMMA EndsEquation ==
  ASSUME NEW l \in Line
  PROVE  /\ Ends(l) \in [DOMAIN l -> Nat]
         /\ \A j \in DOMAIN l :
                Ends(l)[j] = IF j = 1 THEN l[1] ELSE Ends(l)[j - 1] + 1 + l[j]
<1>1. Len(l) \in Nat /\ DOMAIN l = 1..Len(l) /\ \A j \in DOMAIN l : l[j] \in Nat
  BY DEF Line
<1>2. PICK n \in Nat : n = Len(l)
  BY <1>1
<1> DEFINE Solves(e) ==
        e = [j \in DOMAIN l |-> IF j = 1 THEN l[1] ELSE e[j - 1] + 1 + l[j]]
<1>3. \E e : Solves(e)
  <2> DEFINE h == [p \in (1..n) \X Nat |-> IF p[1] = 1 THEN l[1] ELSE p[2] + 1 + l[p[1]]]
  <2>1. h \in [(1..n) \X Nat -> Nat]
    BY <1>1, <1>2
  <2>2. \A i \in 1..n, x \in Nat : h[<<i, x>>] = IF i = 1 THEN l[1] ELSE x + 1 + l[i]
    OBVIOUS
  <2> HIDE DEF h
  <2>3. PICK f \in [0..n -> Nat] : \A i \in 1..n : f[i] = h[<<i, f[i - 1]>>]
    <3>1. 0 \in Nat
      OBVIOUS
    <3> QED BY <2>1, <3>1, Recursion
  <2> DEFINE e == [j \in 1..n |-> f[j]]
  <2>4. ASSUME NEW j \in 1..n
        PROVE  e[j] = IF j = 1 THEN l[1] ELSE e[j - 1] + 1 + l[j]
    <3>1. f[j - 1] \in Nat /\ (j # 1 => j - 1 \in 1..n)
      OBVIOUS
    <3>2. f[j] = IF j = 1 THEN l[1] ELSE f[j - 1] + 1 + l[j]
      BY <2>2, <2>3, <3>1
    <3> QED BY <3>1, <3>2
  <2>5. e = [j \in 1..n |-> e[j]]
    OBVIOUS
  <2> HIDE DEF e
  <2>6. e = [j \in 1..n |-> IF j = 1 THEN l[1] ELSE e[j - 1] + 1 + l[j]]
    BY <2>4, <2>5, Zenon
  <2> QED BY <1>1, <1>2, <2>6
<1>4. Ends(l) = CHOOSE e : Solves(e)
  BY Zenon DEF Ends
<1>5. Solves(Ends(l))
  BY <1>3, <1>4, Zenon
<1>6. PICK e : e = Ends(l)
  OBVIOUS
<1>7. e = [j \in 1..n |-> IF j = 1 THEN l[1] ELSE e[j - 1] + 1 + l[j]]
  BY <1>1, <1>2, <1>5, <1>6
<1>8. \A j \in 1..n : e[j] = IF j = 1 THEN l[1] ELSE e[j - 1] + 1 + l[j]
  BY <1>7
<1>9. \A j \in 1..n : e[j] \in Nat
  <2>1. 1 <= n => e[1] \in Nat
    BY <1>1, <1>2, <1>8
  <2>2. \A i \in 2..n : e[i - 1] \in Nat => e[i] \in Nat
    BY <1>1, <1>2, <1>8
  <2> QED BY <2>1, <2>2, StepwiseType
<1>10. e \in [1..n -> Nat]
  BY <1>7, <1>9
<1> QED BY <1>1, <1>2, <1>6, <1>8, <1>10

(* The equation of Columns. *)
LEMMA ColumnsEquation ==
  ASSUME NEW l \in Line, NEW w \in Int
  PROVE  /\ Columns(l, w) \in [DOMAIN l -> Nat]
         /\ \A j \in DOMAIN l :
                Columns(l, w)[j] = IF j > 1 /\ Fits(Columns(l, w)[j - 1], l[j], w)
                                   THEN Columns(l, w)[j - 1] + 1 + l[j] ELSE l[j]
<1>1. Len(l) \in Nat /\ DOMAIN l = 1..Len(l) /\ \A j \in DOMAIN l : l[j] \in Nat
  BY DEF Line
<1>2. PICK n \in Nat : n = Len(l)
  BY <1>1
<1> DEFINE Solves(c) ==
        c = [j \in DOMAIN l |-> IF j > 1 /\ Fits(c[j - 1], l[j], w)
                                THEN c[j - 1] + 1 + l[j] ELSE l[j]]
<1>3. \E c : Solves(c)
  <2> DEFINE h == [p \in (1..n) \X Nat |->
                      IF p[1] > 1 /\ Fits(p[2], l[p[1]], w)
                      THEN p[2] + 1 + l[p[1]] ELSE l[p[1]]]
  <2>1. h \in [(1..n) \X Nat -> Nat]
    BY <1>1, <1>2
  <2>2. \A i \in 1..n, x \in Nat :
            h[<<i, x>>] = IF i > 1 /\ Fits(x, l[i], w) THEN x + 1 + l[i] ELSE l[i]
    OBVIOUS
  <2> HIDE DEF h
  <2>3. PICK f \in [0..n -> Nat] : \A i \in 1..n : f[i] = h[<<i, f[i - 1]>>]
    <3>1. 0 \in Nat
      OBVIOUS
    <3> QED BY <2>1, <3>1, Recursion
  <2> DEFINE c == [j \in 1..n |-> f[j]]
  <2>4. ASSUME NEW j \in 1..n
        PROVE  c[j] = IF j > 1 /\ Fits(c[j - 1], l[j], w)
                      THEN c[j - 1] + 1 + l[j] ELSE l[j]
    <3>1. f[j - 1] \in Nat /\ (j > 1 => j - 1 \in 1..n)
      OBVIOUS
    <3>2. f[j] = IF j > 1 /\ Fits(f[j - 1], l[j], w) THEN f[j - 1] + 1 + l[j] ELSE l[j]
      BY <2>2, <2>3, <3>1
    <3> QED BY <3>1, <3>2
  <2>5. c = [j \in 1..n |-> c[j]]
    OBVIOUS
  <2> HIDE DEF c
  <2>6. c = [j \in 1..n |-> IF j > 1 /\ Fits(c[j - 1], l[j], w)
                            THEN c[j - 1] + 1 + l[j] ELSE l[j]]
    BY <2>4, <2>5, Zenon
  <2> QED BY <1>1, <1>2, <2>6
<1>4. Columns(l, w) = CHOOSE c : Solves(c)
  BY Zenon DEF Columns
<1>5. Solves(Columns(l, w))
  BY <1>3, <1>4, Zenon
<1>6. PICK c : c = Columns(l, w)
  OBVIOUS
<1>7. c = [j \in 1..n |-> IF j > 1 /\ Fits(c[j - 1], l[j], w)
                          THEN c[j - 1] + 1 + l[j] ELSE l[j]]
  BY <1>1, <1>2, <1>5, <1>6
<1>8. \A j \in 1..n : c[j] = IF j > 1 /\ Fits(c[j - 1], l[j], w)
                             THEN c[j - 1] + 1 + l[j] ELSE l[j]
  BY <1>7
<1>9. \A j \in 1..n : c[j] \in Nat
  <2>1. 1 <= n => c[1] \in Nat
    BY <1>1, <1>2, <1>8
  <2>2. \A i \in 2..n : c[i - 1] \in Nat => c[i] \in Nat
    BY <1>1, <1>2, <1>8
  <2> QED BY <2>1, <2>2, StepwiseType
<1>10. c \in [1..n -> Nat]
  BY <1>7, <1>9
<1> QED BY <1>1, <1>2, <1>6, <1>8, <1>10

-----------------------------------------------------------------------------
(* The length of a line. *)

LEMMA LineLenType ==
  ASSUME NEW l \in Line
  PROVE  LineLen(l) \in Nat
<1>1. Len(l) \in Nat /\ DOMAIN l = 1..Len(l) /\ (l # << >> => Len(l) \in DOMAIN l)
  BY EmptySeq DEF Line
<1>2. PICK e \in [DOMAIN l -> Nat] : e = Ends(l)
  BY EndsEquation
<1>3. l # << >> => e[Len(l)] \in Nat
  BY <1>1, <1>2
<1> QED BY <1>2, <1>3 DEF LineLen

(* A line of one word is as long as the word. *)
LEMMA LineLenOne ==
  ASSUME NEW x \in Nat
  PROVE  <<x>> \in Line /\ LineLen(<<x>>) = x
<1>0. <<x>> \in Seq(Nat)
  OBVIOUS
<1>1. PICK l \in Line : l = <<x>>
  BY <1>0, Zenon DEF Line
<1>2. Len(l) = 1 /\ l # << >> /\ l[1] = x /\ 1 \in DOMAIN l
  BY <1>1
<1>3. Ends(l)[1] = l[1]
  BY <1>2, EndsEquation
<1> QED BY <1>1, <1>2, <1>3 DEF LineLen

(* Ends looks at no later word. *)
LEMMA EndsAppend ==
  ASSUME NEW l \in Line, NEW x \in Nat
  PROVE  \A j \in DOMAIN l : Ends(Append(l, x))[j] = Ends(l)[j]
<1>1. Len(l) \in Nat /\ DOMAIN l = 1..Len(l) /\ \A j \in DOMAIN l : l[j] \in Nat
  BY DEF Line
<1>2. PICK n \in Nat : n = Len(l)
  BY <1>1
<1>3. PICK m \in Line : m = Append(l, x)
  BY AppendProperties DEF Line
<1>4. DOMAIN m = 1..(n + 1) /\ \A j \in 1..n : m[j] = l[j]
  BY <1>1, <1>2, <1>3, AppendProperties DEF Line
<1>5. PICK e : e = Ends(l)
  OBVIOUS
<1>6. PICK g : g = Ends(m)
  OBVIOUS
<1>7. \A j \in 1..n : e[j] = IF j = 1 THEN l[1] ELSE e[j - 1] + 1 + l[j]
  BY <1>1, <1>2, <1>5, EndsEquation
<1>8. \A j \in 1..(n + 1) : g[j] = IF j = 1 THEN m[1] ELSE g[j - 1] + 1 + m[j]
  BY <1>4, <1>6, EndsEquation
<1> DEFINE T == {j \in Nat : j \in 1..n => g[j] = e[j]}
<1>9. 0 \in T
  OBVIOUS
<1>10. ASSUME NEW j \in T PROVE j + 1 \in T
  <2>1. CASE j = 0
    BY <2>1, <1>4, <1>7, <1>8
  <2>2. CASE j # 0 /\ j + 1 <= n
    <3>1. j \in 1..n /\ j + 1 \in 1..n /\ j + 1 \in 1..(n + 1) /\ (j + 1) - 1 = j
          /\ j + 1 # 1
      BY <2>2
    <3>2. g[j] = e[j] /\ m[j + 1] = l[j + 1]
      BY <3>1, <1>4
    <3> QED BY <3>1, <3>2, <1>7, <1>8
  <2>3. CASE j + 1 > n
    BY <2>3
  <2> QED BY <2>1, <2>2, <2>3
<1>11. T = Nat
  <2>1. T \in SUBSET Nat
    OBVIOUS
  <2> HIDE DEF T
  <2> QED BY <1>9, <1>10, <2>1, SetInduction
<1> QED BY <1>1, <1>2, <1>3, <1>5, <1>6, <1>11

(* One word more takes its length and a space. *)
LEMMA LineLenAppend ==
  ASSUME NEW l \in Line, l # << >>, NEW x \in Nat
  PROVE  Append(l, x) \in Line /\ LineLen(Append(l, x)) = LineLen(l) + 1 + x
<1>1. Len(l) \in Nat \ {0} /\ DOMAIN l = 1..Len(l)
  BY EmptySeq DEF Line
<1>2. PICK n \in Nat \ {0} : n = Len(l)
  BY <1>1
<1>3. PICK m \in Line : m = Append(l, x)
  BY AppendProperties DEF Line
<1>4. Len(m) = n + 1 /\ DOMAIN m = 1..(n + 1) /\ m[n + 1] = x /\ m # << >>
  BY <1>1, <1>2, <1>3, AppendProperties DEF Line
<1>5. Ends(m)[n] = Ends(l)[n]
  BY <1>1, <1>2, <1>3, EndsAppend
<1>6. Ends(m)[n + 1] = Ends(m)[(n + 1) - 1] + 1 + m[n + 1]
  <2>1. n + 1 \in DOMAIN m /\ n + 1 # 1
    BY <1>4
  <2> QED BY <2>1, EndsEquation
<1>7. (n + 1) - 1 = n
  OBVIOUS
<1>8. LineLen(m) = Ends(m)[n + 1] /\ LineLen(l) = Ends(l)[n]
  BY <1>2, <1>4 DEF LineLen
<1> QED BY <1>3, <1>4, <1>5, <1>6, <1>7, <1>8

-----------------------------------------------------------------------------
(* The length of a text, and the cut that keeps to a limit. *)

(* Its equation. *)
LEMMA TotalEquation ==
  ASSUME NEW ls \in Message
  PROVE  \E f \in [0..Len(ls) -> Nat] :
             /\ f[0] = 0
             /\ \A i \in 1..Len(ls) : f[i] = f[i - 1] + LineLen(ls[i]) + 1
             /\ totalLen(ls) = f[Len(ls)]
<1>1. Len(ls) \in Nat /\ DOMAIN ls = 1..Len(ls) /\ \A i \in DOMAIN ls : ls[i] \in Line
  BY DEF Message
<1>2. PICK n \in Nat : n = Len(ls)
  BY <1>1
<1>3. \A i \in 1..n : LineLen(ls[i]) \in Nat
  BY <1>1, <1>2, LineLenType
<1> DEFINE Solves(f) ==
        f = [i \in 0..n |-> IF i = 0 THEN 0 ELSE f[i - 1] + LineLen(ls[i]) + 1]
<1>4. \E f : Solves(f)
  <2> DEFINE h == [p \in (1..n) \X Nat |-> p[2] + LineLen(ls[p[1]]) + 1]
  <2>1. h \in [(1..n) \X Nat -> Nat]
    BY <1>3
  <2>2. \A i \in 1..n, x \in Nat : h[<<i, x>>] = x + LineLen(ls[i]) + 1
    OBVIOUS
  <2> HIDE DEF h
  <2>3. PICK f \in [0..n -> Nat] : f[0] = 0 /\ \A i \in 1..n : f[i] = h[<<i, f[i - 1]>>]
    <3>1. 0 \in Nat
      OBVIOUS
    <3> QED BY <2>1, <3>1, Recursion
  <2>4. ASSUME NEW i \in 0..n
        PROVE  f[i] = IF i = 0 THEN 0 ELSE f[i - 1] + LineLen(ls[i]) + 1
    <3>1. CASE i = 0
      BY <3>1, <2>3
    <3>2. CASE i # 0
      <4>1. i \in 1..n /\ f[i - 1] \in Nat
        BY <3>2
      <4> QED BY <3>2, <4>1, <2>2, <2>3
    <3> QED BY <3>1, <3>2
  <2>5. f = [i \in 0..n |-> f[i]]
    OBVIOUS
  <2>6. f = [i \in 0..n |-> IF i = 0 THEN 0 ELSE f[i - 1] + LineLen(ls[i]) + 1]
    BY <2>4, <2>5, Zenon
  <2> QED BY <2>6
<1> DEFINE total == CHOOSE f : Solves(f)
<1>5. totalLen(ls) = total[Len(ls)]
  BY <1>2, Zenon DEF totalLen
<1>6. Solves(total)
  BY <1>4, Zenon
<1>7. PICK f : f = total
  OBVIOUS
<1>8. f = [i \in 0..n |-> IF i = 0 THEN 0 ELSE f[i - 1] + LineLen(ls[i]) + 1]
  BY <1>6, <1>7
<1> HIDE DEF total
<1>9. \A i \in 0..n : f[i] = IF i = 0 THEN 0 ELSE f[i - 1] + LineLen(ls[i]) + 1
  BY <1>8
<1>10. f[0] = 0 /\ \A i \in 1..n : f[i] = f[i - 1] + LineLen(ls[i]) + 1
  BY <1>9
<1>11. \A i \in 1..n : f[i] \in Nat
  <2>1. 1 <= n => f[1] \in Nat
    <3> SUFFICES ASSUME 1 <= n PROVE f[1] \in Nat
      OBVIOUS
    <3>1. 1 \in 1..n /\ 1 - 1 = 0
      OBVIOUS
    <3>2. f[1] = 0 + LineLen(ls[1]) + 1
      BY <1>10, <3>1
    <3> QED BY <1>3, <3>1, <3>2
  <2>2. \A i \in 2..n : f[i - 1] \in Nat => f[i] \in Nat
    <3> SUFFICES ASSUME NEW i \in 2..n, f[i - 1] \in Nat PROVE f[i] \in Nat
      OBVIOUS
    <3>1. i \in 1..n
      OBVIOUS
    <3> QED BY <1>3, <1>10, <3>1
  <2> QED BY <2>1, <2>2, StepwiseType
<1>12. f \in [0..n -> Nat]
  <2>1. \A i \in 0..n : i = 0 \/ i \in 1..n
    OBVIOUS
  <2>2. \A i \in 0..n : f[i] \in Nat
    BY <1>10, <1>11, <2>1
  <2> QED BY <1>8, <2>2
<1> QED BY <1>2, <1>5, <1>7, <1>10, <1>12

(* The beginnings of a text are as long as they are within it. *)
LEMMA Totals ==
  ASSUME NEW ls \in Message
  PROVE  \E f \in [0..Len(ls) -> Nat] :
             /\ f[0] = 0
             /\ \A i \in 1..Len(ls) : f[i] = f[i - 1] + LineLen(ls[i]) + 1
             /\ \A k \in 0..Len(ls) : totalLen(SubSeq(ls, 1, k)) = f[k]
<1>1. ls \in Seq(Line) /\ Len(ls) \in Nat
  BY DEF Message
<1>2. PICK n \in Nat : n = Len(ls)
  BY <1>1
<1>3. PICK f \in [0..n -> Nat] :
          f[0] = 0 /\ \A i \in 1..n : f[i] = f[i - 1] + LineLen(ls[i]) + 1
  BY <1>2, TotalEquation
<1>4. ASSUME NEW k \in 0..n PROVE totalLen(SubSeq(ls, 1, k)) = f[k]
  <2>1. k \in Nat /\ k \in Int /\ 1 \in Int
    OBVIOUS
  <2>2. \A i \in 1..k : ls[i] \in Line
    BY <1>1, <1>2
  <2>3. /\ SubSeq(ls, 1, k) \in Seq(Line)
        /\ Len(SubSeq(ls, 1, k)) = IF 1 <= k THEN k - 1 + 1 ELSE 0
        /\ \A i \in 1..(k - 1 + 1) : SubSeq(ls, 1, k)[i] = ls[1 + i - 1]
    BY <2>1, <2>2, SubSeqProperties
  <2>4. PICK m : m = SubSeq(ls, 1, k)
    OBVIOUS
  <2>5. m \in Message /\ Len(m) = k /\ \A i \in 1..k : m[i] = ls[i]
    BY <2>1, <2>3, <2>4 DEF Message
  <2>6. PICK g \in [0..k -> Nat] : /\ g[0] = 0
                                   /\ \A i \in 1..k : g[i] = g[i - 1] + LineLen(m[i]) + 1
                                   /\ totalLen(m) = g[k]
    BY <2>5, TotalEquation
  <2> DEFINE T == {i \in Nat : i <= k => g[i] = f[i]}
  <2>7. 0 \in T
    BY <1>3, <2>6
  <2>8. ASSUME NEW i \in T PROVE i + 1 \in T
    <3> SUFFICES ASSUME i + 1 <= k PROVE g[i + 1] = f[i + 1]
      OBVIOUS
    <3>1. i + 1 \in 1..k /\ i + 1 \in 1..n /\ (i + 1) - 1 = i /\ g[i] = f[i]
      OBVIOUS
    <3>2. g[i + 1] = g[i] + LineLen(ls[i + 1]) + 1
      BY <3>1, <2>5, <2>6
    <3>3. f[i + 1] = f[i] + LineLen(ls[i + 1]) + 1
      BY <3>1, <1>3
    <3> QED BY <3>1, <3>2, <3>3
  <2>9. T = Nat
    <3>1. T \in SUBSET Nat
      OBVIOUS
    <3> HIDE DEF T
    <3> QED BY <2>7, <2>8, <3>1, SetInduction
  <2>10. g[k] = f[k]
    BY <2>1, <2>9
  <2> QED BY <2>4, <2>6, <2>10
<1> QED BY <1>2, <1>3, <1>4

(* An empty text has no length; a line more takes its length and a break. *)
LEMMA TotalEmpty == totalLen(<< >>) = 0
<1>1. PICK ls \in Message : ls = << >>
  BY EmptySeq DEF Message
<1>2. Len(ls) = 0
  BY <1>1
<1>3. PICK f \in [0..Len(ls) -> Nat] : f[0] = 0 /\ totalLen(ls) = f[Len(ls)]
  BY TotalEquation
<1> QED BY <1>1, <1>2, <1>3

LEMMA TotalType ==
  ASSUME NEW ls \in Message
  PROVE  totalLen(ls) \in Nat
<1>1. Len(ls) \in Nat
  BY DEF Message
<1>2. PICK f \in [0..Len(ls) -> Nat] : totalLen(ls) = f[Len(ls)]
  BY TotalEquation
<1> QED BY <1>1, <1>2

(* A longer beginning of a text is longer. *)
LEMMA TotalGrows ==
  ASSUME NEW ls \in Message, NEW k \in 0..Len(ls), NEW j \in 0..k
  PROVE  totalLen(SubSeq(ls, 1, j)) <= totalLen(SubSeq(ls, 1, k))
<1>1. Len(ls) \in Nat /\ \A i \in 1..Len(ls) : ls[i] \in Line
  BY DEF Message
<1>2. PICK n \in Nat : n = Len(ls)
  BY <1>1
<1>3. \A i \in 1..n : LineLen(ls[i]) \in Nat
  BY <1>1, <1>2, LineLenType
<1>4. PICK f \in [0..n -> Nat] :
          /\ f[0] = 0
          /\ \A i \in 1..n : f[i] = f[i - 1] + LineLen(ls[i]) + 1
          /\ \A i \in 0..n : totalLen(SubSeq(ls, 1, i)) = f[i]
  BY <1>2, Totals
<1> DEFINE T == {d \in Nat : j + d <= n => f[j] <= f[j + d]}
<1>5. 0 \in T
  <2>1. f[j] \in Nat /\ j + 0 = j
    BY <1>2
  <2> QED BY <2>1
<1>6. ASSUME NEW d \in T PROVE d + 1 \in T
  <2> SUFFICES ASSUME j + (d + 1) <= n PROVE f[j] <= f[j + (d + 1)]
    OBVIOUS
  <2>1. j + (d + 1) \in 1..n /\ j + d \in 0..n /\ j \in 0..n
        /\ (j + (d + 1)) - 1 = j + d /\ d \in Nat
    BY <1>2
  <2>2. f[j] <= f[j + d]
    BY <2>1
  <2>3. f[j + (d + 1)] = f[j + d] + LineLen(ls[j + (d + 1)]) + 1
    BY <1>4, <2>1
  <2>4. f[j] \in Nat /\ f[j + d] \in Nat /\ LineLen(ls[j + (d + 1)]) \in Nat
    BY <1>3, <2>1
  <2> HIDE DEF T
  <2> QED BY <2>2, <2>3, <2>4
<1>7. T = Nat
  <2>1. T \in SUBSET Nat
    OBVIOUS
  <2> HIDE DEF T
  <2> QED BY <1>5, <1>6, <2>1, SetInduction
<1>8. k - j \in T
  <2>1. k - j \in Nat
    BY <1>2
  <2> HIDE DEF T
  <2> QED BY <1>7, <2>1
<1>9. f[j] <= f[k]
  <2>1. j + (k - j) = k /\ k <= n
    BY <1>2
  <2> QED BY <1>8, <2>1
<1> QED BY <1>2, <1>4, <1>9

(* What truncateLines leaves is the longest beginning of the text that     *)
(* keeps to the limit.                                                     *)
THEOREM TruncateKeepsMost ==
  ASSUME NEW ls \in Message, NEW max \in Nat
  PROVE  \E k \in 0..Len(ls) :
             /\ truncateLines(ls, max) = SubSeq(ls, 1, k)
             /\ \A i \in 0..Len(ls) : totalLen(SubSeq(ls, 1, i)) <= max <=> i <= k
<1>1. Len(ls) \in Nat /\ DOMAIN ls = 1..Len(ls)
  BY DEF Message
<1>2. PICK n \in Nat : n = Len(ls)
  BY <1>1
<1>3. PICK f \in [0..n -> Nat] :
          f[0] = 0 /\ \A i \in 0..n : totalLen(SubSeq(ls, 1, i)) = f[i]
  BY <1>2, Totals
<1>4. ASSUME NEW i \in 0..n, NEW j \in 0..i PROVE f[j] <= f[i]
  <2>1. j \in 0..n
    OBVIOUS
  <2> QED BY <1>2, <1>3, <2>1, TotalGrows
<1> DEFINE K == {i \in DOMAIN ls : totalLen(SubSeq(ls, 1, i)) <= max}
<1>5. K = {i \in 1..n : f[i] <= max}
  BY <1>1, <1>2, <1>3
<1> HIDE DEF K
<1> DEFINE T == {m \in Nat : m <= n =>
                    \E k \in 0..m : \A i \in 1..m : f[i] <= max <=> i <= k}
<1>6. 0 \in T
  <2>1. \E k \in 0..0 : \A i \in 1..0 : f[i] <= max <=> i <= k
    OBVIOUS
  <2> QED BY <2>1
<1>7. ASSUME NEW m \in T PROVE m + 1 \in T
  <2> SUFFICES ASSUME m + 1 <= n
               PROVE  \E k \in 0..(m + 1) : \A i \in 1..(m + 1) : f[i] <= max <=> i <= k
    OBVIOUS
  <2>1. m \in Nat /\ m <= n /\ m + 1 \in 0..n
    OBVIOUS
  <2>2. PICK k \in 0..m : \A i \in 1..m : f[i] <= max <=> i <= k
    OBVIOUS
  <2> HIDE DEF T
  <2>3. CASE f[m + 1] <= max
    <3>1. \A i \in 1..(m + 1) : f[i] <= max
      <4> SUFFICES ASSUME NEW i \in 1..(m + 1) PROVE f[i] <= max
        OBVIOUS
      <4>1. i \in 0..(m + 1) /\ i \in 0..n
        BY <2>1
      <4>2. f[i] <= f[m + 1] /\ f[i] \in Nat /\ f[m + 1] \in Nat
        BY <1>4, <2>1, <4>1
      <4> QED BY <2>3, <4>2
    <3>2. m + 1 \in 0..(m + 1)
      BY <2>1
    <3> QED BY <3>1, <3>2
  <2>4. CASE ~(f[m + 1] <= max)
    <3>1. k \in 0..(m + 1) /\ ~(m + 1 <= k)
      BY <2>1
    <3>2. \A i \in 1..(m + 1) : i \in 1..m \/ i = m + 1
      BY <2>1
    <3>3. \A i \in 1..(m + 1) : f[i] <= max <=> i <= k
      BY <2>2, <2>4, <3>1, <3>2
    <3> QED BY <3>1, <3>3
  <2> QED BY <2>3, <2>4
<1>8. T = Nat
  <2>1. T \in SUBSET Nat
    OBVIOUS
  <2> HIDE DEF T
  <2> QED BY <1>6, <1>7, <2>1, SetInduction
<1>9. PICK k \in 0..n : \A i \in 1..n : f[i] <= max <=> i <= k
  <2>1. n \in T
    <3> HIDE DEF T
    <3> QED BY <1>8
  <2> QED BY <2>1
<1>10. K = 1..k
  BY <1>5, <1>9
<1>11. Cardinality(K) = k
  <2>1. PICK one \in Int : one = 1
    OBVIOUS
  <2>2. Cardinality(one..k) = IF one > k THEN 0 ELSE k - one + 1
    BY FS_Interval
  <2> QED BY <1>10, <2>1, <2>2
<1>12. truncateLines(ls, max) = SubSeq(ls, 1, k)
  BY <1>11 DEF truncateLines, K
<1>13. \A i \in 0..n : totalLen(SubSeq(ls, 1, i)) <= max <=> i <= k
  <2> SUFFICES ASSUME NEW i \in 0..n PROVE f[i] <= max <=> i <= k
    BY <1>3
  <2>1. CASE i = 0
    BY <1>3, <2>1
  <2>2. CASE i # 0
    BY <1>9, <2>2
  <2> QED BY <2>1, <2>2
<1> QED BY <1>2, <1>12, <1>13

LEMMA TruncateType ==
  ASSUME NEW ls \in Message, NEW max \in Nat
  PROVE  truncateLines(ls, max) \in Message
<1>1. ls \in Seq(Line) /\ Len(ls) \in Nat /\ \A i \in 1..Len(ls) : ls[i] \in Line
  BY DEF Message
<1>2. PICK k \in 0..Len(ls) : truncateLines(ls, max) = SubSeq(ls, 1, k)
  BY TruncateKeepsMost
<1>3. k \in Int /\ 1 \in Int /\ \A i \in 1..k : ls[i] \in Line
  BY <1>1
<1>4. SubSeq(ls, 1, k) \in Seq(Line)
  BY <1>3, SubSeqProperties
<1> QED BY <1>2, <1>4 DEF Message

(* A text that keeps to the limit until its last line loses that line.     *)
LEMMA TruncateLast ==
  ASSUME NEW ls \in Message, NEW l \in Line, NEW max \in Nat,
         totalLen(ls) <= max, totalLen(Append(ls, l)) > max
  PROVE  /\ truncateLines(Append(ls, l), max) = ls
         /\ ls = SubSeq(Append(ls, l), 1, Len(Append(ls, l)) - 1)
<1>1. ls \in Seq(Line) /\ Len(ls) \in Nat
  BY DEF Message
<1>2. PICK n \in Nat : n = Len(ls)
  BY <1>1
<1>3. PICK all : all = Append(ls, l)
  OBVIOUS
<1>4. all \in Message /\ Len(all) = n + 1 /\ \A i \in 1..n : all[i] = ls[i]
  BY <1>1, <1>2, <1>3, AppendProperties DEF Message
<1>5. SubSeq(all, 1, n) = ls
  <2>1. all \in Seq(Line)
    BY <1>4 DEF Message
  <2>2. SubSeq(all, 1, n) \in Seq(Line) /\ Len(SubSeq(all, 1, n)) = n
        /\ \A i \in 1..n : SubSeq(all, 1, n)[i] = all[i]
    BY <1>4, <2>1
  <2> QED BY <1>1, <1>2, <1>4, <2>2, SeqEqual
<1>6. SubSeq(all, 1, n + 1) = all
  BY <1>4, SubSeqFull DEF Message
<1>7. PICK k \in 0..(n + 1) :
          /\ truncateLines(all, max) = SubSeq(all, 1, k)
          /\ \A i \in 0..(n + 1) : totalLen(SubSeq(all, 1, i)) <= max <=> i <= k
  BY <1>4, TruncateKeepsMost
<1>8. totalLen(all) \in Nat /\ ~(totalLen(all) <= max)
  BY <1>3, <1>4, TotalType
<1>9. n \in 0..(n + 1) /\ n + 1 \in 0..(n + 1)
  OBVIOUS
<1>10. n <= k /\ ~(n + 1 <= k)
  BY <1>5, <1>6, <1>7, <1>8, <1>9
<1>11. k = n
  BY <1>10
<1> QED BY <1>3, <1>4, <1>5, <1>7, <1>11

-----------------------------------------------------------------------------
(* Wrapping. *)

LEMMA FitsType ==
  ASSUME NEW c \in Nat, NEW x \in Nat, NEW w \in Int
  PROVE  Fits(c, x, w) <=> c + 1 + x <= w
BY DEF Fits

(* The words from a place to the next: a line of one, or one word more. *)
LEMMA WordsFrom ==
  ASSUME NEW l \in Line, NEW j \in DOMAIN l, NEW k \in j..Len(l)
  PROVE  /\ SubSeq(l, j, k) \in Line /\ SubSeq(l, j, k) # << >>
         /\ LineLen(SubSeq(l, j, j)) = l[j]
         /\ k < Len(l) =>
                LineLen(SubSeq(l, j, k + 1)) = LineLen(SubSeq(l, j, k)) + 1 + l[k + 1]
<1>1. l \in Seq(Nat) /\ Len(l) \in Nat /\ j \in 1..Len(l) /\ \A i \in 1..Len(l) : l[i] \in Nat
  BY DEF Line
<1>2. ASSUME NEW h \in j..Len(l)
      PROVE  /\ SubSeq(l, j, h) \in Seq(Nat) /\ Len(SubSeq(l, j, h)) = h - j + 1
             /\ \A i \in 1..(h - j + 1) : SubSeq(l, j, h)[i] = l[j + i - 1]
  <2>1. j \in Int /\ h \in Int /\ j <= h /\ \A i \in j..h : l[i] \in Nat
    BY <1>1
  <2> QED BY <2>1, SubSeqProperties
<1>3. PICK m : m = SubSeq(l, j, k)
  OBVIOUS
<1>4. m \in Seq(Nat) /\ Len(m) = k - j + 1 /\ \A i \in 1..(k - j + 1) : m[i] = l[j + i - 1]
  BY <1>2, <1>3
<1>5. m \in Line /\ m # << >>
  BY <1>1, <1>4, EmptySeq DEF Line
<1>6. LineLen(SubSeq(l, j, j)) = l[j]
  <2>1. PICK o : o = SubSeq(l, j, j)
    OBVIOUS
  <2>2. j \in j..Len(l) /\ j - j + 1 = 1 /\ j + 1 - 1 = j /\ l[j] \in Nat
    BY <1>1
  <2>3. o \in Seq(Nat) /\ Len(o) = 1 /\ o[1] = l[j]
    <3>1. /\ o \in Seq(Nat) /\ Len(o) = j - j + 1
          /\ \A i \in 1..(j - j + 1) : o[i] = l[j + i - 1]
      BY <1>2, <2>1, <2>2
    <3>2. 1 \in 1..(j - j + 1)
      BY <2>2
    <3>3. o[1] = l[j + 1 - 1]
      BY <3>1, <3>2
    <3> QED BY <2>2, <3>1, <3>3
  <2>4. o = <<l[j]>>
    BY <2>2, <2>3
  <2> QED BY <2>1, <2>2, <2>4, LineLenOne
<1>7. ASSUME k < Len(l)
      PROVE  LineLen(SubSeq(l, j, k + 1)) = LineLen(m) + 1 + l[k + 1]
  <2>1. k + 1 \in j..Len(l) /\ l[k + 1] \in Nat /\ (k + 1) - j + 1 = (k - j + 1) + 1
        /\ k - j + 1 \in Nat
    BY <1>1, <1>7
  <2>2. PICK o : o = SubSeq(l, j, k + 1)
    OBVIOUS
  <2>3. o \in Seq(Nat) /\ Len(o) = (k - j + 1) + 1
        /\ \A i \in 1..((k - j + 1) + 1) : o[i] = l[j + i - 1]
    BY <1>2, <2>1, <2>2
  <2>4. PICK a : a = Append(m, l[k + 1])
    OBVIOUS
  <2>5. a \in Seq(Nat) /\ Len(a) = Len(m) + 1 /\ a[Len(m) + 1] = l[k + 1]
        /\ \A i \in 1..Len(m) : a[i] = m[i]
    BY <1>4, <2>1, <2>4, AppendProperties
  <2>6. \A i \in 1..Len(o) : o[i] = a[i]
    <3> SUFFICES ASSUME NEW i \in 1..((k - j + 1) + 1) PROVE o[i] = a[i]
      BY <2>3
    <3>1. CASE i = (k - j + 1) + 1
      <4>1. j + i - 1 = k + 1
        BY <3>1
      <4> QED BY <3>1, <4>1, <1>4, <2>3, <2>5
    <3>2. CASE i # (k - j + 1) + 1
      <4>1. i \in 1..(k - j + 1)
        BY <3>2, <2>1
      <4> QED BY <4>1, <1>4, <2>3, <2>5
    <3> QED BY <3>1, <3>2
  <2>7. o = a
    BY <1>4, <2>3, <2>5, <2>6, SeqEqual
  <2>8. LineLen(a) = LineLen(m) + 1 + l[k + 1]
    <3>1. PICK x \in Nat : x = l[k + 1]
      BY <2>1
    <3> QED BY <1>5, <2>4, <3>1, LineLenAppend
  <2> QED BY <2>2, <2>7, <2>8
<1> QED BY <1>3, <1>5, <1>6, <1>7

(* The words on an output line are those that fit, or one word alone; and  *)
(* while they are taken, Columns is the width of the line so far.          *)
LEMMA TakenStep ==
  ASSUME NEW l \in Line, NEW w \in Int, NEW j \in DOMAIN l, StartsLine(l, w, j),
         NEW k \in j..Len(l)
  PROVE  /\ k \in Taken(l, w, j) => Columns(l, w)[k] = LineLen(SubSeq(l, j, k))
         /\ k \in Taken(l, w, j) <=> k = j \/ LineLen(SubSeq(l, j, k)) <= w
<1>1. Len(l) \in Nat /\ DOMAIN l = 1..Len(l) /\ \A i \in 1..Len(l) : l[i] \in Nat
  BY DEF Line
<1>2. PICK n \in Nat : n = Len(l)
  BY <1>1
<1>3. j \in 1..n /\ k \in j..n /\ \A i \in 1..n : l[i] \in Nat
  BY <1>1, <1>2
<1>4. PICK c \in [1..n -> Nat] : c = Columns(l, w)
  BY <1>1, <1>2, ColumnsEquation
<1>5. \A i \in 1..n : c[i] = IF i > 1 /\ Fits(c[i - 1], l[i], w)
                             THEN c[i - 1] + 1 + l[i] ELSE l[i]
  BY <1>1, <1>2, <1>4, ColumnsEquation
<1>6. \A i \in 1..n : StartsLine(l, w, i) <=> i = 1 \/ ~Fits(c[i - 1], l[i], w)
  BY <1>4 DEF StartsLine
<1>7. \A i \in j..n : i \in Taken(l, w, j) <=> \A h \in (j + 1)..i : ~StartsLine(l, w, h)
  BY <1>2 DEF Taken
<1> DEFINE W(i) == LineLen(SubSeq(l, j, i))
           P(i) == /\ i \in Taken(l, w, j) => c[i] = W(i)
                   /\ i \in Taken(l, w, j) <=> i = j \/ W(i) <= w
           T == {d \in Nat : j + d <= n => P(j + d)}
<1>8. \A i \in j..n : W(i) \in Nat
  BY <1>2, WordsFrom, LineLenType
<1>9. W(j) = l[j] /\ \A i \in j..n : i < n => W(i + 1) = W(i) + 1 + l[i + 1]
  BY <1>2, <1>3, WordsFrom
<1> HIDE DEF W
<1>10. P(j)
  <2>1. j \in Taken(l, w, j)
    BY <1>3, <1>7
  <2>2. c[j] = l[j]
    BY <1>3, <1>5, <1>6
  <2> QED BY <1>9, <2>1, <2>2
<1>11. 0 \in T
  <2>1. j + 0 = j
    BY <1>3
  <2> HIDE DEF P
  <2> QED BY <1>10, <2>1
<1>12. ASSUME NEW i \in j..n, i < n, P(i) PROVE P(i + 1)
  <2>1. i \in 1..n /\ i + 1 \in 1..n /\ i + 1 \in j..n /\ (i + 1) - 1 = i /\ i + 1 > 1
        /\ i + 1 # j
    BY <1>3, <1>12
  <2>2. c[i] \in Nat /\ l[i + 1] \in Nat /\ W(i) \in Nat
        /\ W(i + 1) = W(i) + 1 + l[i + 1]
    BY <1>3, <1>8, <1>9, <1>12, <2>1
  <2>3. StartsLine(l, w, i + 1) <=> ~Fits(c[i], l[i + 1], w)
    BY <1>6, <2>1
  <2>4. i + 1 \in Taken(l, w, j) <=> i \in Taken(l, w, j) /\ ~StartsLine(l, w, i + 1)
    <3>1. \A h \in (j + 1)..(i + 1) : h \in (j + 1)..i \/ h = i + 1
      BY <2>1
    <3>2. i + 1 \in (j + 1)..(i + 1) /\ \A h \in (j + 1)..i : h \in (j + 1)..(i + 1)
      BY <1>3, <2>1
    <3> QED BY <1>7, <2>1, <3>1, <3>2
  <2>5. Fits(c[i], l[i + 1], w) <=> c[i] + 1 + l[i + 1] <= w
    BY <2>2, FitsType
  <2>6. c[i + 1] = IF Fits(c[i], l[i + 1], w) THEN c[i] + 1 + l[i + 1] ELSE l[i + 1]
    BY <1>5, <2>1
  <2>7. CASE i \in Taken(l, w, j)
    <3>1. c[i] = W(i)
      BY <2>7, <1>12
    <3> QED BY <3>1, <2>1, <2>2, <2>3, <2>4, <2>5, <2>6, <2>7
  <2>8. CASE i \notin Taken(l, w, j)
    <3>1. ~(W(i) <= w)
      BY <2>8, <1>12
    <3>2. ~(W(i + 1) <= w)
      BY <3>1, <2>2
    <3> QED BY <3>2, <2>1, <2>4, <2>8
  <2> QED BY <2>7, <2>8
<1>13. ASSUME NEW d \in T PROVE d + 1 \in T
  <2> HIDE DEF P
  <2> SUFFICES ASSUME j + (d + 1) <= n PROVE P(j + (d + 1))
    OBVIOUS
  <2>1. j + d \in j..n /\ j + d < n /\ j + (d + 1) = (j + d) + 1 /\ P(j + d)
    BY <1>3
  <2> QED BY <2>1, <1>12
<1>14. T = Nat
  <2>1. T \in SUBSET Nat
    OBVIOUS
  <2> HIDE DEF T
  <2> QED BY <1>11, <1>13, <2>1, SetInduction
<1>15. P(k)
  <2>1. k - j \in Nat /\ j + (k - j) = k /\ k <= n
    BY <1>3
  <2> HIDE DEF P
  <2> QED BY <1>14, <2>1
<1> QED BY <1>4, <1>15 DEF W

(* Every word is taken by the last output line that starts up to it. *)
LEMMA TakenByOne ==
  ASSUME NEW l \in Line, NEW w, NEW k \in DOMAIN l
  PROVE  \E j \in 1..k : /\ StartsLine(l, w, j) /\ k \in Taken(l, w, j)
                         /\ \A i \in DOMAIN l : StartsLine(l, w, i) /\ k \in Taken(l, w, i)
                                                   => i = j
<1>1. Len(l) \in Nat /\ DOMAIN l = 1..Len(l)
  BY DEF Line
<1>2. PICK n \in Nat : n = Len(l)
  BY <1>1
<1> DEFINE S(j) == StartsLine(l, w, j)
<1>3. S(1)
  BY DEF StartsLine
<1>4. \A i \in 1..n : k \in Taken(l, w, i) <=> i <= k /\ \A h \in (i + 1)..k : ~S(h)
  BY <1>1, <1>2 DEF Taken
<1> HIDE DEF S
<1> DEFINE T == {m \in Nat : m \in 1..n =>
                    \E j \in 1..m : S(j) /\ \A h \in (j + 1)..m : ~S(h)}
<1>5. 0 \in T
  OBVIOUS
<1>6. ASSUME NEW m \in T PROVE m + 1 \in T
  <2> SUFFICES ASSUME m + 1 \in 1..n
               PROVE  \E j \in 1..(m + 1) : S(j) /\ \A h \in (j + 1)..(m + 1) : ~S(h)
    OBVIOUS
  <2>0. m \in Nat
    OBVIOUS
  <2>1. CASE S(m + 1)
    <3>1. m + 1 \in 1..(m + 1) /\ \A h \in ((m + 1) + 1)..(m + 1) : ~S(h)
      BY <2>0
    <3> QED BY <2>1, <3>1
  <2>2. CASE ~S(m + 1)
    <3>1. m # 0
      BY <1>3, <2>2
    <3>2. PICK j \in 1..m : S(j) /\ \A h \in (j + 1)..m : ~S(h)
      BY <2>0, <3>1
    <3> HIDE DEF T
    <3>3. \A h \in (j + 1)..(m + 1) : h \in (j + 1)..m \/ h = m + 1
      BY <2>0
    <3>4. \A h \in (j + 1)..(m + 1) : ~S(h)
      BY <2>2, <3>2, <3>3
    <3> QED BY <2>0, <3>2, <3>4
  <2> QED BY <2>1, <2>2
<1>7. T = Nat
  <2>1. T \in SUBSET Nat
    OBVIOUS
  <2> HIDE DEF T
  <2> QED BY <1>5, <1>6, <2>1, SetInduction
<1>8. k \in 1..n /\ k \in Nat
  BY <1>1, <1>2
<1>9. PICK j \in 1..k : S(j) /\ \A h \in (j + 1)..k : ~S(h)
  <2>1. k \in T
    <3> HIDE DEF T
    <3> QED BY <1>7, <1>8
  <2> QED BY <1>8, <2>1
<1>10. j \in 1..n /\ j <= k /\ k \in Taken(l, w, j)
  <2>1. j \in 1..n /\ j <= k
    BY <1>8
  <2> QED BY <1>4, <1>9, <2>1
<1>11. ASSUME NEW i \in 1..n, S(i), k \in Taken(l, w, i) PROVE i = j
  <2>1. i <= k /\ \A h \in (i + 1)..k : ~S(h)
    BY <1>4, <1>11
  <2>2. ~(i < j)
    <3> SUFFICES ASSUME i < j PROVE FALSE
      OBVIOUS
    <3>1. j \in (i + 1)..k
      BY <1>10
    <3> QED BY <1>9, <2>1, <3>1
  <2>3. ~(j < i)
    <3> SUFFICES ASSUME j < i PROVE FALSE
      OBVIOUS
    <3>1. i \in (j + 1)..k
      BY <1>10, <2>1
    <3> QED BY <1>9, <1>11, <3>1
  <2> QED BY <2>2, <2>3
<1> QED BY <1>1, <1>2, <1>9, <1>10, <1>11 DEF S

(* Wrapping loses no word of a message and repeats none: each is on        *)
(* exactly one of its output lines, whatever the width (ansi.Wrap).        *)
THEOREM WrapKeepsWords ==
  ASSUME NEW t \in Message, NEW w, NEW i \in DOMAIN t, NEW k \in DOMAIN t[i]
  PROVE  \E p \in Wrapped(t, w) :
             /\ p[1] = i /\ p[2] # 0 /\ k \in Taken(t[i], w, p[2])
             /\ \A q \in Wrapped(t, w) :
                    q[1] = i /\ q[2] # 0 /\ k \in Taken(t[i], w, q[2]) => q = p
<1>1. t[i] \in Line
  BY DEF Message
<1>2. PICK l \in Line : l = t[i]
  BY <1>1
<1>3. Len(l) \in Nat /\ DOMAIN l = 1..Len(l)
  BY DEF Line
<1>4. PICK j \in 1..k : /\ StartsLine(l, w, j) /\ k \in Taken(l, w, j)
                        /\ \A h \in DOMAIN l : StartsLine(l, w, h) /\ k \in Taken(l, w, h)
                                                   => h = j
  BY <1>2, TakenByOne
<1>5. j \in DOMAIN l /\ j # 0
  BY <1>2, <1>3
<1>6. <<i, j>> \in Wrapped(t, w)
  BY <1>2, <1>4, <1>5 DEF Wrapped
<1>7. ASSUME NEW q \in Wrapped(t, w), q[1] = i, q[2] # 0, k \in Taken(l, w, q[2])
      PROVE  q = <<i, j>>
  <2>1. \/ \E h \in DOMAIN t : q = <<h, 0>>
        \/ \E h \in DOMAIN t : \E g \in DOMAIN t[h] : StartsLine(t[h], w, g) /\ q = <<h, g>>
    BY DEF Wrapped
  <2>2. PICK h \in DOMAIN t : \E g \in DOMAIN t[h] :
                StartsLine(t[h], w, g) /\ q = <<h, g>>
    BY <1>7, <2>1
  <2>3. PICK g \in DOMAIN t[h] : StartsLine(t[h], w, g) /\ q = <<h, g>>
    BY <2>2
  <2>4. h = i /\ g = q[2]
    BY <1>7, <2>3
  <2>5. g \in DOMAIN l /\ StartsLine(l, w, g) /\ k \in Taken(l, w, g)
    BY <1>2, <1>7, <2>3, <2>4
  <2>6. g = j
    BY <1>4, <2>5
  <2> QED BY <2>3, <2>4, <2>6
<1> QED BY <1>2, <1>4, <1>5, <1>6, <1>7
=============================================================================
