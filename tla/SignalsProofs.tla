----------------------------- MODULE SignalsProofs -----------------------------
(***************************************************************************)
(* Theorems about the struct table and the names of the generated VHDL,    *)
(* for every size of the tables and buffers, every set of names and        *)
(* structs, and programs of every length.                                  *)
(*                                                                         *)
(* The operators on names and fields are folds.  Induction(S) stands for   *)
(* induction over the numbers: a set S of numbers that holds 0, and with a *)
(* number the next one, holds all.  A fold is then known by a function     *)
(* from the number of elements folded to what has become of them.          *)
(***************************************************************************)
EXTENDS Signals, SequenceTheorems, WellFoundedInduction, TLAPS

-----------------------------------------------------------------------------
(* Induction and folds. *)

\* Induction over the numbers, as a fact about sets.
LEMMA Induction ==
  ASSUME NEW S, 0 \in S, \A n \in Nat : n \in S => n + 1 \in S
  PROVE  \A n \in Nat : n \in S
<1> DEFINE less == OpToRel(<, Nat)
           T    == {n \in Nat : n \notin S}
<1>1. less = {p \in Nat \X Nat : p[1] < p[2]}
  BY Zenon DEF OpToRel
<1>2. IsWellFoundedOn(less, Nat)
  BY NatLessThanWellFounded
<1> SUFFICES ASSUME T # {} PROVE FALSE
  OBVIOUS
<1> HIDE DEF less
<1>3. PICK x \in T : \A y \in T : ~(<<y, x>> \in less)
  <2>1. T \subseteq Nat /\ T # {}
    OBVIOUS
  <2> HIDE DEF T
  <2>2. QED BY <1>2, <2>1, WFMin
<1>4. x \in Nat \ {0}
  OBVIOUS
<1>5. x - 1 \in Nat /\ x - 1 < x /\ (x - 1) + 1 = x
  BY <1>4
<1>6. x - 1 \notin T
  BY <1>1, <1>3, <1>4, <1>5
<1>7. QED BY <1>5, <1>6

\* Equality by another name, for equations between sequences put together: it
\* keeps the provers from taking them apart, element by element.
Same(a, b) == a = b

LEMMA MaxOfInterval ==
  ASSUME NEW k \in Nat \ {0}
  PROVE  Max(1..k) = k /\ (1..k) \ {k} = 1..(k - 1) /\ 1..k # {}
<1>1. k \in 1..k /\ \A y \in 1..k : k >= y
  OBVIOUS
<1>2. \A x \in 1..k : (\A y \in 1..k : x >= y) => x = k
  OBVIOUS
<1>3. Max(1..k) = k
  BY <1>1, <1>2 DEF Max
<1>4. \A x : x \in (1..k) \ {k} <=> x \in 1..(k - 1)
  OBVIOUS
<1>5. QED BY <1>1, <1>3, <1>4

\* A set of places that is not empty has a last one.
LEMMA MaxOfSubset ==
  ASSUME NEW n \in Nat, NEW t \in SUBSET (1..n), t # {}
  PROVE  Max(t) \in t
<1> DEFINE P(k) == \A u \in SUBSET (1..k) :
                     u # {} => \E x \in u : \A y \in u : x >= y
           S == {k \in Nat : P(k)}
<1>1. P(0)
  <2>1. 1..0 = {}
    OBVIOUS
  <2>2. QED BY <2>1
<1>2. ASSUME NEW k \in Nat, P(k) PROVE P(k + 1)
  <2> SUFFICES ASSUME NEW u \in SUBSET (1..(k + 1)), u # {}
               PROVE  \E x \in u : \A y \in u : x >= y
    OBVIOUS
  <2>1. CASE k + 1 \in u
    BY <2>1
  <2>2. CASE k + 1 \notin u
    <3>1. u \in SUBSET (1..k)
      BY <2>2
    <3>2. QED BY <1>2, <3>1
  <2>3. QED BY <2>1, <2>2
<1> HIDE DEF P
<1>3. 0 \in S /\ \A k \in Nat : k \in S => k + 1 \in S
  BY <1>1, <1>2
<1> HIDE DEF S
<1>4. n \in S
  BY <1>3, Induction
<1>5. P(n)
  BY <1>4 DEF S
<1>6. \E x \in t : \A y \in t : x >= y
  BY <1>5 DEF P
<1>7. QED BY <1>6 DEF Max

\* The recursion of a fold whose steps are the values of the function g.
Recursion(n, base, g, h) ==
  \A t \in SUBSET (1..n) :
    h[t] = IF t = {} THEN base ELSE g[<<Max(t), h[t \ {Max(t)}]>>]

\* Such a fold has a value for every set of places.
LEMMA FoldExists ==
  ASSUME NEW N \in Nat, NEW T, NEW base \in T, NEW g \in [(1..N) \X T -> T]
  PROVE  \E h \in [SUBSET (1..N) -> T] : Recursion(N, base, g, h)
<1> DEFINE P(n) == n <= N =>
                     \E h \in [SUBSET (1..n) -> T] : Recursion(n, base, g, h)
           S == {n \in Nat : P(n)}
<1>1. P(0)
  <2> DEFINE h == [t \in SUBSET (1..0) |-> base]
  <2>1. h \in [SUBSET (1..0) -> T]
    OBVIOUS
  <2>2. \A t \in SUBSET (1..0) : t = {}
    OBVIOUS
  <2>3. Recursion(0, base, g, h)
    BY <2>2 DEF Recursion
  <2>4. QED BY <2>1, <2>3
<1>2. ASSUME NEW n \in Nat, P(n) PROVE P(n + 1)
  <2> SUFFICES ASSUME n + 1 <= N
               PROVE  \E h \in [SUBSET (1..(n + 1)) -> T] :
                        Recursion(n + 1, base, g, h)
    OBVIOUS
  <2>1. n <= N
    OBVIOUS
  <2>2. PICK f \in [SUBSET (1..n) -> T] : Recursion(n, base, g, f)
    BY <1>2, <2>1
  <2> DEFINE Rest(t) == t \ {n + 1}
             h == [t \in SUBSET (1..(n + 1)) |->
                     IF n + 1 \in t THEN g[<<n + 1, f[Rest(t)]>>] ELSE f[t]]
  <2>3. \A t \in SUBSET (1..(n + 1)) :
          /\ Rest(t) \in SUBSET (1..n)
          /\ n + 1 \notin t => t \in SUBSET (1..n)
    OBVIOUS
  <2>4. ASSUME NEW t \in SUBSET (1..(n + 1)), n + 1 \in t
        PROVE  Max(t) = n + 1
    <3>1. \A y \in t : n + 1 >= y
      OBVIOUS
    <3>2. \A x \in t : (\A y \in t : x >= y) => x = n + 1
      BY <2>4
    <3>3. QED BY <2>4, <3>1, <3>2 DEF Max
  <2>5. h \in [SUBSET (1..(n + 1)) -> T]
    <3>1. ASSUME NEW t \in SUBSET (1..(n + 1))
          PROVE  (IF n + 1 \in t THEN g[<<n + 1, f[Rest(t)]>>] ELSE f[t]) \in T
      <4>1. CASE n + 1 \in t
        <5>1. f[Rest(t)] \in T /\ n + 1 \in 1..N
          BY <2>2, <2>3
        <5>2. <<n + 1, f[Rest(t)]>> \in (1..N) \X T
          BY <5>1
        <5>3. g[<<n + 1, f[Rest(t)]>>] \in T
          BY <5>2
        <5>4. QED BY <4>1, <5>3
      <4>2. CASE n + 1 \notin t
        BY <2>2, <2>3, <4>2
      <4>3. QED BY <4>1, <4>2
    <3>2. QED BY <3>1
  <2>6. ASSUME NEW t \in SUBSET (1..(n + 1))
        PROVE  h[t] = IF t = {} THEN base ELSE g[<<Max(t), h[t \ {Max(t)}]>>]
    <3>1. CASE n + 1 \in t
      <4>1. h[t] = g[<<n + 1, f[Rest(t)]>>] /\ t # {} /\ Max(t) = n + 1
        BY <2>4, <3>1
      <4>2. Rest(t) \in SUBSET (1..(n + 1)) /\ n + 1 \notin Rest(t)
        OBVIOUS
      <4>3. h[Rest(t)] = f[Rest(t)]
        BY <4>2
      <4>4. QED BY <4>1, <4>3
    <3>2. CASE n + 1 \notin t
      <4>1. t \in SUBSET (1..n) /\ h[t] = f[t]
        BY <2>3, <3>2
      <4>2. f[t] = IF t = {} THEN base ELSE g[<<Max(t), f[t \ {Max(t)}]>>]
        BY <2>2, <4>1 DEF Recursion
      <4>3. \A m : /\ t \ {m} \in SUBSET (1..(n + 1)) /\ n + 1 \notin t \ {m}
        BY <3>2
      <4>4. h[t \ {Max(t)}] = f[t \ {Max(t)}]
        BY <4>3
      <4>5. QED BY <4>1, <4>2, <4>4
    <3>3. QED BY <3>1, <3>2
  <2> HIDE DEF h
  <2>7. Recursion(n + 1, base, g, h)
    BY <2>6 DEF Recursion
  <2>8. QED BY <2>5, <2>7
<1> HIDE DEF P
<1>3. 0 \in S /\ \A n \in Nat : n \in S => n + 1 \in S
  BY <1>1, <1>2
<1> HIDE DEF S
<1>4. N \in S
  BY <1>3, Induction
<1>5. P(N)
  BY <1>4 DEF S
<1>6. N <= N
  OBVIOUS
<1>7. QED BY <1>5, <1>6, Zenon DEF P

\* The values of a fold over a sequence s, from its first element on.
Along(n, base, g, f) ==
  f[0] = base /\ \A k \in 1..n : f[k] = g[<<k, f[k - 1]>>]

\* Steps that stay in the set T.
Closed(n, T, g) == \A k \in 1..n : \A x \in T : g[<<k, x>>] \in T

\* The set of the places of a sequence gets its value along the places.
LEMMA FoldAlong ==
  ASSUME NEW n \in Nat, NEW T, NEW base \in T,
         NEW g, Closed(n, T, g), NEW h, Recursion(n, base, g, h)
  PROVE  \E f \in [0..n -> T] : Along(n, base, g, f) /\ h[1..n] = f[n]
<1> DEFINE f == [k \in 0..n |-> h[1..k]]
<1>1. f[0] = base
  <2>1. 1..0 = {} /\ 0 \in 0..n
    OBVIOUS
  <2>2. QED BY <2>1 DEF Recursion
<1>2. ASSUME NEW k \in 1..n
      PROVE  f[k] = g[<<k, f[k - 1]>>]
  <2>1. 1..k \in SUBSET (1..n) /\ k \in Nat \ {0} /\ k - 1 \in 0..n /\ k \in 0..n
    OBVIOUS
  <2>2. Max(1..k) = k /\ (1..k) \ {k} = 1..(k - 1) /\ 1..k # {}
    BY <2>1, MaxOfInterval
  <2>3. h[1..k] = g[<<k, h[1..(k - 1)]>>]
    BY <2>1, <2>2, Zenon DEF Recursion
  <2>4. QED BY <2>1, <2>3
<1> DEFINE P(k) == k <= n => f[k] \in T
           S == {k \in Nat : P(k)}
<1>3. P(0)
  BY <1>1
<1>4. ASSUME NEW k \in Nat, P(k) PROVE P(k + 1)
  <2> SUFFICES ASSUME k + 1 <= n PROVE f[k + 1] \in T
    OBVIOUS
  <2>1. k + 1 \in 1..n /\ (k + 1) - 1 = k /\ f[k] \in T
    BY <1>4
  <2>2. f[k + 1] = g[<<k + 1, f[k]>>]
    BY <1>2, <2>1
  <2>3. QED BY <2>1, <2>2 DEF Closed
<1> HIDE DEF P
<1>5. 0 \in S /\ \A k \in Nat : k \in S => k + 1 \in S
  BY <1>3, <1>4
<1>6. \A k \in Nat : k \in S
  <2> HIDE DEF S
  <2>1. QED BY <1>5, Induction
<1>7. f \in [0..n -> T]
  <2>1. ASSUME NEW k \in 0..n PROVE h[1..k] \in T
    <3>1. k \in S
      BY <1>6
    <3>2. QED BY <3>1 DEF P
  <2>2. QED BY <2>1
<1>8. h[1..n] = f[n]
  OBVIOUS
<1> HIDE DEF f
<1>9. QED BY <1>1, <1>2, <1>7, <1>8 DEF Along

-----------------------------------------------------------------------------
(* The folds of the code. *)

\* sanitize_vhdl_identifier copies a name character by character.
LEMMA CopiedFold ==
  ASSUME NEW s \in Seq(Character), NEW base \in Seq(Character)
  PROVE  \E f \in [0..Len(s) -> Seq(Character)] :
           /\ f[0] = base
           /\ \A k \in 1..Len(s) : f[k] = Copied(f[k - 1], s[k])
           /\ FoldLeft(Copied, base, s) = f[Len(s)]
<1> DEFINE n == Len(s)
           T == Seq(Character)
           Body(F) == [t \in SUBSET (1..n) |->
                         IF t = {} THEN base
                         ELSE Copied(F[t \ {Max(t)}], s[Max(t)])]
           F == CHOOSE f : f = Body(f)
           Step(X) == [p \in (1..n) \X X |-> Copied(p[2], s[p[1]])]
<1>1. n \in Nat /\ DOMAIN s = 1..n /\ \A k \in 1..n : s[k] \in Character
  OBVIOUS
<1>2. ASSUME NEW k \in 1..n, NEW x \in T
      PROVE  Copied(x, s[k]) \in T
  BY <1>1, AppendProperties DEF Copied
<1>3. \E f : f = Body(f)
  <2>1. Step(T) \in [(1..n) \X T -> T]
    BY <1>2
  <2> HIDE DEF n, T, Step
  <2>2. PICK h \in [SUBSET (1..n) -> T] : Recursion(n, base, Step(T), h)
    <3>1. base \in T
      BY DEF T
    <3>2. QED BY <1>1, <2>1, <3>1, FoldExists
  <2>3. ASSUME NEW t \in SUBSET (1..n)
        PROVE  h[t] = IF t = {} THEN base
                      ELSE Copied(h[t \ {Max(t)}], s[Max(t)])
    <3>1. CASE t = {}
      BY <2>2, <3>1 DEF Recursion
    <3>2. CASE t # {}
      <4>1. Max(t) \in 1..n /\ t \ {Max(t)} \in SUBSET (1..n)
        BY <1>1, <3>2, MaxOfSubset
      <4>2. h[t] = Step(T)[<<Max(t), h[t \ {Max(t)}]>>]
        BY <2>2, <3>2 DEF Recursion
      <4>3. <<Max(t), h[t \ {Max(t)}]>> \in (1..n) \X T
        BY <2>2, <4>1
      <4>4. QED BY <3>2, <4>2, <4>3 DEF Step
    <3>3. QED BY <3>1, <3>2
  <2>4. h = Body(h)
    BY <2>2, <2>3
  <2>5. QED BY <2>4
<1>4. F = Body(F)
  <2> HIDE DEF Body
  <2>1. QED BY <1>3
<1>5. FoldLeft(Copied, base, s) = F[1..n]
  BY <1>1, Zenon DEF FoldLeft, MapThenFoldSet
<1> DEFINE X == T \cup {F[t] : t \in SUBSET (1..n)}
<1> HIDE DEF F
<1>6. Recursion(n, base, Step(X), F)
  <2>1. ASSUME NEW t \in SUBSET (1..n)
        PROVE  F[t] = IF t = {} THEN base
                      ELSE Step(X)[<<Max(t), F[t \ {Max(t)}]>>]
    <3>1. F[t] = IF t = {} THEN base ELSE Copied(F[t \ {Max(t)}], s[Max(t)])
      BY <1>4
    <3>2. t # {} => /\ Max(t) \in 1..n /\ t \ {Max(t)} \in SUBSET (1..n)
      BY <1>1, MaxOfSubset
    <3>3. t # {} => <<Max(t), F[t \ {Max(t)}]>> \in (1..n) \X X
      BY <3>2
    <3>4. QED BY <3>1, <3>3
  <2>2. QED BY <2>1 DEF Recursion
<1> DEFINE g == Step(X)
<1>7. \A k \in 1..n, x \in T : g[<<k, x>>] = Copied(x, s[k])
  OBVIOUS
<1>8. Recursion(n, base, g, F)
  BY <1>6
<1>9. Closed(n, T, g)
  BY <1>2, <1>7 DEF Closed
<1>10. base \in T
  OBVIOUS
<1> HIDE DEF T, g, X, Step, Body, n
<1>11. PICK f \in [0..n -> T] : Along(n, base, g, f) /\ F[1..n] = f[n]
  <2>1. n \in Nat
    BY <1>1
  <2>2. \E f \in [0..n -> T] : Along(n, base, g, f) /\ F[1..n] = f[n]
    BY <2>1, <1>8, <1>9, <1>10, FoldAlong
  <2>3. QED BY <2>2
<1>12. f[0] = base /\ \A k \in 1..n : f[k] = g[<<k, f[k - 1]>>]
  BY <1>11 DEF Along
<1>13. \A k \in 1..n : f[k - 1] \in T
  BY <1>1, <1>11
<1>14. \A k \in 1..n : f[k] = Copied(f[k - 1], s[k])
  BY <1>7, <1>12, <1>13
<1>15. QED BY <1>5, <1>11, <1>12, <1>14 DEF n, T

-----------------------------------------------------------------------------
(* Names: what the sanitiser makes of an identifier of C is one of VHDL. *)

LEMMA Constants ==
  /\ {"c", "v", "result", "local"} \subseteq Words /\ U \notin Words
  /\ U \in Character /\ Words \subseteq Character /\ Digits \subseteq Character
  /\ \A c \in Character : c \in Words \/ c \in Digits \/ c = U
  /\ U \notin Digits
BY SignalsAssumption DEF SignalsAssumption, Character, U, Digits

\* A name with a letter first and single underscores: what the copy keeps.
Begun(w) ==
  /\ w \in Seq(Character) /\ ~HasDouble(w)
  /\ w # <<>> => w[1] \in Words

\* A character copied behind such a name leaves such a name.
LEMMA CopiedKeeps ==
  ASSUME NEW w \in Seq(Character), Begun(w),
         NEW c \in Character, w = <<>> => c \in Words
  PROVE  Begun(Copied(w, c)) /\ Copied(w, c) # <<>>
<1>1. CASE IsAlnum(c) \/ (c = U /\ (w = <<>> \/ Last(w) # U))
  <2> DEFINE x == Append(w, c)
  <2>1. Copied(w, c) = x
    BY <1>1 DEF Copied
  <2>2. /\ x \in Seq(Character) /\ x # <<>> /\ Len(x) = Len(w) + 1
        /\ \A i \in 1..Len(w) : x[i] = w[i]
        /\ x[Len(w) + 1] = c
    BY AppendProperties
  <2>3. Len(w) \in Nat /\ (w = <<>> <=> Len(w) = 0)
    OBVIOUS
  <2> HIDE DEF x
  <2>4. x[1] \in Words
    <3>1. CASE w = <<>>
      BY <2>2, <2>3, <3>1
    <3>2. CASE w # <<>>
      BY <2>2, <2>3, <3>2 DEF Begun
    <3>3. QED BY <3>1, <3>2
  <2>5. ~HasDouble(x)
    <3> SUFFICES ASSUME NEW i \in 1..(Len(x) - 1), x[i] = U, x[i + 1] = U
                 PROVE  FALSE
      BY DEF HasDouble
    <3>1. CASE i + 1 <= Len(w)
      <4>1. i \in 1..(Len(w) - 1) /\ x[i] = w[i] /\ x[i + 1] = w[i + 1]
        BY <2>2, <2>3, <3>1
      <4>2. QED BY <4>1 DEF Begun, HasDouble
    <3>2. CASE i = Len(w)
      <4>1. c = U /\ w[Len(w)] = U /\ w # <<>>
        BY <2>2, <2>3, <3>2
      <4>2. ~IsAlnum(c)
        BY <4>1, Constants DEF IsAlnum, IsAlpha, IsDigit
      <4>3. QED BY <1>1, <4>1, <4>2 DEF Last
    <3>3. QED BY <2>2, <2>3, <3>1, <3>2
  <2>6. QED BY <2>1, <2>2, <2>4, <2>5 DEF Begun
<1>2. CASE ~(IsAlnum(c) \/ (c = U /\ (w = <<>> \/ Last(w) # U)))
  <2>1. w # <<>>
    <3>1. c \in Words => IsAlnum(c)
      BY DEF IsAlnum, IsAlpha
    <3>2. QED BY <1>2, <3>1
  <2>2. QED BY <1>2, <2>1 DEF Copied
<1>3. QED BY <1>1, <1>2

\* The whole of the copy of an identifier.
LEMMA CopyIsBegun ==
  ASSUME NEW name, IsIdentifier(name)
  PROVE  LET whole == FoldLeft(Copied, IF IsAlpha(name[1]) THEN <<>> ELSE <<"c", U>>,
                               name)
         IN  Begun(whole) /\ whole # <<>>
<1> DEFINE base == IF IsAlpha(name[1]) THEN <<>> ELSE <<"c", U>>
           n == Len(name)
<1>1. name \in Seq(Character) /\ n \in Nat \ {0}
  BY DEF IsIdentifier
<1>2. Begun(base)
  <2>1. "c" \in Words /\ "c" \in Character /\ U \in Character /\ "c" # U
    BY Constants
  <2>2. <<"c", U>> \in Seq(Character) /\ <<"c", U>>[1] \in Words
    BY <2>1
  <2>3. ~HasDouble(<<"c", U>>)
    <3>1. \A i \in 1..(Len(<<"c", U>>) - 1) : i = 1
      OBVIOUS
    <3>2. <<"c", U>>[1] # U
      BY <2>1
    <3>3. QED BY <3>1, <3>2 DEF HasDouble
  <2>4. ~HasDouble(<<>>) /\ <<>> \in Seq(Character)
    BY DEF HasDouble
  <2>5. QED BY <2>2, <2>3, <2>4 DEF Begun
<1>3. base = <<>> => name[1] \in Words
  BY DEF IsAlpha
<1>4. base \in Seq(Character)
  BY <1>2 DEF Begun
<1> HIDE DEF base
<1>5. PICK f \in [0..n -> Seq(Character)] :
        /\ f[0] = base
        /\ \A k \in 1..n : f[k] = Copied(f[k - 1], name[k])
        /\ FoldLeft(Copied, base, name) = f[n]
  BY <1>1, <1>4, CopiedFold
<1> HIDE DEF n
<1> DEFINE P(k) == k <= n =>
                     Begun(f[k]) /\ (f[k] = <<>> => k = 0 /\ base = <<>>)
           S == {k \in Nat : P(k)}
<1>6. P(0)
  BY <1>2, <1>5
<1>7. ASSUME NEW k \in Nat, P(k) PROVE P(k + 1)
  <2> SUFFICES ASSUME k + 1 <= n PROVE Begun(f[k + 1]) /\ f[k + 1] # <<>>
    BY <1>7
  <2>1. k + 1 \in 1..n /\ (k + 1) - 1 = k /\ k \in 0..n
    BY <1>1
  <2>2. f[k + 1] = Copied(f[k], name[k + 1])
    BY <1>5, <2>1
  <2>3. name[k + 1] \in Character /\ f[k] \in Seq(Character)
    BY <1>1, <1>5, <2>1 DEF n
  <2>4. Begun(f[k]) /\ (f[k] = <<>> => name[k + 1] \in Words)
    BY <1>3, <1>7, <2>1
  <2>5. QED BY <2>2, <2>3, <2>4, CopiedKeeps
<1> HIDE DEF P
<1>8. 0 \in S /\ \A k \in Nat : k \in S => k + 1 \in S
  BY <1>6, <1>7
<1> HIDE DEF S
<1>9. n \in S
  BY <1>1, <1>8, Induction
<1>10. P(n)
  BY <1>9 DEF S
<1>11. Begun(f[n]) /\ f[n] # <<>>
  BY <1>1, <1>10 DEF P
<1>12. QED BY <1>5, <1>11 DEF base

\* Short names put together.
LEMMA LiteralConcat ==
  ASSUME NEW a, NEW b, NEW c
  PROVE  /\ <<a, b>> \o <<c>> = <<a, b, c>>
         /\ <<a>> \o <<b, c>> = <<a, b, c>>
<1> DEFINE S == {a, b, c}
<1>1. /\ <<a, b>> \in Seq(S) /\ <<c>> \in Seq(S) /\ <<a>> \in Seq(S)
      /\ <<b, c>> \in Seq(S) /\ <<a, b, c>> \in Seq(S)
  OBVIOUS
<1>2. /\ Len(<<a, b>>) = 2 /\ Len(<<c>>) = 1 /\ Len(<<a>>) = 1
      /\ Len(<<b, c>>) = 2 /\ Len(<<a, b, c>>) = 3
  OBVIOUS
<1>3. <<a, b>> \o <<c>> = <<a, b, c>>
  <2> DEFINE x == <<a, b>>
             y == <<c>>
             z == <<a, b, c>>
  <2>1. /\ x \in Seq(S) /\ y \in Seq(S) /\ z \in Seq(S)
        /\ Len(x) = 2 /\ Len(y) = 1 /\ Len(z) = 3
    BY <1>1, <1>2
  <2>2. \A i \in 1..3 : (IF i <= Len(x) THEN x[i] ELSE y[i - Len(x)]) = z[i]
    BY <2>1
  <2> HIDE DEF x, y, z, S
  <2>3. /\ x \o y \in Seq(S) /\ Len(x \o y) = Len(x) + Len(y)
        /\ \A i \in 1..Len(x) + Len(y) :
             (x \o y)[i] = IF i <= Len(x) THEN x[i] ELSE y[i - Len(x)]
    BY <2>1, ConcatProperties
  <2>4. Len(x \o y) = 3 /\ \A i \in 1..3 : (x \o y)[i] = z[i]
    BY <2>1, <2>2, <2>3
  <2>5. x \o y = z
    BY <2>1, <2>3, <2>4, SeqEqual
  <2>6. QED BY <2>5 DEF x, y, z
<1>4. <<a>> \o <<b, c>> = <<a, b, c>>
  <2> DEFINE x == <<a>>
             y == <<b, c>>
             z == <<a, b, c>>
  <2>1. /\ x \in Seq(S) /\ y \in Seq(S) /\ z \in Seq(S)
        /\ Len(x) = 1 /\ Len(y) = 2 /\ Len(z) = 3
    BY <1>1, <1>2
  <2>2. \A i \in 1..3 : (IF i <= Len(x) THEN x[i] ELSE y[i - Len(x)]) = z[i]
    BY <2>1
  <2> HIDE DEF x, y, z, S
  <2>3. /\ x \o y \in Seq(S) /\ Len(x \o y) = Len(x) + Len(y)
        /\ \A i \in 1..Len(x) + Len(y) :
             (x \o y)[i] = IF i <= Len(x) THEN x[i] ELSE y[i - Len(x)]
    BY <2>1, ConcatProperties
  <2>4. Len(x \o y) = 3 /\ \A i \in 1..3 : (x \o y)[i] = z[i]
    BY <2>1, <2>2, <2>3
  <2>5. x \o y = z
    BY <2>1, <2>3, <2>4, SeqEqual
  <2>6. QED BY <2>5 DEF x, y, z
<1>5. QED BY <1>3, <1>4

\* Every such name that does not end in an underscore is one of VHDL, but for
\* the reserved words.
LEMMA BegunIsBasic ==
  ASSUME NEW w, Begun(w), w # <<>>, w[Len(w)] # U, w \notin Reserved
  PROVE  IsBasicIdentifier(w)
<1>1. w \in Seq(Character) /\ Len(w) \in Nat \ {0} /\ w[1] \in Words
  BY DEF Begun
<1>2. ASSUME NEW i \in 2..Len(w), w[i] \notin Words
      PROVE  IsDigit(w[i]) \/ (w[i] = U /\ i < Len(w) /\ w[i + 1] # U)
  <2>1. w[i] \in Digits \/ w[i] = U
    BY <1>1, <1>2, Constants
  <2>2. ASSUME w[i] = U PROVE i < Len(w) /\ w[i + 1] # U
    <3>1. i # Len(w)
      BY <2>2
    <3>2. i \in 1..(Len(w) - 1)
      BY <1>1, <3>1
    <3>3. QED BY <2>2, <3>2 DEF Begun, HasDouble
  <2>3. QED BY <2>1, <2>2 DEF IsDigit
<1>3. QED BY <1>1, <1>2 DEF IsBasicIdentifier

\* sanitize_vhdl_identifier.
LEMMA SanitizedIsBasic ==
  ASSUME NEW name, IsIdentifier(name)
  PROVE  IsBasicIdentifier(SanitizeVhdlIdentifier(name))
<1> DEFINE whole == FoldLeft(Copied, IF IsAlpha(name[1]) THEN <<>> ELSE <<"c", U>>,
                             name)
           trimmed == IF Last(whole) = U THEN Front(whole) ELSE whole
<1>1. Begun(whole) /\ whole # <<>>
  BY CopyIsBegun
<1>2. SanitizeVhdlIdentifier(name)
        = IF IsReservedWord(trimmed) THEN <<"v", U>> \o trimmed ELSE trimmed
  BY DEF SanitizeVhdlIdentifier
<1> HIDE DEF whole
<1>3. Begun(trimmed) /\ trimmed # <<>> /\ trimmed[Len(trimmed)] # U
  <2>1. /\ whole \in Seq(Character) /\ Len(whole) \in Nat \ {0}
        /\ whole[1] \in Words /\ whole[1] # U
    BY <1>1, Constants DEF Begun
  <2>2. CASE Last(whole) = U
    <3> DEFINE m == Len(whole) - 1
               w == SubSeq(whole, 1, m)
    <3>1. whole[Len(whole)] = U /\ m \in Nat \ {0}
      BY <2>1, <2>2 DEF Last
    <3>2. \A i \in 1..m : whole[i] \in Character
      BY <2>1
    <3>3. /\ w \in Seq(Character) /\ Len(w) = m
          /\ \A i \in 1..m : w[i] = whole[i]
      <4>1. m \in Int /\ m - 1 + 1 = m /\ 1 <= m /\ \A i \in 1..m : 1 + i - 1 = i
        BY <3>1
      <4> HIDE DEF m
      <4>2. QED BY <3>2, <4>1, SubSeqProperties
    <3>4. ~HasDouble(w)
      <4>1. \A i \in 1..(m - 1) : i \in 1..(Len(whole) - 1) /\ i \in 1..m /\ i + 1 \in 1..m
        BY <2>1, <3>1
      <4>2. ~HasDouble(whole)
        BY <1>1 DEF Begun
      <4> HIDE DEF w, m
      <4>3. QED BY <3>3, <4>1, <4>2 DEF HasDouble
    <3>5. w[m] # U
      <4>1. m \in 1..(Len(whole) - 1) /\ m + 1 = Len(whole) /\ m \in 1..m
        BY <2>1, <3>1
      <4>2. ~HasDouble(whole)
        BY <1>1 DEF Begun
      <4> HIDE DEF w, m
      <4>3. QED BY <3>1, <3>3, <4>1, <4>2 DEF HasDouble
    <3>6. trimmed = w
      BY <2>2 DEF Front
    <3>7. w[1] \in Words /\ w # <<>>
      <4>1. 1 \in 1..m
        BY <3>1
      <4> HIDE DEF w, m
      <4>2. QED BY <2>1, <3>1, <3>3, <4>1
    <3> HIDE DEF w, m
    <3>8. QED BY <3>3, <3>4, <3>5, <3>6, <3>7 DEF Begun
  <2>3. CASE Last(whole) # U
    BY <1>1, <2>3 DEF Last
  <2>4. QED BY <2>2, <2>3
<1> HIDE DEF trimmed
<1>4. CASE IsReservedWord(trimmed)
  <2> DEFINE x == <<"v", U>> \o trimmed
  <2>1. PICK word \in Words : trimmed = <<word>>
    BY <1>4, SignalsAssumption DEF SignalsAssumption, IsReservedWord
  <2>2. "v" \in Words /\ "v" \in Character /\ U \in Character /\ U \notin Words
        /\ word \in Character
    BY Constants
  <2>3. x = <<"v", U, word>>
    BY <2>1, <2>2, LiteralConcat
  <2> DEFINE y == <<"v", U, word>>
  <2>4. y \in Seq(Character) /\ Len(y) = 3 /\ y # <<>>
    BY <2>2
  <2>5. y[1] = "v" /\ y[2] = U /\ y[3] = word
    OBVIOUS
  <2> HIDE DEF y
  <2>6. ~HasDouble(y)
    <3>1. \A i \in 1..(Len(y) - 1) : i = 1 \/ i = 2
      BY <2>4
    <3>2. QED BY <2>2, <2>5, <3>1 DEF HasDouble
  <2>7. y \notin Reserved
    <3>1. \A z \in Reserved : Len(z) = 1
      BY SignalsAssumption DEF SignalsAssumption
    <3>2. y \in Reserved => Len(y) = 1
      BY <3>1, Zenon
    <3>3. QED BY <2>4, <3>2
  <2>8. Begun(y) /\ y[Len(y)] # U
    BY <2>2, <2>4, <2>5, <2>6 DEF Begun
  <2>9. x = y
    BY <2>3 DEF y
  <2>10. QED BY <1>2, <1>4, <2>4, <2>7, <2>8, <2>9, BegunIsBasic
<1>5. CASE ~IsReservedWord(trimmed)
  BY <1>2, <1>3, <1>5, BegunIsBasic DEF IsReservedWord
<1>6. QED BY <1>4, <1>5

\* A name is a valid one of VHDL to the code just where it is begun well, ends
\* well and is not reserved.
LEMMA ValidIsBasic ==
  ASSUME NEW name \in Seq(Character), IsValidVhdlIdentifier(name)
  PROVE  IsBasicIdentifier(name)
<1>1. Begun(name) /\ name # <<>> /\ name[Len(name)] # U /\ name \notin Reserved
  BY DEF IsValidVhdlIdentifier, Begun, IsAlpha, Last, IsReservedWord
<1>2. QED BY <1>1, BegunIsBasic

\* emit_safe_identifier and emit_mapped_signal_name.
LEMMA MappedIsBasic ==
  ASSUME NEW name, IsIdentifier(name)
  PROVE  IsBasicIdentifier(MappedSignalName(name)) /\ MappedSignalName(name) # Result
<1> DEFINE safe == SafeIdentifier(name)
<1>1. IsBasicIdentifier(safe)
  BY SanitizedIsBasic, ValidIsBasic DEF SafeIdentifier, IsIdentifier
<1>2. MappedSignalName(name) = IF IsSignalNameReserved(safe) THEN safe \o <<U, "local">>
                               ELSE safe
  BY DEF MappedSignalName
<1> HIDE DEF safe
<1>3. CASE IsSignalNameReserved(safe)
  <2> DEFINE y == <<"result", U, "local">>
  <2>1. safe = <<"result">> /\ safe \o <<U, "local">> = y
    BY <1>3, LiteralConcat, Zenon DEF IsSignalNameReserved, Result
  <2>2. "result" \in Words /\ "local" \in Words /\ U \notin Words
    BY Constants
  <2>3. y \in Seq(Character) /\ Len(y) = 3 /\ y # <<>>
    BY <2>2, Constants
  <2>4. y[1] = "result" /\ y[2] = U /\ y[3] = "local"
    OBVIOUS
  <2> HIDE DEF y
  <2>5. ~HasDouble(y)
    <3>1. \A i \in 1..(Len(y) - 1) : i = 1 \/ i = 2
      BY <2>3
    <3>2. QED BY <2>2, <2>4, <3>1 DEF HasDouble
  <2>6. y \notin Reserved
    <3>1. \A z \in Reserved : Len(z) = 1
      BY SignalsAssumption DEF SignalsAssumption
    <3>2. y \in Reserved => Len(y) = 1
      BY <3>1, Zenon
    <3>3. QED BY <2>3, <3>2
  <2>7. Begun(y) /\ y[Len(y)] # U
    BY <2>2, <2>3, <2>4, <2>5 DEF Begun
  <2>8. y # Result
    <3>1. Len(Result) = 1
      BY DEF Result
    <3>2. y = Result => Len(y) = 1
      BY <3>1, Zenon
    <3>3. QED BY <2>3, <3>2
  <2>9. MappedSignalName(name) = y
    BY <1>2, <1>3, <2>1
  <2>10. QED BY <2>3, <2>6, <2>7, <2>8, <2>9, BegunIsBasic
<1>4. CASE ~IsSignalNameReserved(safe)
  BY <1>1, <1>2, <1>4 DEF IsSignalNameReserved
<1>5. QED BY <1>3, <1>4
-----------------------------------------------------------------------------
(* Sequences of sequences, put one behind the other. *)

LEMMA AlongExists ==
  ASSUME NEW n \in Nat, NEW T, NEW base \in T, NEW g \in [(1..n) \X T -> T]
  PROVE  \E f \in [0..n -> T] : Along(n, base, g, f)
<1>1. PICK h \in [SUBSET (1..n) -> T] : Recursion(n, base, g, h)
  BY FoldExists
<1>2. Closed(n, T, g)
  BY DEF Closed
<1>3. \E f \in [0..n -> T] : Along(n, base, g, f) /\ h[1..n] = f[n]
  BY <1>1, <1>2, FoldAlong
<1>4. QED BY <1>3

\* FlattenSeq, as a function from the number of sequences put together.
LEMMA Flattened ==
  ASSUME NEW T, NEW ss \in Seq(Seq(T))
  PROVE  \E f \in [0..Len(ss) -> Seq(T)] :
           /\ f[0] = <<>>
           /\ \A k \in 1..Len(ss) : f[k] = f[k - 1] \o ss[k]
           /\ FlattenSeq(ss) = f[Len(ss)]
<1> DEFINE n == Len(ss)
           g == [p \in (1..n) \X Seq(T) |-> p[2] \o ss[p[1]]]
<1>1. n \in Nat /\ \A k \in 1..n : ss[k] \in Seq(T)
  OBVIOUS
<1>2. \A k \in 1..n, x \in Seq(T) : x \o ss[k] \in Seq(T)
  BY <1>1, ConcatProperties
<1>3. g \in [(1..n) \X Seq(T) -> Seq(T)] /\ <<>> \in Seq(T)
  BY <1>2
<1>4. \A k \in 1..n, x \in Seq(T) : g[<<k, x>>] = x \o ss[k]
  OBVIOUS
<1> HIDE DEF n, g
<1>5. PICK f \in [0..n -> Seq(T)] : Along(n, <<>>, g, f)
  BY <1>1, <1>3, AlongExists
<1>6. f[0] = <<>>
  BY <1>5 DEF Along
<1>7. ASSUME NEW k \in 1..n PROVE f[k] = f[k - 1] \o ss[k] /\ f[k - 1] \in Seq(T)
  <2>1. k - 1 \in 0..n /\ f[k - 1] \in Seq(T)
    BY <1>1, <1>5
  <2>2. QED BY <1>4, <1>5, <2>1 DEF Along
<1>10. 1 \in 1..n => f[1] = ss[1]
  <2> SUFFICES ASSUME 1 \in 1..n PROVE f[1] = ss[1]
    OBVIOUS
  <2>1. f[1] = f[1 - 1] \o ss[1] /\ 1 - 1 = 0 /\ ss[1] \in Seq(T)
    <3>1. f[1] = f[1 - 1] \o ss[1]
      BY <1>7, Zenon
    <3>2. QED BY <1>1, <3>1
  <2>2. f[1 - 1] = <<>>
    BY <1>6, <2>1
  <2>3. QED BY <2>1, <2>2, ConcatEmptySeq
<1>8. FlattenSeq(ss) = f[n]
  <2>1. CASE n = 0
    <3>1. ss = <<>>
      BY <2>1 DEF n
    <3>2. FlattenSeq(ss) = ss
      BY <2>1, Zenon DEF FlattenSeq, n
    <3>3. QED BY <1>6, <2>1, <3>1, <3>2
  <2>2. CASE n # 0
    <3> DEFINE Body(F) == [i \in 1..n |-> IF i = 1 THEN ss[i] ELSE F[i - 1] \o ss[i]]
               flatten == CHOOSE F : F = Body(F)
               r == [i \in 1..n |-> f[i]]
    <3>1. FlattenSeq(ss) = flatten[n]
      BY <2>2, Zenon DEF FlattenSeq, n
    <3>2. r = Body(r)
      <4>1. ASSUME NEW i \in 1..n
            PROVE  f[i] = IF i = 1 THEN ss[i] ELSE r[i - 1] \o ss[i]
        <5>1. CASE i = 1
          BY <1>10, <5>1
        <5>2. CASE i # 1
          <6>1. i - 1 \in 1..n
            BY <1>1, <5>2
          <6>2. QED BY <1>7, <5>2, <6>1
        <5>3. QED BY <5>1, <5>2
      <4>2. QED BY <4>1
    <3>3. flatten = Body(flatten)
      <4> HIDE DEF Body, r
      <4>1. QED BY <3>2
    <3> HIDE DEF flatten
    <3> DEFINE S == {k \in Nat : k + 1 <= n => flatten[k + 1] = f[k + 1]}
    <3>4. 0 \in S
      <4>1. 1 \in 1..n /\ flatten[1] = ss[1]
        BY <1>1, <2>2, <3>3
      <4>2. QED BY <1>10, <4>1
    <3>5. ASSUME NEW k \in Nat, k \in S PROVE k + 1 \in S
      <4> SUFFICES ASSUME (k + 1) + 1 <= n
                   PROVE  flatten[(k + 1) + 1] = f[(k + 1) + 1]
        OBVIOUS
      <4>1. /\ (k + 1) + 1 \in 1..n /\ (k + 1) + 1 # 1
            /\ ((k + 1) + 1) - 1 = k + 1 /\ k + 1 <= n
        BY <1>1
      <4>2. flatten[(k + 1) + 1] = flatten[k + 1] \o ss[(k + 1) + 1]
        BY <3>3, <4>1
      <4>3. flatten[k + 1] = f[k + 1]
        BY <3>5, <4>1
      <4>4. f[(k + 1) + 1] = f[k + 1] \o ss[(k + 1) + 1]
        BY <1>7, <4>1
      <4>5. QED BY <4>2, <4>3, <4>4
    <3> HIDE DEF S
    <3>6. \A k \in Nat : k \in S
      BY <3>4, <3>5, Induction
    <3>7. n - 1 \in Nat /\ (n - 1) + 1 = n
      BY <1>1, <2>2
    <3>8. n - 1 \in S
      BY <3>6, <3>7
    <3>9. QED BY <3>1, <3>7, <3>8 DEF S
  <2>3. QED BY <2>1, <2>2
<1>9. QED BY <1>5, <1>6, <1>7, <1>8 DEF n

\* One sequence more is put behind the others.
LEMMA FlattenAppend ==
  ASSUME NEW T, NEW ss \in Seq(Seq(T)), NEW s \in Seq(T)
  PROVE  FlattenSeq(Append(ss, s)) = FlattenSeq(ss) \o s
<1> DEFINE tt == Append(ss, s)
           n == Len(ss)
<1>1. /\ tt \in Seq(Seq(T)) /\ Len(tt) = n + 1 /\ tt[n + 1] = s
      /\ \A k \in 1..n : tt[k] = ss[k]
  BY AppendProperties
<1>2. n \in Nat
  OBVIOUS
<1> HIDE DEF tt
<1>3. PICK f \in [0..n -> Seq(T)] :
        /\ f[0] = <<>> /\ \A k \in 1..n : f[k] = f[k - 1] \o ss[k]
        /\ FlattenSeq(ss) = f[n]
  BY Flattened
<1>4. PICK e \in [0..Len(tt) -> Seq(T)] :
        /\ e[0] = <<>> /\ \A k \in 1..Len(tt) : e[k] = e[k - 1] \o tt[k]
        /\ FlattenSeq(tt) = e[Len(tt)]
  BY <1>1, Flattened
<1> HIDE DEF n
<1> DEFINE S == {k \in Nat : k <= n => e[k] = f[k]}
<1>5. 0 \in S
  BY <1>3, <1>4
<1>6. ASSUME NEW k \in Nat, k \in S PROVE k + 1 \in S
  <2> SUFFICES ASSUME k + 1 <= n PROVE e[k + 1] = f[k + 1]
    OBVIOUS
  <2>1. k + 1 \in 1..n /\ (k + 1) - 1 = k /\ k + 1 \in 1..Len(tt) /\ k <= n
    BY <1>1, <1>2
  <2>2. e[k] = f[k]
    BY <1>6, <2>1
  <2>3. e[k + 1] = e[k] \o tt[k + 1] /\ f[k + 1] = f[k] \o ss[k + 1]
    BY <1>3, <1>4, <2>1
  <2>4. QED BY <1>1, <2>1, <2>2, <2>3
<1> HIDE DEF S
<1>7. n \in S
  BY <1>2, <1>5, <1>6, Induction
<1>8. e[n] = f[n]
  BY <1>2, <1>7 DEF S
<1>9. n + 1 \in 1..Len(tt) /\ (n + 1) - 1 = n
  BY <1>1, <1>2
<1>10. e[n + 1] = e[n] \o s
  BY <1>1, <1>4, <1>9
<1>11. QED BY <1>1, <1>3, <1>4, <1>8, <1>10 DEF tt

\* What a concatenation contains is what its parts contain.
LEMMA ToSetConcat ==
  ASSUME NEW T, NEW s \in Seq(T), NEW t \in Seq(T)
  PROVE  ToSet(s \o t) = ToSet(s) \cup ToSet(t)
<1>1. Len(s) \in Nat /\ Len(t) \in Nat
  OBVIOUS
<1>2. /\ s \o t \in Seq(T) /\ Len(s \o t) = Len(s) + Len(t)
      /\ \A i \in 1..Len(s) + Len(t) :
           (s \o t)[i] = IF i <= Len(s) THEN s[i] ELSE t[i - Len(s)]
  BY ConcatProperties
<1> DEFINE u == s \o t
<1>3. \A i \in 1..Len(s) : i \in 1..Len(u) /\ u[i] = s[i]
  BY <1>1, <1>2
<1>4. \A i \in 1..Len(t) : i + Len(s) \in 1..Len(u) /\ u[i + Len(s)] = t[i]
  BY <1>1, <1>2
<1>5. \A i \in 1..Len(u) : \/ i \in 1..Len(s) /\ u[i] = s[i]
                           \/ i - Len(s) \in 1..Len(t) /\ u[i] = t[i - Len(s)]
  BY <1>1, <1>2
<1>6. DOMAIN u = 1..Len(u) /\ DOMAIN s = 1..Len(s) /\ DOMAIN t = 1..Len(t)
  BY <1>2
<1> HIDE DEF u
<1>7. ToSet(u) = {u[i] : i \in 1..Len(u)}
  BY <1>6, Zenon DEF ToSet
<1>8. ToSet(s) = {s[i] : i \in 1..Len(s)} /\ ToSet(t) = {t[i] : i \in 1..Len(t)}
  BY <1>6, Zenon DEF ToSet
<1>9. ToSet(u) \subseteq ToSet(s) \cup ToSet(t)
  BY <1>5, <1>7, <1>8
<1>10. ToSet(s) \subseteq ToSet(u)
  BY <1>3, <1>7, <1>8
<1>11. ToSet(t) \subseteq ToSet(u)
  BY <1>4, <1>7, <1>8
<1>12. QED BY <1>9, <1>10, <1>11 DEF u

\* Nothing is lost, and nothing is added.
LEMMA FlattenToSet ==
  ASSUME NEW T, NEW ss \in Seq(Seq(T))
  PROVE  /\ FlattenSeq(ss) \in Seq(T)
         /\ ToSet(FlattenSeq(ss)) = UNION {ToSet(ss[i]) : i \in DOMAIN ss}
<1> DEFINE n == Len(ss)
<1>1. n \in Nat /\ DOMAIN ss = 1..n /\ \A k \in 1..n : ss[k] \in Seq(T)
  OBVIOUS
<1>2. PICK f \in [0..n -> Seq(T)] :
        /\ f[0] = <<>> /\ \A k \in 1..n : f[k] = f[k - 1] \o ss[k]
        /\ FlattenSeq(ss) = f[n]
  BY Flattened
<1> HIDE DEF n
<1> DEFINE P(k) == k <= n => ToSet(f[k]) = UNION {ToSet(ss[i]) : i \in 1..k}
           S == {k \in Nat : P(k)}
<1>3. P(0)
  <2>1. ToSet(<<>>) = {} /\ 1..0 = {}
    BY DEF ToSet
  <2>2. QED BY <1>2, <2>1
<1>4. ASSUME NEW k \in Nat, P(k) PROVE P(k + 1)
  <2> SUFFICES ASSUME k + 1 <= n
               PROVE  ToSet(f[k + 1]) = UNION {ToSet(ss[i]) : i \in 1..(k + 1)}
    BY <1>4
  <2>1. k + 1 \in 1..n /\ (k + 1) - 1 = k /\ k \in 0..n /\ k <= n
    BY <1>1
  <2>2. f[k + 1] = f[k] \o ss[k + 1] /\ f[k] \in Seq(T) /\ ss[k + 1] \in Seq(T)
    BY <1>1, <1>2, <2>1
  <2>3. ToSet(f[k + 1]) = ToSet(f[k]) \cup ToSet(ss[k + 1])
    BY <2>2, ToSetConcat
  <2>4. ToSet(f[k]) = UNION {ToSet(ss[i]) : i \in 1..k}
    BY <1>4, <2>1
  <2>5. \A i : i \in 1..(k + 1) <=> i \in 1..k \/ i = k + 1
    BY <2>1
  <2>6. QED BY <2>3, <2>4, <2>5
<1> HIDE DEF P
<1>5. 0 \in S /\ \A k \in Nat : k \in S => k + 1 \in S
  BY <1>3, <1>4
<1> HIDE DEF S
<1>6. n \in S
  BY <1>1, <1>5, Induction
<1>7. P(n)
  BY <1>6 DEF S
<1>8. FlattenSeq(ss) \in Seq(T)
  BY <1>1, <1>2
<1>9. ToSet(f[n]) = UNION {ToSet(ss[i]) : i \in 1..n}
  BY <1>1, <1>7 DEF P
<1>10. QED BY <1>1, <1>2, <1>8, <1>9
-----------------------------------------------------------------------------
(* The struct table. *)

Entry == [name : Seq(Character), fields : Seq(Seq(Character))]

\* What fits the buffer is copied whole, and what does not is cut off.
LEMMA CutProperties ==
  ASSUME NEW name \in Seq(Character), NEW size \in Nat \ {0}
  PROVE  /\ Cut(name, size) \in Seq(Character) /\ Len(Cut(name, size)) < size
         /\ Len(name) < size => Cut(name, size) = name
<1> DEFINE m == Min({Len(name), size - 1})
<1>1. Len(name) \in Nat /\ size - 1 \in Nat
  OBVIOUS
<1>2. m \in Nat /\ m <= Len(name) /\ m <= size - 1
      /\ (Len(name) < size => m = Len(name))
  BY <1>1 DEF Min
<1> HIDE DEF m
<1>3. \A i \in 1..m : name[i] \in Character
  BY <1>1, <1>2
<1>4. SubSeq(name, 1, m) \in Seq(Character) /\ Len(SubSeq(name, 1, m)) = m
  <2>1. m \in Int /\ (IF 1 <= m THEN m - 1 + 1 ELSE 0) = m
    BY <1>2
  <2>2. QED BY <1>3, <2>1, SubSeqProperties
<1>5. Cut(name, size) = SubSeq(name, 1, m)
  BY DEF Cut, m
<1>6. m = Len(name) => SubSeq(name, 1, m) = name
  BY SubSeqFull
<1>7. QED BY <1>1, <1>2, <1>4, <1>5, <1>6

\* A name in the table is shorter than its buffer.
LEMMA SafeCopyProperties ==
  ASSUME NEW name \in Seq(Character)
  PROVE  /\ SafeCopy(name) \in Seq(Character) /\ Len(SafeCopy(name)) < NameLength
         /\ Len(name) < NameLength => SafeCopy(name) = name
BY CutProperties, StructTableAssumption DEF StructTableAssumption, SafeCopy

\* find_struct_index: the first entry of the name, if there is one.
LEMMA FindProperties ==
  ASSUME NEW table \in Seq(Entry), NEW name
  PROVE  LET index == FindStructIndex(table, name) IN
         \/ /\ index = NotFound
            /\ \A i \in DOMAIN table : table[i].name # name
         \/ index \in DOMAIN table /\ index # NotFound /\ table[index].name = name
<1> DEFINE at == {i \in DOMAIN table : table[i].name = name}
<1>1. DOMAIN table = 1..Len(table) /\ Len(table) \in Nat
  OBVIOUS
<1>2. CASE at = {}
  BY <1>2 DEF FindStructIndex
<1>3. CASE at # {}
  <2> DEFINE S == {k \in Nat : \A i \in at : i <= k => \E x \in at : \A y \in at : x <= y}
  <2>1. 0 \in S
    BY <1>1
  <2>2. ASSUME NEW k \in Nat, k \in S PROVE k + 1 \in S
    <3>1. CASE \E y \in at : y <= k
      BY <2>2, <3>1
    <3>2. CASE \A y \in at : ~(y <= k)
      <4>1. \A i \in at : i <= k + 1 => \A y \in at : i <= y
        BY <1>1, <3>2
      <4>2. QED BY <4>1
    <3>3. QED BY <3>1, <3>2
  <2> HIDE DEF S
  <2>3. \A k \in Nat : k \in S
    BY <2>1, <2>2, Induction
  <2>4. PICK i \in at : TRUE
    BY <1>3
  <2>5. i \in Nat /\ i <= i
    BY <1>1
  <2>6. \E x \in at : \A y \in at : x <= y
    BY <2>3, <2>5 DEF S
  <2>7. FindStructIndex(table, name) \in at
    BY <1>3, <2>6, Zenon DEF FindStructIndex
  <2>8. QED BY <1>1, <2>7 DEF NotFound
<1>4. QED BY <1>2, <1>3

\* The state of parse_struct between two fields.
FillState(length) ==
  {state \in [table : Seq(Entry), errors : BOOLEAN] : Len(state.table) = length}
RegisterNext(index, state, field) ==
  IF state.errors THEN state ELSE RegisterStructField(state, index, field)

\* One field: the entry of the struct gets it, or there is an error.
LEMMA RegisterNextType ==
  ASSUME NEW length \in Nat, NEW index \in 1..length,
         NEW state \in FillState(length), NEW field \in Seq(Character)
  PROVE  LET next == RegisterNext(index, state, field) IN
         /\ next \in FillState(length)
         /\ \A j \in 1..length : /\ next.table[j].name = state.table[j].name
                                 /\ j # index => next.table[j] = state.table[j]
         /\ \/ next.table[index].fields = state.table[index].fields
            \/ /\ ~next.errors
               /\ Len(state.table[index].fields) < MaxStructFields
               /\ next.table[index].fields
                    = Append(state.table[index].fields, SafeCopy(field))
         /\ ~next.errors => /\ ~state.errors
                            /\ next.table[index].fields
                                 = Append(state.table[index].fields, SafeCopy(field))
<1> DEFINE next == RegisterNext(index, state, field)
           table == state.table
           old == table[index].fields
           new == Append(old, SafeCopy(field))
<1>1. /\ table \in Seq(Entry) /\ Len(table) = length /\ state.errors \in BOOLEAN
      /\ state = [table |-> table, errors |-> state.errors]
  BY DEF FillState
<1>2. /\ table[index] \in Entry /\ old \in Seq(Seq(Character)) /\ Len(old) \in Nat
      /\ table[index] = [name |-> table[index].name, fields |-> old]
      /\ table[index].name \in Seq(Character)
  <2>1. table[index] \in Entry
    BY <1>1
  <2> HIDE DEF table
  <2>2. QED BY <2>1 DEF Entry
<1>3. new \in Seq(Seq(Character))
  BY <1>2, SafeCopyProperties, AppendProperties
<1>4. CASE state.errors \/ FieldsFull(table[index])
  <2>1. next = [table |-> table, errors |-> TRUE]
    BY <1>1, <1>4 DEF RegisterNext, RegisterStructField
  <2>2. QED BY <1>1, <2>1 DEF FillState
<1>5. CASE ~state.errors /\ ~FieldsFull(table[index])
  <2> DEFINE full == [table EXCEPT ![index].fields = Append(@, SafeCopy(field))]
             entry == [name |-> table[index].name, fields |-> new]
  <2>1. next = [table |-> full, errors |-> FALSE]
    BY <1>5 DEF RegisterNext, RegisterStructField
  <2>2. full = [table EXCEPT ![index] = entry]
    <3>1. full = [table EXCEPT ![index] = [table[index] EXCEPT !.fields = new]]
      BY Zenon DEF full, new
    <3>2. PICK e : e = table[index]
      OBVIOUS
    <3> HIDE DEF new, table, old
    <3>3. [e EXCEPT !.fields = new] = [name |-> e.name, fields |-> new]
      BY <1>2, <3>2
    <3>4. QED BY <3>1, <3>2, <3>3 DEF entry
  <2>3. entry \in Entry
    BY <1>2, <1>3 DEF Entry
  <2> HIDE DEF full, entry
  <2>4. /\ full \in Seq(Entry) /\ Len(full) = length
        /\ \A j \in 1..length : full[j] = IF j = index THEN entry ELSE table[j]
    BY <1>1, <2>2, <2>3, ExceptSeq
  <2>5. Len(old) < MaxStructFields
    BY <1>2, <1>5, StructTableAssumption DEF FieldsFull, StructTableAssumption
  <2>6. entry.name = table[index].name /\ entry.fields = new
    BY DEF entry
  <2>7. full[index] = entry
    BY <2>4
  <2>8. \A j \in 1..length : /\ full[j].name = table[j].name
                             /\ j # index => full[j] = table[j]
    BY <2>4, <2>6
  <2>9. next.table = full /\ next.errors = FALSE /\ next \in FillState(length)
    BY <2>1, <2>4 DEF FillState
  <2> HIDE DEF next, new
  <2>10. next.table[index].fields = new
    BY <2>6, <2>7, <2>9
  <2>11. QED BY <1>5, <2>5, <2>8, <2>9, <2>10 DEF next, new
<1>6. QED BY <1>1, <1>4, <1>5

\* parse_struct registers the fields one by one.
LEMMA RegisterFold ==
  ASSUME NEW table \in Seq(Entry), NEW index \in 1..Len(table),
         NEW s \in Seq(Seq(Character))
  PROVE  \E f \in [0..Len(s) -> FillState(Len(table))] :
           /\ f[0] = [table |-> table, errors |-> FALSE]
           /\ \A k \in 1..Len(s) : f[k] = RegisterNext(index, f[k - 1], s[k])
           /\ RegisterFields(table, index, s) = f[Len(s)]
<1> DEFINE n == Len(s)
           T == FillState(Len(table))
           base == [table |-> table, errors |-> FALSE]
           Body(F) == [t \in SUBSET (1..n) |->
                         IF t = {} THEN base
                         ELSE RegisterNext(index, F[t \ {Max(t)}], s[Max(t)])]
           F == CHOOSE f : f = Body(f)
           Step(X) == [p \in (1..n) \X X |-> RegisterNext(index, p[2], s[p[1]])]
<1>1. n \in Nat /\ DOMAIN s = 1..n /\ \A k \in 1..n : s[k] \in Seq(Character)
  OBVIOUS
<1>2. ASSUME NEW k \in 1..n, NEW x \in T
      PROVE  RegisterNext(index, x, s[k]) \in T
  <2>1. Len(table) \in Nat
    OBVIOUS
  <2>2. QED BY <1>1, <2>1, RegisterNextType
<1>0. base \in T
  BY DEF FillState
<1>3. \E f : f = Body(f)
  <2>1. Step(T) \in [(1..n) \X T -> T]
    BY <1>2
  <2> HIDE DEF n, T, Step, base
  <2>2. PICK h \in [SUBSET (1..n) -> T] : Recursion(n, base, Step(T), h)
    BY <1>0, <1>1, <2>1, FoldExists
  <2>3. ASSUME NEW t \in SUBSET (1..n)
        PROVE  h[t] = IF t = {} THEN base
                      ELSE RegisterNext(index, h[t \ {Max(t)}], s[Max(t)])
    <3>1. CASE t = {}
      BY <2>2, <3>1 DEF Recursion
    <3>2. CASE t # {}
      <4>1. Max(t) \in 1..n /\ t \ {Max(t)} \in SUBSET (1..n)
        BY <1>1, <3>2, MaxOfSubset
      <4>2. h[t] = Step(T)[<<Max(t), h[t \ {Max(t)}]>>]
        BY <2>2, <3>2 DEF Recursion
      <4>3. <<Max(t), h[t \ {Max(t)}]>> \in (1..n) \X T
        BY <2>2, <4>1
      <4>4. QED BY <3>2, <4>2, <4>3 DEF Step
    <3>3. QED BY <3>1, <3>2
  <2>4. h = Body(h)
    BY <2>2, <2>3
  <2>5. QED BY <2>4
<1>4. F = Body(F)
  <2> HIDE DEF Body
  <2>1. QED BY <1>3
<1>5. RegisterFields(table, index, s) = F[1..n]
  BY <1>1, Zenon DEF RegisterFields, RegisterNext, FoldLeft, MapThenFoldSet
<1> DEFINE X == T \cup {F[t] : t \in SUBSET (1..n)}
<1> HIDE DEF F
<1>6. Recursion(n, base, Step(X), F)
  <2>1. ASSUME NEW t \in SUBSET (1..n)
        PROVE  F[t] = IF t = {} THEN base
                      ELSE Step(X)[<<Max(t), F[t \ {Max(t)}]>>]
    <3>1. F[t] = IF t = {} THEN base ELSE RegisterNext(index, F[t \ {Max(t)}], s[Max(t)])
      BY <1>4
    <3>2. t # {} => /\ Max(t) \in 1..n /\ t \ {Max(t)} \in SUBSET (1..n)
      BY <1>1, MaxOfSubset
    <3>3. t # {} => <<Max(t), F[t \ {Max(t)}]>> \in (1..n) \X X
      BY <3>2
    <3>4. QED BY <3>1, <3>3
  <2>2. QED BY <2>1 DEF Recursion
<1> DEFINE g == Step(X)
<1>7. \A k \in 1..n, x \in T : g[<<k, x>>] = RegisterNext(index, x, s[k])
  OBVIOUS
<1>8. Recursion(n, base, g, F)
  BY <1>6
<1>9. Closed(n, T, g)
  BY <1>2, <1>7 DEF Closed
<1> HIDE DEF T, g, X, Step, Body, n, base
<1>11. PICK f \in [0..n -> T] : Along(n, base, g, f) /\ F[1..n] = f[n]
  <2>1. n \in Nat
    BY <1>1
  <2>2. \E f \in [0..n -> T] : Along(n, base, g, f) /\ F[1..n] = f[n]
    BY <2>1, <1>8, <1>9, <1>0, FoldAlong
  <2>3. QED BY <2>2
<1>12. f[0] = base /\ \A k \in 1..n : f[k] = g[<<k, f[k - 1]>>]
  BY <1>11 DEF Along
<1>13. \A k \in 1..n : f[k - 1] \in T
  BY <1>1, <1>11
<1>14. \A k \in 1..n : f[k] = RegisterNext(index, f[k - 1], s[k])
  BY <1>7, <1>12, <1>13
<1>15. QED BY <1>5, <1>11, <1>12, <1>14 DEF n, T, base


LEMMA ConcatAppend ==
  ASSUME NEW T, NEW s \in Seq(T), NEW t \in Seq(T), NEW e \in T
  PROVE  Same(Append(s \o t, e), s \o Append(t, e))
BY DEF Same

\* The fields of an entry are within the bounds of the table.
Within(fields) ==
  /\ Len(fields) <= MaxStructFields
  /\ \A k \in DOMAIN fields : Len(fields[k]) < NameLength

\* A field more is within the bounds where there was room for it.
LEMMA AppendWithin ==
  ASSUME NEW a \in Seq(Seq(Character)), Within(a), Len(a) < MaxStructFields,
         NEW c \in Seq(Character), Len(c) < NameLength
  PROVE  Within(Append(a, c))
<1> DEFINE b == Append(a, c)
<1>1. /\ Len(b) = Len(a) + 1 /\ \A i \in 1..Len(a) : b[i] = a[i]
      /\ b[Len(a) + 1] = c /\ b \in Seq(Seq(Character))
  BY AppendProperties
<1> HIDE DEF b
<1>2. Len(a) \in Nat /\ DOMAIN a = 1..Len(a) /\ DOMAIN b = 1..Len(b)
  BY <1>1
<1>3. Len(b) <= MaxStructFields
  BY <1>1, <1>2, StructTableAssumption DEF StructTableAssumption
<1>4. ASSUME NEW i \in DOMAIN b PROVE Len(b[i]) < NameLength
  <2>1. CASE i \in 1..Len(a)
    BY <1>1, <1>2, <2>1 DEF Within
  <2>2. CASE i = Len(a) + 1
    BY <1>1, <2>2
  <2>3. QED BY <1>1, <1>2, <2>1, <2>2
<1>5. Within(b)
  BY <1>3, <1>4 DEF Within
<1>6. QED BY <1>5 DEF b

\* What is registered: fields of the one entry, within the bounds, and all of
\* them unless there is an error.
LEMMA RegisterFieldsProperties ==
  ASSUME NEW table \in Seq(Entry), NEW index \in 1..Len(table),
         NEW fields \in Seq(Seq(Character)),
         Within(table[index].fields)
  PROVE  LET r == RegisterFields(table, index, fields)
             got == r.table[index].fields
         IN  /\ r \in FillState(Len(table))
             /\ \A j \in 1..Len(table) : /\ r.table[j].name = table[j].name
                                         /\ j # index => r.table[j] = table[j]
             /\ Within(got)
             /\ ~r.errors /\ (\A k \in DOMAIN fields : Len(fields[k]) < NameLength)
                  => got = table[index].fields \o fields
<1> DEFINE length == Len(table)
           n == Len(fields)
           old == table[index].fields
           fits == \A k \in DOMAIN fields : Len(fields[k]) < NameLength
<1>1. /\ n \in Nat /\ DOMAIN fields = 1..n /\ length \in Nat
      /\ \A k \in 1..n : fields[k] \in Seq(Character)
  OBVIOUS
<1>2. PICK f \in [0..n -> FillState(length)] :
        /\ f[0] = [table |-> table, errors |-> FALSE]
        /\ \A k \in 1..n : f[k] = RegisterNext(index, f[k - 1], fields[k])
        /\ RegisterFields(table, index, fields) = f[n]
  BY RegisterFold
<1>3. old \in Seq(Seq(Character))
  <2>1. table[index] \in Entry
    OBVIOUS
  <2>2. QED BY <2>1 DEF Entry
<1> DEFINE Got(k) == f[k].table[index].fields
           P(k) == k <= n =>
             /\ \A j \in 1..length : /\ f[k].table[j].name = table[j].name
                                     /\ j # index => f[k].table[j] = table[j]
             /\ Within(Got(k))
             /\ ~f[k].errors /\ fits => Got(k) = old \o SubSeq(fields, 1, k)
           S == {k \in Nat : P(k)}
<1>4. \A k \in 0..n : /\ f[k].table \in Seq(Entry) /\ Len(f[k].table) = length
                      /\ Got(k) \in Seq(Seq(Character))
                      /\ f[k].errors \in BOOLEAN
  <2> SUFFICES ASSUME NEW k \in 0..n
               PROVE  /\ f[k].table \in Seq(Entry) /\ Len(f[k].table) = length
                      /\ Got(k) \in Seq(Seq(Character))
                      /\ f[k].errors \in BOOLEAN
    OBVIOUS
  <2>1. f[k] \in FillState(length)
    BY <1>2
  <2>2. f[k].table \in Seq(Entry) /\ Len(f[k].table) = length /\ f[k].errors \in BOOLEAN
    BY <2>1 DEF FillState
  <2>3. f[k].table[index] \in Entry
    BY <2>2
  <2>4. QED BY <2>2, <2>3 DEF Entry
<1>5. P(0)
  <2>1. f[0].table = table /\ Got(0) = old
    BY <1>2
  <2>2. old \o SubSeq(fields, 1, 0) = old
    <3>1. SubSeq(fields, 1, 0) = <<>>
      BY SubSeqEmpty
    <3>2. QED BY <1>3, <3>1, ConcatEmptySeq
  <2>3. QED BY <2>1, <2>2
<1>6. ASSUME NEW k \in Nat, P(k) PROVE P(k + 1)
  <2> SUFFICES ASSUME k + 1 <= n PROVE P(k + 1)
    OBVIOUS
  <2> DEFINE state == f[k]
             field == fields[k + 1]
             next == f[k + 1]
  <2>1. /\ k + 1 \in 1..n /\ (k + 1) - 1 = k /\ k \in 0..n /\ k + 1 \in 0..n
        /\ index \in 1..length
    BY <1>1
  <2>2. next = RegisterNext(index, state, field)
    BY <1>2, <2>1
  <2>3. state \in FillState(length) /\ field \in Seq(Character)
    BY <1>1, <1>2, <2>1
  <2>4. /\ \A j \in 1..length : /\ next.table[j].name = state.table[j].name
                                /\ j # index => next.table[j] = state.table[j]
        /\ \/ Got(k + 1) = Got(k)
           \/ /\ ~next.errors
              /\ Len(Got(k)) < MaxStructFields
              /\ Got(k + 1) = Append(Got(k), SafeCopy(field))
        /\ ~next.errors => ~state.errors /\ Got(k + 1) = Append(Got(k), SafeCopy(field))
    <3>1. PICK x, y, z : x = state /\ y = field /\ z = next
      OBVIOUS
    <3> HIDE DEF length, state, field, next
    <3>2. /\ \A j \in 1..length : /\ z.table[j].name = x.table[j].name
                                  /\ j # index => z.table[j] = x.table[j]
          /\ \/ z.table[index].fields = x.table[index].fields
             \/ /\ ~z.errors
                /\ Len(x.table[index].fields) < MaxStructFields
                /\ z.table[index].fields = Append(x.table[index].fields, SafeCopy(y))
          /\ ~z.errors => /\ ~x.errors
                          /\ z.table[index].fields
                               = Append(x.table[index].fields, SafeCopy(y))
      <4>1. /\ x \in FillState(length) /\ y \in Seq(Character)
            /\ z = RegisterNext(index, x, y)
        BY <2>2, <2>3, <3>1
      <4>2. QED BY <1>1, <2>1, <4>1, RegisterNextType
    <3>3. QED BY <3>1, <3>2, Zenon DEF state, field, next
  <2>5. /\ \A j \in 1..length : /\ state.table[j].name = table[j].name
                                /\ j # index => state.table[j] = table[j]
        /\ Within(Got(k))
        /\ ~state.errors /\ fits => Got(k) = old \o SubSeq(fields, 1, k)
    <3> HIDE DEF Got, length, fits
    <3>1. k <= n
      BY <2>1
    <3>2. QED BY <1>6, <3>1, Zenon
  <2>6. /\ SafeCopy(field) \in Seq(Character) /\ Len(SafeCopy(field)) < NameLength
        /\ fits => SafeCopy(field) = field
    <3>1. fits => Len(field) < NameLength
      BY <1>1, <2>1
    <3>2. QED BY <2>3, <3>1, SafeCopyProperties
  <2>7. Got(k) \in Seq(Seq(Character)) /\ Got(k + 1) \in Seq(Seq(Character))
    BY <1>4, <2>1
  <2>8. Within(Got(k + 1))
    <3> HIDE DEF Got
    <3>1. CASE Got(k + 1) = Got(k)
      BY <2>5, <3>1
    <3>2. CASE Len(Got(k)) < MaxStructFields
               /\ Got(k + 1) = Append(Got(k), SafeCopy(field))
      BY <2>5, <2>6, <2>7, <3>2, AppendWithin
    <3>3. QED BY <2>4, <3>1, <3>2
  <2>9. ASSUME ~next.errors, fits
        PROVE  Got(k + 1) = old \o SubSeq(fields, 1, k + 1)
    <3> DEFINE s == SubSeq(fields, 1, k)
    <3>1. Got(k) = old \o s /\ Got(k + 1) = Append(Got(k), field)
      BY <2>4, <2>5, <2>6, <2>9
    <3>2. s \in Seq(Seq(Character)) /\ Append(s, field) = SubSeq(fields, 1, k + 1)
      <4>1. \A i \in 1..k : fields[i] \in Seq(Character)
        BY <1>1, <2>1
      <4>2. s \in Seq(Seq(Character)) /\ k \in Int
        BY <4>1, SubSeqProperties
      <4>3. SubSeq(fields, 1, k + 1) = SubSeq(fields, 1, k) \o <<fields[k + 1]>>
        <5>1. 1 \in 1..Len(fields) /\ k + 1 \in 1..Len(fields)
          BY <1>1, <2>1
        <5>2. SubSeq(fields, 1, k + 1) = SubSeq(fields, 1, (k + 1) - 1) \o <<fields[k + 1]>>
          BY <5>1, SubSeqRecursiveSecond
        <5>3. QED BY <2>1, <5>2
      <4> HIDE DEF s
      <4>4. Append(s, field) = s \o <<field>>
        BY <2>3, <4>2, AppendIsConcat
      <4>5. QED BY <4>2, <4>3, <4>4 DEF s
    <3> HIDE DEF s
    <3>3. Append(old \o s, field) = old \o Append(s, field)
      <4> HIDE DEF old, field
      <4>1. PICK x, y, z : x = old /\ y = s /\ z = field
        OBVIOUS
      <4>2. x \in Seq(Seq(Character)) /\ y \in Seq(Seq(Character)) /\ z \in Seq(Character)
        BY <1>3, <2>3, <3>2, <4>1
      <4>3. Same(Append(x \o y, z), x \o Append(y, z))
        BY <4>2, ConcatAppend
      <4>4. QED BY <4>1, <4>3, Zenon DEF Same
    <3>4. QED BY <3>1, <3>2, <3>3
  <2>10. \A j \in 1..length : /\ next.table[j].name = table[j].name
                              /\ j # index => next.table[j] = table[j]
    BY <2>4, <2>5
  <2>11. QED BY <2>8, <2>9, <2>10
<1> HIDE DEF P
<1>7. 0 \in S /\ \A k \in Nat : k \in S => k + 1 \in S
  BY <1>5, <1>6
<1> HIDE DEF S
<1>8. n \in S
  BY <1>1, <1>7, Induction
<1>9. P(n) /\ n <= n
  BY <1>1, <1>8 DEF S
<1>10. SubSeq(fields, 1, n) = fields
  BY SubSeqFull
<1>11. f[n] \in FillState(length)
  BY <1>1, <1>2
<1> PICK r : r = RegisterFields(table, index, fields)
  OBVIOUS
<1>12. r = f[n]
  BY <1>2
<1>13. /\ \A j \in 1..length : /\ r.table[j].name = table[j].name
                               /\ j # index => r.table[j] = table[j]
       /\ Within(r.table[index].fields)
       /\ ~r.errors /\ fits => r.table[index].fields = old \o fields
  BY <1>9, <1>10, <1>12 DEF P
<1>14. QED BY <1>11, <1>12, <1>13
-----------------------------------------------------------------------------
(* References to fields. *)

Printed == Character \cup {"."}

\* emit_variable_reference puts a dot in the place of a double underscore, and
\* copies what is none.
LEMMA DecodeAppends ==
  ASSUME NEW out \in Seq(Printed), NEW c \in Printed,
         ~(c = U /\ out # <<>> /\ out[Len(out)] = U)
  PROVE  LET d == Decode(out, c) IN
         /\ d \in Seq(Printed) /\ Len(d) = Len(out) + 1
         /\ \A i \in 1..Len(out) : d[i] = out[i]
         /\ d[Len(out) + 1] = c
<1>1. Decode(out, c) = Append(out, c)
  BY DEF Decode, Last
<1>2. QED BY <1>1, AppendProperties

LEMMA DecodeReplaces ==
  ASSUME NEW out \in Seq(Printed), out # <<>>, out[Len(out)] = U
  PROVE  LET d == Decode(out, U) IN
         /\ d \in Seq(Printed) /\ Len(d) = Len(out)
         /\ \A i \in 1..(Len(out) - 1) : d[i] = out[i]
         /\ d[Len(out)] = "."
<1> DEFINE m == Len(out) - 1
           front == SubSeq(out, 1, m)
<1>1. Decode(out, U) = Append(front, ".")
  BY DEF Decode, Last, Front
<1>2. m \in Nat /\ \A i \in 1..m : out[i] \in Printed
  OBVIOUS
<1>4. "." \in Printed /\ Len(out) = m + 1
  BY <1>2 DEF Printed
<1> HIDE DEF m
<1>3. (IF 1 <= m THEN m - 1 + 1 ELSE 0) = m /\ \A i \in 1..m : 1 + i - 1 = i
  BY <1>2
<1>5. front \in Seq(Printed) /\ Len(front) = m /\ \A i \in 1..m : front[i] = out[i]
  BY <1>2, <1>3, SubSeqProperties
<1> HIDE DEF front
<1> DEFINE d == Append(front, ".")
<1>6. /\ d \in Seq(Printed) /\ Len(d) = m + 1 /\ d[m + 1] = "."
      /\ \A i \in 1..m : d[i] = front[i]
  BY <1>4, <1>5, AppendProperties
<1> HIDE DEF d
<1>7. Decode(out, U) = d
  BY <1>1 DEF d
<1>8. Len(out) - 1 = m
  BY <1>2, <1>4
<1>9. QED BY <1>4, <1>5, <1>6, <1>7, <1>8

LEMMA DecodeType ==
  ASSUME NEW out \in Seq(Printed), NEW c \in Printed
  PROVE  Decode(out, c) \in Seq(Printed)
BY DecodeAppends, DecodeReplaces

\* emit_variable_reference, character by character.
LEMMA DecodedFold ==
  ASSUME NEW s \in Seq(Printed)
  PROVE  \E f \in [0..Len(s) -> Seq(Printed)] :
           /\ f[0] = <<>>
           /\ \A k \in 1..Len(s) : f[k] = Decode(f[k - 1], s[k])
           /\ Decoded(s) = f[Len(s)]
<1> DEFINE n == Len(s)
           T == Seq(Printed)
           base == <<>>
           Body(F) == [t \in SUBSET (1..n) |->
                         IF t = {} THEN base
                         ELSE Decode(F[t \ {Max(t)}], s[Max(t)])]
           F == CHOOSE f : f = Body(f)
           Step(X) == [p \in (1..n) \X X |-> Decode(p[2], s[p[1]])]
<1>1. n \in Nat /\ DOMAIN s = 1..n /\ \A k \in 1..n : s[k] \in Printed
  OBVIOUS
<1>2. ASSUME NEW k \in 1..n, NEW x \in T
      PROVE  Decode(x, s[k]) \in T
  BY <1>1, DecodeType
<1>3. \E f : f = Body(f)
  <2>1. Step(T) \in [(1..n) \X T -> T]
    BY <1>2
  <2> HIDE DEF n, Step
  <2>2. PICK h \in [SUBSET (1..n) -> T] : Recursion(n, base, Step(T), h)
    <3>1. base \in T
      OBVIOUS
    <3> HIDE DEF T, base
    <3>2. QED BY <1>1, <2>1, <3>1, FoldExists
  <2>3. ASSUME NEW t \in SUBSET (1..n)
        PROVE  h[t] = IF t = {} THEN base
                      ELSE Decode(h[t \ {Max(t)}], s[Max(t)])
    <3>1. CASE t = {}
      BY <2>2, <3>1 DEF Recursion
    <3>2. CASE t # {}
      <4>1. Max(t) \in 1..n /\ t \ {Max(t)} \in SUBSET (1..n)
        BY <1>1, <3>2, MaxOfSubset
      <4>2. h[t] = Step(T)[<<Max(t), h[t \ {Max(t)}]>>]
        BY <2>2, <3>2 DEF Recursion
      <4>3. <<Max(t), h[t \ {Max(t)}]>> \in (1..n) \X T
        BY <2>2, <4>1
      <4>4. QED BY <3>2, <4>2, <4>3 DEF Step
    <3>3. QED BY <3>1, <3>2
  <2>4. h = Body(h)
    BY <2>2, <2>3
  <2>5. QED BY <2>4
<1>4. F = Body(F)
  <2> HIDE DEF Body
  <2>1. QED BY <1>3
<1>5. Decoded(s) = F[1..n]
  BY <1>1, Zenon DEF Decoded, FoldLeft, MapThenFoldSet
<1> DEFINE X == T \cup {F[t] : t \in SUBSET (1..n)}
<1> HIDE DEF F
<1>6. Recursion(n, base, Step(X), F)
  <2>1. ASSUME NEW t \in SUBSET (1..n)
        PROVE  F[t] = IF t = {} THEN base
                      ELSE Step(X)[<<Max(t), F[t \ {Max(t)}]>>]
    <3>1. F[t] = IF t = {} THEN base ELSE Decode(F[t \ {Max(t)}], s[Max(t)])
      BY <1>4
    <3>2. t # {} => /\ Max(t) \in 1..n /\ t \ {Max(t)} \in SUBSET (1..n)
      BY <1>1, MaxOfSubset
    <3>3. t # {} => <<Max(t), F[t \ {Max(t)}]>> \in (1..n) \X X
      BY <3>2
    <3>4. QED BY <3>1, <3>3
  <2>2. QED BY <2>1 DEF Recursion
<1> DEFINE g == Step(X)
<1>7. \A k \in 1..n, x \in T : g[<<k, x>>] = Decode(x, s[k])
  OBVIOUS
<1>8. Recursion(n, base, g, F)
  BY <1>6
<1>9. Closed(n, T, g)
  BY <1>2, <1>7 DEF Closed
<1>10. base \in T
  OBVIOUS
<1> HIDE DEF T, g, X, Step, Body, n, base
<1>11. PICK f \in [0..n -> T] : Along(n, base, g, f) /\ F[1..n] = f[n]
  <2>1. n \in Nat
    BY <1>1
  <2>2. \E f \in [0..n -> T] : Along(n, base, g, f) /\ F[1..n] = f[n]
    BY <2>1, <1>8, <1>9, <1>10, FoldAlong
  <2>3. QED BY <2>2
<1>12. f[0] = base /\ \A k \in 1..n : f[k] = g[<<k, f[k - 1]>>]
  BY <1>11 DEF Along
<1>13. \A k \in 1..n : f[k - 1] \in T
  BY <1>1, <1>11
<1>14. \A k \in 1..n : f[k] = Decode(f[k - 1], s[k])
  BY <1>7, <1>12, <1>13
<1>15. QED BY <1>5, <1>11, <1>12, <1>14 DEF n, T, base


\* Two names one behind the other.
LEMMA ConcatIs ==
  ASSUME NEW T, NEW a \in Seq(T), NEW b \in Seq(T)
  PROVE  /\ a \o b \in Seq(T) /\ Len(a \o b) = Len(a) + Len(b)
         /\ \A i \in 1..Len(a) : (a \o b)[i] = a[i]
         /\ \A i \in 1..Len(b) : (a \o b)[Len(a) + i] = b[i]
<1> PICK n, m : n = Len(a) /\ m = Len(b)
  OBVIOUS
<1>0. n \in Nat /\ m \in Nat
  OBVIOUS
<1>1. /\ a \o b \in Seq(T) /\ Len(a \o b) = Len(a) + Len(b)
      /\ \A i \in 1..Len(a) + Len(b) :
           (a \o b)[i] = IF i <= Len(a) THEN a[i] ELSE b[i - Len(a)]
  BY ConcatProperties
<1> PICK c : c = a \o b
  OBVIOUS
<1>2. /\ c \in Seq(T) /\ Len(c) = n + m
      /\ \A i \in 1..(n + m) : c[i] = IF i <= n THEN a[i] ELSE b[i - n]
  BY <1>1
<1>3. \A i \in 1..n : i \in 1..(n + m) /\ i <= n
  BY <1>0
<1>4. \A i \in 1..m : n + i \in 1..(n + m) /\ ~(n + i <= n) /\ (n + i) - n = i
  BY <1>0
<1>5. (\A i \in 1..n : c[i] = a[i]) /\ (\A i \in 1..m : c[n + i] = b[i])
  BY <1>2, <1>3, <1>4
<1>6. QED BY <1>2, <1>5

\* A field's name in the tree, as the reference prints it: the name of the
\* record, a dot and the name of the field.
LEMMA DecodedIsField ==
  ASSUME NEW name \in Seq(Character), NEW field \in Seq(Character),
         name # <<>>, name[Len(name)] # U, ~HasDouble(name), ~HasDouble(field)
  PROVE  Same(Decoded(Encoded(name, field)), Field(name, field))
<1> DEFINE n == Len(name)
           m == Len(field)
           s == Encoded(name, field)
           r == Field(name, field)
<1>1. n \in Nat \ {0} /\ m \in Nat
  OBVIOUS
<1>2. /\ U \in Character /\ U \in Printed /\ "." \in Printed /\ "." # U
      /\ Character \subseteq Printed
  BY Constants DEF Printed, U
<1>3. /\ s \in Seq(Printed) /\ Len(s) = n + 2 + m
      /\ \A k \in 1..n : s[k] = name[k]
      /\ s[n + 1] = U /\ s[n + 2] = U
      /\ \A k \in 1..m : s[n + 2 + k] = field[k]
  <2>1. PICK mark, left, whole : /\ mark = <<U, U>>
                                 /\ left = name \o mark /\ whole = left \o field
    OBVIOUS
  <2>2. /\ mark \in Seq(Character) /\ Len(mark) = 2 /\ mark[1] = U /\ mark[2] = U
    BY <1>2, <2>1
  <2>3. /\ left \in Seq(Character) /\ Len(left) = n + 2
        /\ \A i \in 1..n : left[i] = name[i]
        /\ \A i \in 1..2 : left[n + i] = mark[i]
    BY <2>1, <2>2, ConcatIs
  <2>4. /\ whole \in Seq(Character) /\ Len(whole) = (n + 2) + m
        /\ \A i \in 1..(n + 2) : whole[i] = left[i]
        /\ \A i \in 1..m : whole[(n + 2) + i] = field[i]
    BY <2>1, <2>3, ConcatIs
  <2>5. s = whole
    BY <2>1, Zenon DEF Encoded
  <2> HIDE DEF s, n, m
  <2>6. whole \in Seq(Printed)
    BY <1>2, <2>4
  <2>7. \A i \in 1..n : i \in 1..(n + 2)
    BY <1>1
  <2>8. n + 1 \in 1..(n + 2) /\ n + 2 \in 1..(n + 2) /\ 1 \in 1..2 /\ 2 \in 1..2
    BY <1>1
  <2>9. QED BY <2>2, <2>3, <2>4, <2>5, <2>6, <2>7, <2>8
<1>4. /\ r \in Seq(Printed) /\ Len(r) = n + 1 + m
      /\ \A k \in 1..n : r[k] = name[k]
      /\ r[n + 1] = "."
      /\ \A k \in 1..m : r[n + 1 + k] = field[k]
  <2>1. PICK mark, left, whole : /\ mark = <<".">>
                                 /\ left = name \o mark /\ whole = left \o field
    OBVIOUS
  <2>2. /\ mark \in Seq(Printed) /\ Len(mark) = 1 /\ mark[1] = "."
        /\ name \in Seq(Printed) /\ field \in Seq(Printed)
    BY <1>2, <2>1
  <2>3. /\ left \in Seq(Printed) /\ Len(left) = n + 1
        /\ \A i \in 1..n : left[i] = name[i]
        /\ \A i \in 1..1 : left[n + i] = mark[i]
    BY <2>1, <2>2, ConcatIs
  <2>4. /\ whole \in Seq(Printed) /\ Len(whole) = (n + 1) + m
        /\ \A i \in 1..(n + 1) : whole[i] = left[i]
        /\ \A i \in 1..m : whole[(n + 1) + i] = field[i]
    BY <2>1, <2>2, <2>3, ConcatIs
  <2>5. r = whole
    BY <2>1, Zenon DEF Field
  <2> HIDE DEF r, n, m
  <2>6. \A i \in 1..n : i \in 1..(n + 1)
    BY <1>1
  <2>7. n + 1 \in 1..(n + 1) /\ 1 \in 1..1
    BY <1>1
  <2>8. QED BY <2>2, <2>3, <2>4, <2>5, <2>6, <2>7
<1>5. /\ \A k \in 1..(n - 1) : ~(name[k] = U /\ name[k + 1] = U)
      /\ \A k \in 1..(m - 1) : ~(field[k] = U /\ field[k + 1] = U)
  BY DEF HasDouble
<1>6. name[n] # U
  OBVIOUS
<1> HIDE DEF s, r
<1>7. PICK f \in [0..Len(s) -> Seq(Printed)] :
        /\ f[0] = <<>> /\ \A k \in 1..Len(s) : f[k] = Decode(f[k - 1], s[k])
        /\ Decoded(s) = f[Len(s)]
  BY <1>3, DecodedFold
<1> HIDE DEF n, m
\* Where the name is copied, its two underscores, and the field.
<1> DEFINE Copies(k) == Len(f[k]) = k /\ \A i \in 1..k : f[k][i] = r[i]
           Pending   == /\ Len(f[n + 1]) = n + 1 /\ f[n + 1][n + 1] = U
                        /\ \A i \in 1..n : f[n + 1][i] = r[i]
           Dotted(k) == Len(f[k]) = k - 1 /\ \A i \in 1..(k - 1) : f[k][i] = r[i]
<1>8. ASSUME NEW k \in 0..(n + 1 + m)
      PROVE  /\ f[k] \in Seq(Printed) /\ Len(f[k]) \in Nat
             /\ f[k] # <<>> <=> Len(f[k]) # 0
             /\ f[k + 1] = Decode(f[k], s[k + 1]) /\ s[k + 1] \in Printed
  <2>1. k \in 0..Len(s) /\ k + 1 \in 1..Len(s) /\ (k + 1) - 1 = k
    BY <1>1, <1>3
  <2>2. f[k] \in Seq(Printed) /\ s[k + 1] \in Printed
    BY <1>3, <1>7, <2>1
  <2>3. f[k + 1] = Decode(f[k], s[k + 1])
    BY <1>7, <2>1
  <2>4. QED BY <2>2, <2>3
<1>9. ASSUME NEW k \in 0..(n - 1), Copies(k)
      PROVE  Copies(k + 1)
  <2>1. k \in 0..(n + 1 + m) /\ k + 1 \in 1..n
    BY <1>1
  <2>2. /\ f[k] \in Seq(Printed) /\ f[k] # <<>> <=> k # 0
        /\ f[k + 1] = Decode(f[k], s[k + 1]) /\ s[k + 1] \in Printed
    BY <1>8, <1>9, <2>1
  <2>3. s[k + 1] = name[k + 1] /\ r[k + 1] = name[k + 1]
    BY <1>3, <1>4, <2>1
  <2>4. k # 0 => f[k][k] = name[k] /\ k \in 1..(n - 1)
    <3> SUFFICES ASSUME k # 0 PROVE f[k][k] = name[k] /\ k \in 1..(n - 1)
      OBVIOUS
    <3>1. k \in 1..k /\ k \in 1..n /\ k \in 1..(n - 1)
      BY <1>1
    <3>2. QED BY <1>4, <1>9, <3>1
  <2>5. ~(s[k + 1] = U /\ f[k] # <<>> /\ f[k][Len(f[k])] = U)
    BY <1>5, <1>9, <2>2, <2>3, <2>4
  <2>6. /\ Len(f[k + 1]) = k + 1 /\ \A i \in 1..k : f[k + 1][i] = f[k][i]
        /\ f[k + 1][k + 1] = s[k + 1]
    <3>1. PICK x, c : x = f[k] /\ c = s[k + 1]
      OBVIOUS
    <3>2. /\ x \in Seq(Printed) /\ c \in Printed
          /\ ~(c = U /\ x # <<>> /\ x[Len(x)] = U)
      BY <2>2, <2>5, <3>1
    <3>3. /\ Len(Decode(x, c)) = Len(x) + 1
          /\ \A i \in 1..Len(x) : Decode(x, c)[i] = x[i]
          /\ Decode(x, c)[Len(x) + 1] = c
      BY <3>2, DecodeAppends
    <3>4. QED BY <1>9, <2>2, <3>1, <3>3
  <2>7. \A i \in 1..(k + 1) : i \in 1..k \/ i = k + 1
    BY <2>1
  <2>8. QED BY <1>9, <2>3, <2>6, <2>7
<1>10. ASSUME Copies(n) PROVE Pending
  <2>1. n \in 0..(n + 1 + m)
    BY <1>1
  <2>2. /\ f[n] \in Seq(Printed)
        /\ f[n + 1] = Decode(f[n], s[n + 1]) /\ s[n + 1] \in Printed
    BY <1>8, <2>1
  <2>3. f[n][n] = name[n]
    <3>1. n \in 1..n
      BY <1>1
    <3>2. QED BY <1>4, <1>10, <3>1
  <2>4. ~(s[n + 1] = U /\ f[n] # <<>> /\ f[n][Len(f[n])] = U)
    BY <1>6, <1>10, <2>3
  <2>5. /\ Len(f[n + 1]) = n + 1 /\ \A i \in 1..n : f[n + 1][i] = f[n][i]
        /\ f[n + 1][n + 1] = s[n + 1]
    <3>1. PICK x, c : x = f[n] /\ c = s[n + 1]
      OBVIOUS
    <3>2. /\ x \in Seq(Printed) /\ c \in Printed
          /\ ~(c = U /\ x # <<>> /\ x[Len(x)] = U)
      BY <2>2, <2>4, <3>1
    <3>3. /\ Len(Decode(x, c)) = Len(x) + 1
          /\ \A i \in 1..Len(x) : Decode(x, c)[i] = x[i]
          /\ Decode(x, c)[Len(x) + 1] = c
      BY <3>2, DecodeAppends
    <3>4. QED BY <1>10, <2>2, <3>1, <3>3
  <2>6. QED BY <1>3, <1>10, <2>5
<1>11. ASSUME Pending PROVE Dotted(n + 2)
  <2>1. n + 1 \in 0..(n + 1 + m) /\ (n + 1) + 1 = n + 2 /\ (n + 2) - 1 = n + 1
        /\ (n + 1) - 1 = n
    BY <1>1
  <2>2. /\ f[n + 1] \in Seq(Printed) /\ f[n + 1] # <<>>
        /\ f[n + 2] = Decode(f[n + 1], U)
    BY <1>1, <1>3, <1>8, <1>11, <2>1
  <2>3. /\ Len(f[n + 2]) = n + 1 /\ \A i \in 1..n : f[n + 2][i] = f[n + 1][i]
        /\ f[n + 2][n + 1] = "."
    <3>1. PICK x : x = f[n + 1]
      OBVIOUS
    <3>2. x \in Seq(Printed) /\ x # <<>> /\ x[Len(x)] = U /\ Len(x) = n + 1
      BY <1>11, <2>2, <3>1
    <3>3. /\ Len(Decode(x, U)) = Len(x)
          /\ \A i \in 1..(Len(x) - 1) : Decode(x, U)[i] = x[i]
          /\ Decode(x, U)[Len(x)] = "."
      BY <3>2, DecodeReplaces
    <3>4. QED BY <2>1, <2>2, <3>1, <3>2, <3>3
  <2>4. \A i \in 1..(n + 1) : i \in 1..n \/ i = n + 1
    BY <1>1
  <2>5. QED BY <1>4, <1>11, <2>1, <2>3, <2>4
<1>12. ASSUME NEW j \in 0..(m - 1), Dotted(n + 2 + j)
       PROVE  Dotted(n + 2 + (j + 1))
  <2> DEFINE k == n + 2 + j
  <2>1. /\ k \in 0..(n + 1 + m) /\ k + 1 = n + 2 + (j + 1) /\ k - 1 = n + 1 + j
        /\ (k + 1) - 1 = k /\ k = n + 1 + (j + 1) /\ j + 1 \in 1..m /\ k - 1 \in 1..(k - 1)
        /\ (k - 1) + 1 = k
    BY <1>1
  <2> HIDE DEF k
  <2>2. /\ f[k] \in Seq(Printed) /\ f[k] # <<>> /\ Len(f[k]) = k - 1
        /\ f[k + 1] = Decode(f[k], s[k + 1]) /\ s[k + 1] \in Printed
        /\ \A i \in 1..(k - 1) : f[k][i] = r[i]
    <3>1. Len(f[k]) = k - 1 /\ \A i \in 1..(k - 1) : f[k][i] = r[i]
      BY <1>12 DEF k
    <3>2. k - 1 # 0
      BY <1>1, <2>1
    <3>3. QED BY <1>8, <2>1, <3>1, <3>2
  <2>3. s[k + 1] = field[j + 1] /\ r[k] = field[j + 1]
    BY <1>3, <1>4, <2>1
  <2>4. f[k][k - 1] = r[n + 1 + j]
    BY <2>1, <2>2
  <2>5. ~(s[k + 1] = U /\ f[k] # <<>> /\ f[k][Len(f[k])] = U)
    <3>1. CASE j = 0
      <4>1. n + 1 + j = n + 1
        BY <1>1, <3>1
      <4>2. QED BY <1>2, <1>4, <2>2, <2>4, <4>1
    <3>2. CASE j # 0
      <4>1. j \in 1..m /\ j \in 1..(m - 1)
        BY <1>1, <3>2
      <4>2. r[n + 1 + j] = field[j]
        BY <1>4, <4>1
      <4>3. QED BY <1>5, <2>2, <2>3, <2>4, <4>1, <4>2
    <3>3. QED BY <3>1, <3>2
  <2>6. /\ Len(f[k + 1]) = (k - 1) + 1 /\ \A i \in 1..(k - 1) : f[k + 1][i] = f[k][i]
        /\ f[k + 1][(k - 1) + 1] = s[k + 1]
    <3>1. PICK x, c : x = f[k] /\ c = s[k + 1]
      OBVIOUS
    <3>2. /\ x \in Seq(Printed) /\ c \in Printed
          /\ ~(c = U /\ x # <<>> /\ x[Len(x)] = U)
      BY <2>2, <2>5, <3>1
    <3>3. /\ Len(Decode(x, c)) = Len(x) + 1
          /\ \A i \in 1..Len(x) : Decode(x, c)[i] = x[i]
          /\ Decode(x, c)[Len(x) + 1] = c
      BY <3>2, DecodeAppends
    <3>4. QED BY <2>2, <3>1, <3>3
  <2>7. \A i \in 1..k : i \in 1..(k - 1) \/ i = k
    BY <2>1
  <2>8. Len(f[k + 1]) = k /\ \A i \in 1..k : f[k + 1][i] = r[i]
    BY <2>1, <2>2, <2>3, <2>6, <2>7
  <2>9. QED BY <2>1, <2>8
<1> DEFINE S == {k \in Nat : k <= n => Copies(k)}
           R == {j \in Nat : j <= m => Dotted(n + 2 + j)}
<1>13. n \in S
  <2>1. Copies(0)
    BY <1>7
  <2>2. ASSUME NEW k \in Nat, k <= n => Copies(k)
        PROVE  k + 1 <= n => Copies(k + 1)
    <3> SUFFICES ASSUME k + 1 <= n PROVE Copies(k + 1)
      OBVIOUS
    <3>1. k \in 0..(n - 1) /\ k <= n
      BY <1>1
    <3> HIDE DEF Copies
    <3>2. QED BY <1>9, <2>2, <3>1
  <2> HIDE DEF Copies
  <2>3. 0 \in S /\ \A k \in Nat : k \in S => k + 1 \in S
    BY <2>1, <2>2
  <2> HIDE DEF S
  <2>4. QED BY <1>1, <2>3, Induction
<1>14. Dotted(n + 2)
  <2> HIDE DEF Copies, Pending, Dotted
  <2>1. Copies(n)
    BY <1>1, <1>13
  <2>2. QED BY <1>10, <1>11, <2>1
<1>15. m \in R
  <2>1. Dotted(n + 2 + 0)
    <3>1. n + 2 + 0 = n + 2
      BY <1>1
    <3>2. QED BY <1>14, <3>1
  <2>2. ASSUME NEW j \in Nat, j <= m => Dotted(n + 2 + j)
        PROVE  j + 1 <= m => Dotted(n + 2 + (j + 1))
    <3> SUFFICES ASSUME j + 1 <= m PROVE Dotted(n + 2 + (j + 1))
      OBVIOUS
    <3>1. j \in 0..(m - 1) /\ j <= m
      BY <1>1
    <3> HIDE DEF Dotted
    <3>2. QED BY <1>12, <2>2, <3>1
  <2> HIDE DEF Dotted
  <2>3. 0 \in R /\ \A j \in Nat : j \in R => j + 1 \in R
    BY <2>1, <2>2
  <2> HIDE DEF R
  <2>4. QED BY <1>1, <2>3, Induction
<1>16. Dotted(n + 2 + m)
  <2> HIDE DEF Dotted
  <2>1. QED BY <1>1, <1>15
<1>17. /\ Decoded(s) \in Seq(Printed) /\ Len(Decoded(s)) = Len(r)
       /\ \A i \in 1..Len(r) : Decoded(s)[i] = r[i]
  <2>1. (n + 2 + m) - 1 = n + 1 + m /\ Len(s) \in 0..Len(s)
    BY <1>1, <1>3
  <2>2. Decoded(s) = f[n + 2 + m] /\ Decoded(s) \in Seq(Printed)
    BY <1>3, <1>7, <2>1
  <2>3. QED BY <1>4, <1>16, <2>1, <2>2
<1>18. PICK d : d = Decoded(s)
  OBVIOUS
<1>19. d = r
  BY <1>4, <1>17, <1>18, SeqEqual
<1>20. QED BY <1>18, <1>19, Zenon DEF Same, s, r

-----------------------------------------------------------------------------
(* One definition more: the table and the definitions it stands for. *)

Tabled(table) ==
  /\ table \in Seq(Entry) /\ Len(table) <= MaxStructs
  /\ \A i \in DOMAIN table : Len(table[i].name) < NameLength /\ Within(table[i].fields)

Definition == [name : StructNames, fields : FieldLists]

\* FieldsDefinedAs, of any definitions D.
FieldsIn(D, name) ==
  FlattenSeq([i \in DOMAIN D |-> IF D[i].name = name THEN D[i].fields ELSE <<>>])

\* What SignalsAssumption says of the names of a program.
LEMMA NamesAreSequences ==
  /\ \A name \in Names \cup StructNames : IsIdentifier(name) /\ name \in Seq(Character)
                                          /\ name # <<>>
  /\ \A fields \in FieldLists : fields \in Seq(Seq(Character))
BY SignalsAssumption, Zenon DEF SignalsAssumption, IsIdentifier

LEMMA FieldsInType ==
  ASSUME NEW D \in Seq(Definition), NEW name
  PROVE  [i \in DOMAIN D |-> IF D[i].name = name THEN D[i].fields ELSE <<>>]
           \in Seq(Seq(Seq(Character)))
<1> DEFINE e(i) == IF D[i].name = name THEN D[i].fields ELSE <<>>
           ss == [i \in DOMAIN D |-> e(i)]
<1>1. Len(D) \in Nat /\ DOMAIN D = 1..Len(D)
  OBVIOUS
<1>2. \A i \in 1..Len(D) : e(i) \in Seq(Seq(Character))
  <2> SUFFICES ASSUME NEW i \in 1..Len(D) PROVE e(i) \in Seq(Seq(Character))
    OBVIOUS
  <2>1. D[i] \in Definition
    OBVIOUS
  <2>2. D[i].fields \in Seq(Seq(Character))
    BY <2>1, NamesAreSequences DEF Definition
  <2>3. QED BY <2>2
<1> HIDE DEF e
<1>3. ss \in [1..Len(D) -> Seq(Seq(Character))]
  BY <1>1, <1>2
<1>4. ss \in Seq(Seq(Seq(Character)))
  BY <1>1, <1>3, SeqDef
<1>5. QED BY <1>4 DEF e

\* A definition more adds its fields to those of its name, and to no other.
LEMMA FieldsInAppend ==
  ASSUME NEW D \in Seq(Definition), NEW d \in Definition, NEW name
  PROVE  /\ d.name = name => Same(FieldsIn(Append(D, d), name),
                                  FieldsIn(D, name) \o d.fields)
         /\ d.name # name => Same(FieldsIn(Append(D, d), name), FieldsIn(D, name))
<1> DEFINE E == Append(D, d)
           x == IF d.name = name THEN d.fields ELSE <<>>
           ss == [i \in DOMAIN D |-> IF D[i].name = name THEN D[i].fields ELSE <<>>]
           tt == [i \in DOMAIN E |-> IF E[i].name = name THEN E[i].fields ELSE <<>>]
<1>1. d.fields \in Seq(Seq(Character)) /\ <<>> \in Seq(Seq(Character))
  BY NamesAreSequences DEF Definition
<1>2. /\ E \in Seq(Definition) /\ Len(E) = Len(D) + 1 /\ E[Len(D) + 1] = d
      /\ \A i \in 1..Len(D) : E[i] = D[i]
  BY AppendProperties
<1> HIDE DEF E
<1>3. Len(D) \in Nat /\ DOMAIN D = 1..Len(D) /\ DOMAIN E = 1..(Len(D) + 1)
  BY <1>2
<1>4. ss \in Seq(Seq(Seq(Character))) /\ tt \in Seq(Seq(Seq(Character)))
  BY <1>2, FieldsInType
<1>5. x \in Seq(Seq(Character))
  BY <1>1
<1>6. /\ Len(ss) = Len(D) /\ Len(tt) = Len(D) + 1 /\ tt[Len(D) + 1] = x
      /\ \A i \in 1..Len(D) : tt[i] = ss[i]
  <2>1. DOMAIN ss = 1..Len(D) /\ DOMAIN tt = 1..(Len(D) + 1)
    BY <1>3
  <2>2. \A i \in 1..Len(D) : i \in 1..(Len(D) + 1)
    BY <1>3
  <2>3. Len(D) + 1 \in 1..(Len(D) + 1)
    BY <1>3
  <2>4. \A i \in 1..Len(D) : tt[i] = ss[i]
    BY <1>2, <1>3, <2>2
  <2>5. tt[Len(D) + 1] = x
    BY <1>2, <1>3, <2>3
  <2> HIDE DEF ss, tt, x
  <2>6. Len(ss) = Len(D) /\ Len(tt) = Len(D) + 1
    BY <1>3, <1>4, <2>1
  <2>7. QED BY <2>4, <2>5, <2>6
<1> HIDE DEF ss, tt, x
<1>7. PICK a : a = Append(ss, x)
  OBVIOUS
<1>8. tt = a
  <2>1. /\ a \in Seq(Seq(Seq(Character))) /\ Len(a) = Len(ss) + 1
        /\ \A i \in 1..Len(ss) : a[i] = ss[i]
        /\ a[Len(ss) + 1] = x
    BY <1>4, <1>5, <1>7, AppendProperties
  <2>2. Len(a) = Len(tt) /\ \A i \in 1..Len(tt) : a[i] = tt[i]
    <3>1. \A i \in 1..(Len(D) + 1) : i \in 1..Len(D) \/ i = Len(D) + 1
      BY <1>3
    <3>2. QED BY <1>6, <2>1, <3>1
  <2>3. QED BY <1>4, <2>1, <2>2, SeqEqual
<1>9. PICK p, q : p = FlattenSeq(ss) /\ q = p \o x
  OBVIOUS
<1>10. FlattenSeq(a) = q
  <2>1. FlattenSeq(Append(ss, x)) = FlattenSeq(ss) \o x
    BY <1>4, <1>5, FlattenAppend
  <2>2. QED BY <1>7, <1>9, <2>1
<1>11. FieldsIn(D, name) = p /\ FieldsIn(Append(D, d), name) = q
  BY <1>8, <1>9, <1>10, Zenon DEF FieldsIn, ss, tt, E
<1>12. p \in Seq(Seq(Character))
  BY <1>4, <1>9, FlattenToSet
<1>13. d.name = name => q = p \o d.fields
  BY <1>9 DEF x
<1>14. d.name # name => q = p
  BY <1>9, <1>12, ConcatEmptySeq DEF x
<1>15. QED BY <1>11, <1>13, <1>14, Zenon DEF Same

LEMMA FieldsInNone ==
  ASSUME NEW D \in Seq(Definition), NEW name,
         \A i \in DOMAIN D : D[i].name # name
  PROVE  FieldsIn(D, name) = <<>>
<1> DEFINE ss == [i \in DOMAIN D |-> IF D[i].name = name THEN D[i].fields ELSE <<>>]
<1>1. ss \in Seq(Seq(Seq(Character)))
  BY FieldsInType
<1>2. \A i \in DOMAIN ss : ToSet(ss[i]) = {}
  BY DEF ToSet
<1>3. FieldsIn(D, name) = FlattenSeq(ss)
  BY DEF FieldsIn
<1> HIDE DEF ss
<1>4. /\ FlattenSeq(ss) \in Seq(Seq(Character))
      /\ ToSet(FlattenSeq(ss)) = UNION {ToSet(ss[i]) : i \in DOMAIN ss}
  BY <1>1, FlattenToSet
<1>5. ToSet(FlattenSeq(ss)) = {}
  BY <1>2, <1>4
<1> PICK p : p = FlattenSeq(ss)
  OBVIOUS
<1>6. p \in Seq(Seq(Character)) /\ ToSet(p) = {}
  BY <1>4, <1>5
<1>7. Len(p) = 0
  <2> SUFFICES ASSUME Len(p) # 0 PROVE FALSE
    OBVIOUS
  <2>1. 1 \in DOMAIN p
    BY <1>6
  <2>2. p[1] \in ToSet(p)
    BY <2>1 DEF ToSet
  <2>3. QED BY <1>6, <2>2
<1>8. p = <<>>
  BY <1>6, <1>7, EmptySeq
<1>9. QED BY <1>3, <1>8

\* What the fields of a name are.
LEMMA FieldsInToSet ==
  ASSUME NEW D \in Seq(Definition), NEW name
  PROVE  /\ FieldsIn(D, name) \in Seq(Seq(Character))
         /\ ToSet(FieldsIn(D, name))
              = UNION {ToSet(D[i].fields) : i \in {j \in DOMAIN D : D[j].name = name}}
<1> DEFINE ss == [i \in DOMAIN D |-> IF D[i].name = name THEN D[i].fields ELSE <<>>]
<1>1. ss \in Seq(Seq(Seq(Character))) /\ DOMAIN ss = DOMAIN D
  BY FieldsInType
<1>2. \A i \in DOMAIN D : ToSet(ss[i]) = IF D[i].name = name THEN ToSet(D[i].fields)
                                         ELSE {}
  BY DEF ToSet
<1>3. FieldsIn(D, name) = FlattenSeq(ss)
  BY DEF FieldsIn
<1> HIDE DEF ss
<1>4. /\ FlattenSeq(ss) \in Seq(Seq(Character))
      /\ ToSet(FlattenSeq(ss)) = UNION {ToSet(ss[i]) : i \in DOMAIN ss}
  BY <1>1, FlattenToSet
<1>5. UNION {ToSet(ss[i]) : i \in DOMAIN D}
        = UNION {ToSet(D[i].fields) : i \in {j \in DOMAIN D : D[j].name = name}}
  BY <1>2
<1>6. QED BY <1>1, <1>3, <1>4, <1>5

\* register_struct on a table that is not full: the entry of the name.
LEMMA RegisteredStruct ==
  ASSUME NEW table, Tabled(table), NEW name \in Seq(Character)
  PROVE  LET r == RegisterStruct(table, name) IN
         \/ r.index = NotFound
         \/ /\ Tabled(r.table) /\ r.index \in DOMAIN r.table /\ r.index # NotFound
            /\ \/ r.table = table /\ table[r.index].name = name
               \/ /\ \A i \in DOMAIN table : table[i].name # name
                  /\ Len(r.table) = Len(table) + 1 /\ r.index = Len(table) + 1
                  /\ \A i \in 1..Len(table) : r.table[i] = table[i]
                  /\ r.table[r.index] = [name |-> SafeCopy(name), fields |-> <<>>]
<1> DEFINE existing == FindStructIndex(table, name)
           r == RegisterStruct(table, name)
           entry == [name |-> SafeCopy(name), fields |-> <<>>]
<1>1. /\ table \in Seq(Entry) /\ Len(table) \in Nat /\ DOMAIN table = 1..Len(table)
      /\ MaxStructs \in Nat
  BY StructTableAssumption DEF Tabled, StructTableAssumption
<1>2. CASE Len(table) >= MaxStructs
  BY <1>2 DEF RegisterStruct
<1>3. CASE ~(Len(table) >= MaxStructs) /\ existing # NotFound
  <2>1. r = [index |-> existing, table |-> table]
    BY <1>3 DEF RegisterStruct
  <2>2. existing \in DOMAIN table /\ table[existing].name = name
    BY <1>1, <1>3, FindProperties
  <2>3. QED BY <1>3, <2>1, <2>2
<1>4. CASE ~(Len(table) >= MaxStructs) /\ existing = NotFound
  <2> DEFINE longer == Append(table, entry)
  <2>1. r = [index |-> Len(table) + 1, table |-> longer]
    BY <1>4 DEF RegisterStruct
  <2>2. \A i \in DOMAIN table : table[i].name # name
    BY <1>1, <1>4, FindProperties
  <2>3. /\ entry \in Entry /\ entry.fields = <<>> /\ Len(entry.name) < NameLength
    BY SafeCopyProperties DEF Entry
  <2>4. Within(entry.fields)
    BY <2>3, StructTableAssumption DEF Within, StructTableAssumption
  <2> HIDE DEF entry
  <2>5. /\ longer \in Seq(Entry) /\ Len(longer) = Len(table) + 1
        /\ \A i \in 1..Len(table) : longer[i] = table[i]
        /\ longer[Len(table) + 1] = entry
    BY <1>1, <2>3, AppendProperties
  <2> HIDE DEF longer
  <2>6. /\ Len(longer) <= MaxStructs /\ DOMAIN longer = 1..(Len(table) + 1)
        /\ Len(table) + 1 # 0
    BY <1>1, <1>4, <2>5
  <2>7. \A i \in DOMAIN longer : Len(longer[i].name) < NameLength /\ Within(longer[i].fields)
    <3> SUFFICES ASSUME NEW i \in 1..(Len(table) + 1)
                 PROVE  Len(longer[i].name) < NameLength /\ Within(longer[i].fields)
      BY <2>6
    <3>1. CASE i \in 1..Len(table)
      BY <1>1, <2>5, <3>1 DEF Tabled
    <3>2. CASE i = Len(table) + 1
      BY <2>3, <2>4, <2>5, <3>2
    <3>3. QED BY <1>1, <3>1, <3>2
  <2>8. Tabled(longer)
    BY <2>5, <2>6, <2>7 DEF Tabled
  <2>9. r.table = longer /\ r.index = Len(table) + 1
    BY <2>1
  <2>10. Len(table) + 1 \in DOMAIN longer /\ Len(table) + 1 # NotFound
    BY <1>1, <2>6 DEF NotFound
  <2> HIDE DEF r
  <2>11. QED BY <2>2, <2>5, <2>8, <2>9, <2>10 DEF entry, r
<1>5. QED BY <1>2, <1>3, <1>4

\* The table after the fields are registered.
LEMMA FilledStruct ==
  ASSUME NEW table, Tabled(table), NEW index \in DOMAIN table,
         NEW fields \in Seq(Seq(Character))
  PROVE  LET r == RegisterFields(table, index, fields)
         IN  /\ Tabled(r.table) /\ r.errors \in BOOLEAN
             /\ Len(r.table) = Len(table)
             /\ \A j \in DOMAIN table : /\ r.table[j].name = table[j].name
                                        /\ j # index => r.table[j] = table[j]
             /\ ~r.errors /\ (\A k \in DOMAIN fields : Len(fields[k]) < NameLength)
                  => Same(r.table[index].fields, table[index].fields \o fields)
<1>1. /\ table \in Seq(Entry) /\ DOMAIN table = 1..Len(table) /\ index \in 1..Len(table)
      /\ Within(table[index].fields)
  BY DEF Tabled
<1> PICK r : r = RegisterFields(table, index, fields)
  OBVIOUS
<1>2. /\ r \in FillState(Len(table))
      /\ \A j \in 1..Len(table) : /\ r.table[j].name = table[j].name
                                  /\ j # index => r.table[j] = table[j]
      /\ Within(r.table[index].fields)
      /\ ~r.errors /\ (\A k \in DOMAIN fields : Len(fields[k]) < NameLength)
           => r.table[index].fields = table[index].fields \o fields
  BY <1>1, RegisterFieldsProperties
<1>3. r.table \in Seq(Entry) /\ r.errors \in BOOLEAN /\ Len(r.table) = Len(table)
  BY <1>2 DEF FillState
<1>4. Tabled(r.table)
  <2>1. DOMAIN r.table = 1..Len(table) /\ Len(r.table) <= MaxStructs
    BY <1>3 DEF Tabled
  <2>2. ASSUME NEW i \in 1..Len(table)
        PROVE  Len(r.table[i].name) < NameLength /\ Within(r.table[i].fields)
    <3>1. Len(table[i].name) < NameLength /\ Within(table[i].fields)
      BY <1>1 DEF Tabled
    <3>2. CASE i = index
      BY <1>2, <3>1, <3>2
    <3>3. CASE i # index
      BY <1>2, <3>1, <3>3
    <3>4. QED BY <3>2, <3>3
  <2>3. QED BY <1>3, <2>1, <2>2 DEF Tabled
<1>5. ~r.errors /\ (\A k \in DOMAIN fields : Len(fields[k]) < NameLength)
        => Same(r.table[index].fields, table[index].fields \o fields)
  BY <1>2, Zenon DEF Same
<1>6. QED BY <1>1, <1>2, <1>3, <1>4, <1>5

\* The table holds the definitions D: RecordsMatchDefinitions, of the table.
Holds(table, D) ==
  /\ \A i, j \in DOMAIN table : table[i].name = table[j].name => i = j
  /\ \A i \in DOMAIN table : \E k \in DOMAIN D : D[k].name = table[i].name
  /\ \A k \in DOMAIN D : \E i \in DOMAIN table : table[i].name = D[k].name
  /\ \A i \in DOMAIN table : Same(table[i].fields, FieldsIn(D, table[i].name))

Fits(definition) ==
  /\ Len(definition.name) < NameLength
  /\ \A k \in DOMAIN definition.fields : Len(definition.fields[k]) < NameLength

\* The entry n of the name d.name is in the table u, that was table before; and
\* it has got the fields of d in the table v.
Entered(table, u, n, d) ==
  /\ Tabled(u) /\ n \in DOMAIN u
  /\ \/ u = table /\ table[n].name = d.name
     \/ /\ \A i \in DOMAIN table : table[i].name # d.name
        /\ Len(u) = Len(table) + 1 /\ n = Len(table) + 1
        /\ \A i \in 1..Len(table) : u[i] = table[i]
        /\ u[n] = [name |-> SafeCopy(d.name), fields |-> <<>>]
Filled(u, v, n, d) ==
  /\ Tabled(v) /\ Len(v) = Len(u)
  /\ \A j \in DOMAIN u : v[j].name = u[j].name /\ (j # n => v[j] = u[j])
  /\ Same(v[n].fields, u[n].fields \o d.fields)

\* Such a table holds the new definition also.
LEMMA HoldsFilled ==
  ASSUME NEW table, Tabled(table), NEW D \in Seq(Definition), Holds(table, D),
         NEW d \in Definition, Fits(d),
         NEW u, NEW n, Entered(table, u, n, d), NEW v, Filled(u, v, n, d)
  PROVE  Holds(v, Append(D, d))
<1> DEFINE E == Append(D, d)
<1>1. d.name \in Seq(Character) /\ d.fields \in Seq(Seq(Character))
  BY NamesAreSequences DEF Definition
<1>2. /\ n \in DOMAIN u
      /\ \/ u = table /\ table[n].name = d.name
         \/ /\ \A i \in DOMAIN table : table[i].name # d.name
            /\ Len(u) = Len(table) + 1 /\ n = Len(table) + 1
            /\ \A i \in 1..Len(table) : u[i] = table[i]
            /\ u[n] = [name |-> SafeCopy(d.name), fields |-> <<>>]
  BY DEF Entered
<1>3. \A j \in DOMAIN u : v[j].name = u[j].name /\ (j # n => v[j] = u[j])
  BY DEF Filled
<1>16. Same(v[n].fields, u[n].fields \o d.fields)
  BY DEF Filled
<1>4. /\ table \in Seq(Entry) /\ DOMAIN table = 1..Len(table) /\ Len(table) \in Nat
      /\ DOMAIN u = 1..Len(u) /\ DOMAIN v = DOMAIN u
      /\ Len(u) \in Nat
  <2>1. u \in Seq(Entry) /\ v \in Seq(Entry) /\ table \in Seq(Entry) /\ Len(v) = Len(u)
    BY DEF Tabled, Entered, Filled
  <2>2. DOMAIN v = 1..Len(v) /\ DOMAIN u = 1..Len(u)
    BY <2>1
  <2>3. QED BY <2>1, <2>2
<1>5. SafeCopy(d.name) = d.name
  BY <1>1, SafeCopyProperties DEF Fits
<1>6. /\ E \in Seq(Definition) /\ DOMAIN E = 1..(Len(D) + 1) /\ E[Len(D) + 1] = d
      /\ \A i \in 1..Len(D) : E[i] = D[i]
      /\ Len(D) \in Nat /\ DOMAIN D = 1..Len(D)
  BY AppendProperties
<1> HIDE DEF E
<1>7. \A x : (\E k \in DOMAIN E : E[k].name = x)
               <=> x = d.name \/ \E k \in DOMAIN D : D[k].name = x
  <2>1. \A k \in DOMAIN E : k \in DOMAIN D \/ k = Len(D) + 1
    BY <1>6
  <2>2. Len(D) + 1 \in DOMAIN E /\ \A k \in DOMAIN D : k \in DOMAIN E
    BY <1>6
  <2>3. QED BY <1>6, <2>1, <2>2
\* The entries of the table between the name and its fields.
<1>8. /\ u[n].name = d.name
      /\ \A i \in DOMAIN u : i # n =>
           i \in DOMAIN table /\ u[i] = table[i] /\ table[i].name # d.name
      /\ \A i \in DOMAIN table : i \in DOMAIN u /\ u[i].name = table[i].name
      /\ Same(u[n].fields, FieldsIn(D, d.name))
  <2>1. CASE u = table /\ table[n].name = d.name
    <3>1. \A i \in DOMAIN table : i # n => table[i].name # d.name
      BY <1>2, <2>1 DEF Holds
    <3>2. Same(table[n].fields, FieldsIn(D, d.name))
      BY <1>2, <2>1 DEF Holds
    <3>3. QED BY <2>1, <3>1, <3>2
  <2>2. CASE /\ \A i \in DOMAIN table : table[i].name # d.name
             /\ Len(u) = Len(table) + 1 /\ n = Len(table) + 1
             /\ \A i \in 1..Len(table) : u[i] = table[i]
             /\ u[n] = [name |-> SafeCopy(d.name), fields |-> <<>>]
    <3>1. \A i \in DOMAIN D : D[i].name # d.name
      BY <2>2 DEF Holds
    <3>2. FieldsIn(D, d.name) = <<>>
      BY <3>1, FieldsInNone
    <3>3. u[n].name = d.name /\ u[n].fields = <<>>
      BY <1>5, <2>2
    <3>4. \A i \in DOMAIN u : i # n => i \in 1..Len(table)
      BY <1>4, <2>2
    <3>5. \A i \in DOMAIN table : i \in DOMAIN u
      BY <1>4, <2>2
    <3>6. Same(u[n].fields, FieldsIn(D, d.name))
      BY <3>2, <3>3 DEF Same
    <3>7. QED BY <1>4, <2>2, <3>3, <3>4, <3>5, <3>6
  <2>3. QED BY <1>2, <2>1, <2>2
<1>9. ASSUME NEW i \in DOMAIN v, NEW j \in DOMAIN v,
             v[i].name = v[j].name
      PROVE  i = j
  <2>1. u[i].name = u[j].name
    BY <1>3, <1>4, <1>9
  <2>2. CASE i = n \/ j = n
    BY <1>4, <1>8, <2>1, <2>2
  <2>3. CASE i # n /\ j # n
    BY <1>4, <1>8, <2>1, <2>3 DEF Holds
  <2>4. QED BY <2>2, <2>3
<1>10. ASSUME NEW i \in DOMAIN v
       PROVE  \E k \in DOMAIN E : E[k].name = v[i].name
  <2>1. v[i].name = u[i].name /\ i \in DOMAIN u
    BY <1>3, <1>4
  <2>2. CASE i = n
    <3>1. v[i].name = d.name
      BY <1>8, <2>1, <2>2
    <3>2. QED BY <1>7, <3>1, Zenon
  <2>3. CASE i # n
    <3>1. i \in DOMAIN table /\ v[i].name = table[i].name
      BY <1>8, <2>1, <2>3
    <3>2. \E k \in DOMAIN D : D[k].name = v[i].name
      BY <3>1 DEF Holds
    <3>3. QED BY <1>7, <3>2, Zenon
  <2>4. QED BY <2>2, <2>3
<1>11. ASSUME NEW k \in DOMAIN E
       PROVE  \E i \in DOMAIN v : v[i].name = E[k].name
  <2>1. E[k].name = d.name \/ \E h \in DOMAIN D : D[h].name = E[k].name
    BY <1>7
  <2>2. CASE E[k].name = d.name
    BY <1>2, <1>3, <1>4, <1>8, <2>2
  <2>3. CASE \E h \in DOMAIN D : D[h].name = E[k].name
    <3>1. PICK i \in DOMAIN table : table[i].name = E[k].name
      BY <2>3 DEF Holds
    <3>2. i \in DOMAIN u /\ u[i].name = E[k].name
      BY <1>8, <3>1, Zenon
    <3>3. i \in DOMAIN v /\ v[i].name = E[k].name
      BY <1>3, <1>4, <3>2
    <3>4. QED BY <3>3
  <2>4. QED BY <2>1, <2>2, <2>3
<1>12. ASSUME NEW i \in DOMAIN v
       PROVE  Same(v[i].fields, FieldsIn(E, v[i].name))
  <2>1. v[i].name = u[i].name /\ i \in DOMAIN u
    BY <1>3, <1>4
  <2>2. CASE i = n
    <3>1. Same(FieldsIn(E, d.name), FieldsIn(D, d.name) \o d.fields)
      BY FieldsInAppend DEF E
    <3>2. PICK a, b, c : /\ a = FieldsIn(D, d.name) /\ b = d.fields
                         /\ c = FieldsIn(E, d.name)
      OBVIOUS
    <3>3. c = a \o b
      BY <3>1, <3>2, Zenon DEF Same
    <3>4. u[i].fields = a
      BY <1>8, <2>2, <3>2, Zenon DEF Same
    <3>5. v[i].fields = u[i].fields \o b
      BY <1>16, <2>2, <3>2, Zenon DEF Same
    <3>6. v[i].fields = c
      BY <3>3, <3>4, <3>5, Zenon
    <3>7. v[i].name = d.name
      BY <1>8, <2>1, <2>2
    <3>8. QED BY <3>2, <3>6, <3>7, Zenon DEF Same
  <2>3. CASE i # n
    <3>1. v[i] = table[i] /\ i \in DOMAIN table /\ table[i].name # d.name
      BY <1>3, <1>8, <2>1, <2>3
    <3>2. PICK x : x = table[i].name
      OBVIOUS
    <3>3. Same(FieldsIn(E, x), FieldsIn(D, x))
      BY <3>1, <3>2, FieldsInAppend DEF E
    <3>4. Same(table[i].fields, FieldsIn(D, x))
      BY <3>1, <3>2, Zenon DEF Holds
    <3>5. QED BY <3>1, <3>2, <3>3, <3>4, Zenon DEF Same
  <2>4. QED BY <2>2, <2>3
<1>13. Holds(v, E)
  BY <1>9, <1>10, <1>11, <1>12, Zenon DEF Holds
<1>20. QED BY <1>13 DEF E

\* parse_struct leaves a table that holds the new definition also.
LEMMA HoldsAfter ==
  ASSUME NEW table, Tabled(table), NEW D \in Seq(Definition), Holds(table, D),
         NEW d \in Definition, Fits(d),
         NEW r, r = RegisterStruct(table, d.name), r.index # NotFound,
         NEW q, q = RegisterFields(r.table, r.index, d.fields), ~q.errors
  PROVE  Holds(q.table, Append(D, d))
<1>1. PICK u, n, v, w : u = r.table /\ n = r.index /\ v = q.table /\ w = d.fields
  OBVIOUS
<1>2. d.name \in Seq(Character) /\ w \in Seq(Seq(Character))
  BY <1>1, NamesAreSequences DEF Definition
<1>3. Entered(table, u, n, d)
  BY <1>1, <1>2, RegisteredStruct DEF Entered
<1>4. Filled(u, v, n, d)
  <2>1. Tabled(u) /\ n \in DOMAIN u /\ q = RegisterFields(u, n, w)
    BY <1>1, <1>3, Zenon DEF Entered
  <2>2. \A k \in DOMAIN w : Len(w[k]) < NameLength
    BY <1>1 DEF Fits
  <2>3. /\ Tabled(q.table) /\ Len(q.table) = Len(u)
        /\ \A j \in DOMAIN u : /\ q.table[j].name = u[j].name
                               /\ j # n => q.table[j] = u[j]
        /\ Same(q.table[n].fields, u[n].fields \o w)
    BY <1>2, <2>1, <2>2, FilledStruct
  <2>4. \A j \in DOMAIN u : v[j].name = u[j].name /\ (j # n => v[j] = u[j])
    <3> SUFFICES ASSUME NEW j \in DOMAIN u
                 PROVE  v[j].name = u[j].name /\ (j # n => v[j] = u[j])
      OBVIOUS
    <3>1. q.table[j].name = u[j].name /\ (j # n => q.table[j] = u[j])
      BY <2>3, Zenon
    <3>2. v = q.table
      BY <1>1, Zenon
    <3>3. QED BY <3>1, <3>2
  <2>5. Tabled(v) /\ Len(v) = Len(u) /\ Same(v[n].fields, u[n].fields \o d.fields)
    BY <1>1, <2>3, Zenon
  <2>6. QED BY <2>4, <2>5, Zenon DEF Filled
<1>5. QED BY <1>1, <1>3, <1>4, HoldsFilled

-----------------------------------------------------------------------------
(* The inductive invariant. *)

VariableRecord ==
  {v \in [name : Names, type : Types, array : BOOLEAN] : v.array => v.type = NoStruct}

\* What the parser leaves: a table within its bounds, and variables of types
\* that are defined.
Parsed ==
  /\ Tabled(structs) /\ errors \in BOOLEAN
  /\ defined \in Seq(Definition)
  /\ parameters \in Seq(VariableRecord) /\ locals \in Seq(VariableRecord)
  /\ \A v \in ToSet(parameters) \cup ToSet(locals) :
       v.type # NoStruct => \E i \in DOMAIN defined : defined[i].name = v.type

\* The table holds the definitions, where the names fit and there was no error.
Holding ==
  /\ phase # "parse" \/ ~errors
  /\ \A i \in DOMAIN defined : Fits(defined[i])
  => Holds(structs, defined)

Declarations == FlattenSeq([i \in DOMAIN locals |-> SignalDeclaration(locals[i])])
Resets       == FlattenSeq([i \in DOMAIN locals |-> ResetAssignment(locals[i])])
ReferenceOf(i, position) ==
  [variable |-> i, position |-> position, emitted |-> Emitted(Variables[i], position)]
Referred ==
  \E i \in DOMAIN Variables, position \in Positions :
    Usable(Variables[i], position) /\ reference = <<ReferenceOf(i, position)>>

\* What is generated in every phase.
Generated ==
  /\ phase \in {"parse", "records", "ports", "signals", "reset", "body", "end"}
  /\ errors => phase \in {"parse", "end"} /\ ports = <<>>
  /\ \/ ports = <<>>
     \/ /\ phase \in {"signals", "reset", "body", "end"}
        /\ ports = [i \in DOMAIN parameters |-> MappedSignalName(parameters[i].name)]
  /\ phase \in {"ports", "signals", "reset", "body", "end"} => records = structs
  /\ phase \in {"reset", "body", "end"} /\ ~errors => signals = Declarations
  /\ phase \in {"body", "end"} /\ ~errors => resets = Resets
  /\ reference = <<>> \/ (phase = "end" /\ ~errors /\ Referred)

IInv == Parsed /\ Holding /\ Generated

\* The invariant holds before the first declaration is parsed.
LEMMA InitHolds ==
  ASSUME Init
  PROVE  IInv
<1> USE DEF Init, ResetStructTable
<1>1. Parsed
  <2>1. Tabled(<<>>)
    BY StructTableAssumption DEF Tabled, StructTableAssumption
  <2>2. ToSet(parameters) = {} /\ ToSet(locals) = {}
    BY DEF ToSet
  <2>3. /\ defined \in Seq(Definition) /\ parameters \in Seq(VariableRecord)
        /\ locals \in Seq(VariableRecord) /\ errors \in BOOLEAN /\ structs = <<>>
    <3>1. \A S : <<>> \in Seq(S)
      BY EmptySeq
    <3>2. FALSE \in BOOLEAN
      BY Zenon
    <3>3. QED BY <3>1, <3>2, Zenon
  <2>4. QED BY <2>1, <2>2, <2>3, Zenon DEF Parsed
<1>2. Holding
  <2>1. Holds(<<>>, <<>>)
    BY DEF Holds
  <2>2. QED BY <2>1 DEF Holding
<1>3. Generated
  BY DEF Generated
<1>4. QED BY <1>1, <1>2, <1>3 DEF IInv

\* The definitions of the proof and of the model are the same.
LEMMA NamesFitMeansFits ==
  NamesFit <=> \A i \in DOMAIN defined : Fits(defined[i])
BY Zenon DEF NamesFit, Fits

\* A definition is added at the end.
LEMMA OneMore ==
  ASSUME NEW T, NEW s \in Seq(T), NEW e \in T
  PROVE  /\ Append(s, e) \in Seq(T)
         /\ \A i \in DOMAIN s : i \in DOMAIN Append(s, e) /\ Append(s, e)[i] = s[i]
         /\ \A i \in DOMAIN Append(s, e) : i \in DOMAIN s \/ Append(s, e)[i] = e
         /\ \E i \in DOMAIN Append(s, e) : Append(s, e)[i] = e
         /\ ToSet(Append(s, e)) = ToSet(s) \cup {e}
<1>1. /\ Append(s, e) \in Seq(T) /\ Len(Append(s, e)) = Len(s) + 1
      /\ \A i \in 1..Len(s) : Append(s, e)[i] = s[i]
      /\ Append(s, e)[Len(s) + 1] = e
  BY AppendProperties
<1> PICK a : a = Append(s, e)
  OBVIOUS
<1>2. /\ a \in Seq(T) /\ DOMAIN a = 1..(Len(s) + 1) /\ DOMAIN s = 1..Len(s)
      /\ Len(s) \in Nat /\ a[Len(s) + 1] = e /\ \A i \in 1..Len(s) : a[i] = s[i]
  BY <1>1
<1>3. \A i \in DOMAIN s : i \in DOMAIN a /\ a[i] = s[i]
  BY <1>2
<1>4. \A i \in DOMAIN a : i \in DOMAIN s \/ i = Len(s) + 1
  BY <1>2
<1>5. Len(s) + 1 \in DOMAIN a
  BY <1>2
<1>6. ToSet(a) = ToSet(s) \cup {e}
  <2>1. ToSet(a) = {a[i] : i \in DOMAIN a} /\ ToSet(s) = {s[i] : i \in DOMAIN s}
    BY Zenon DEF ToSet
  <2>2. ToSet(a) \subseteq ToSet(s) \cup {e}
    BY <1>2, <1>4, <2>1
  <2>3. ToSet(s) \subseteq ToSet(a)
    BY <1>3, <2>1
  <2>4. e \in ToSet(a)
    BY <1>2, <1>5, <2>1
  <2>5. QED BY <2>2, <2>3, <2>4
<1>7. QED BY <1>2, <1>3, <1>4, <1>5, <1>6

\* Parsing generates nothing.
LEMMA GeneratedInParse ==
  ASSUME Generated, phase = "parse", phase' = "parse",
         UNCHANGED <<ports, reference>>, errors' \in BOOLEAN
  PROVE  Generated'
<1>1. ports = <<>> /\ reference = <<>>
  BY DEF Generated
<1>2. QED BY <1>1 DEF Generated

\* parse_struct: what the table held and the definition's fields are held.
LEMMA DefineStructPreserves ==
  ASSUME IInv, DefineStruct
  PROVE  IInv'
<1>1. PICK name \in StructNames, fields \in FieldLists :
        /\ ParseStruct(name, fields)
        /\ defined' = Append(defined, [name |-> name, fields |-> fields])
  BY DEF DefineStruct
<1>2. /\ phase = "parse" /\ ~errors
      /\ UNCHANGED <<parameters, locals, phase, ports, reference>>
      /\ Variables = <<>>
  BY <1>1, Zenon DEF DefineStruct, ParseStruct
<1>3. PICK d : d = [name |-> name, fields |-> fields]
  OBVIOUS
<1>4. d \in Definition /\ d.name = name /\ d.fields = fields /\ defined' = Append(defined, d)
  BY <1>1, <1>3 DEF Definition
<1>5. name \in Seq(Character) /\ fields \in Seq(Seq(Character))
  BY NamesAreSequences
<1>6. /\ Tabled(structs) /\ errors \in BOOLEAN /\ defined \in Seq(Definition)
      /\ parameters \in Seq(VariableRecord) /\ locals \in Seq(VariableRecord)
  BY DEF IInv, Parsed
<1>7. PICK table, r, q : /\ table = structs /\ r = RegisterStruct(table, name)
                         /\ q = RegisterFields(r.table, r.index, fields)
  OBVIOUS
<1>8. IF r.index = NotFound THEN errors' = TRUE /\ structs' = table
      ELSE errors' = q.errors /\ structs' = q.table
  BY <1>1, <1>7, Zenon DEF ParseStruct
<1>9. r.index # NotFound => Tabled(q.table) /\ q.errors \in BOOLEAN
  <2> SUFFICES ASSUME r.index # NotFound PROVE Tabled(q.table) /\ q.errors \in BOOLEAN
    OBVIOUS
  <2>1. PICK u, n : u = r.table /\ n = r.index
    OBVIOUS
  <2>2. Tabled(r.table) /\ r.index \in DOMAIN r.table
    BY <1>5, <1>6, <1>7, RegisteredStruct
  <2>3. Tabled(u) /\ n \in DOMAIN u /\ q = RegisterFields(u, n, fields)
    BY <1>7, <2>1, <2>2, Zenon
  <2>4. QED BY <1>5, <2>3, FilledStruct
<1>10. Tabled(structs') /\ errors' \in BOOLEAN
  BY <1>6, <1>7, <1>8, <1>9, Zenon
<1>11. Parsed'
  <2>1. defined' \in Seq(Definition)
    BY <1>4, <1>6, OneMore
  <2>2. ToSet(parameters) = {} /\ ToSet(locals) = {}
    <3>1. parameters = <<>> /\ locals = <<>>
      BY <1>2, <1>6, ConcatEqualIffEmpty DEF Variables
    <3>2. QED BY <3>1 DEF ToSet
  <2>3. QED BY <1>2, <1>6, <1>10, <2>1, <2>2 DEF Parsed
<1>12. Holding'
  <2> SUFFICES ASSUME ~errors', \A i \in DOMAIN defined' : Fits(defined'[i])
               PROVE  Holds(structs', defined')
    BY <1>2 DEF Holding
  <2>1. \A i \in DOMAIN defined : i \in DOMAIN defined' /\ defined'[i] = defined[i]
    BY <1>4, <1>6, OneMore
  <2>2. \E i \in DOMAIN defined' : defined'[i] = d
    BY <1>4, <1>6, OneMore
  <2>3. Fits(d) /\ \A i \in DOMAIN defined : Fits(defined[i])
    BY <2>1, <2>2
  <2>4. Holds(table, defined)
    BY <1>2, <1>7, <2>3 DEF IInv, Holding
  <2>5. r.index # NotFound /\ ~q.errors /\ structs' = q.table
    BY <1>8
  <2>6. Holds(q.table, Append(defined, d))
    <3>1. PICK D : D = defined
      OBVIOUS
    <3>2. /\ Tabled(table) /\ D \in Seq(Definition) /\ Holds(table, D)
          /\ r = RegisterStruct(table, d.name)
          /\ q = RegisterFields(r.table, r.index, d.fields)
      BY <1>4, <1>6, <1>7, <2>4, <3>1, Zenon
    <3>3. Holds(q.table, Append(D, d))
      BY <1>4, <2>3, <2>5, <3>2, HoldsAfter
    <3>4. QED BY <3>1, <3>3, Zenon
  <2>7. QED BY <1>4, <2>5, <2>6, Zenon
<1>13. Generated'
  BY <1>2, <1>10, GeneratedInParse DEF IInv
<1>14. QED BY <1>11, <1>12, <1>13 DEF IInv

\* A variable more, of a type that is defined.
LEMMA DeclarablePreserves ==
  ASSUME IInv, NEW v \in VariableRecord, Declarable(v),
         UNCHANGED <<tableVars, defined, phase, records, ports, signals, resets, reference>>,
         \/ parameters' = Append(parameters, v) /\ locals' = locals
         \/ locals' = Append(locals, v) /\ parameters' = parameters
  PROVE  IInv'
<1>1. /\ phase = "parse" /\ ~errors
      /\ v.type # NoStruct => \E i \in DOMAIN defined : defined[i].name = v.type
  BY DEF Declarable
<1>2. UNCHANGED <<structs, errors, defined, phase, ports, reference>>
  BY DEF tableVars
<1>3. Parsed'
  <2>1. /\ Tabled(structs) /\ errors \in BOOLEAN /\ defined \in Seq(Definition)
        /\ parameters \in Seq(VariableRecord) /\ locals \in Seq(VariableRecord)
        /\ \A w \in ToSet(parameters) \cup ToSet(locals) :
             w.type # NoStruct => \E i \in DOMAIN defined : defined[i].name = w.type
    BY Zenon DEF IInv, Parsed
  <2>2. /\ parameters' \in Seq(VariableRecord) /\ locals' \in Seq(VariableRecord)
        /\ ToSet(parameters') \cup ToSet(locals')
             = ToSet(parameters) \cup ToSet(locals) \cup {v}
    <3>1. CASE parameters' = Append(parameters, v) /\ locals' = locals
      BY <2>1, <3>1, OneMore
    <3>2. CASE locals' = Append(locals, v) /\ parameters' = parameters
      BY <2>1, <3>2, OneMore
    <3>3. QED BY <3>1, <3>2
  <2>3. \A w \in ToSet(parameters') \cup ToSet(locals') :
          w.type # NoStruct => \E i \in DOMAIN defined : defined[i].name = w.type
    BY <1>1, <2>1, <2>2
  <2>4. QED BY <1>2, <2>1, <2>2, <2>3, Zenon DEF Parsed
<1>4. Holding'
  BY <1>2 DEF IInv, Holding
<1>5. Generated'
  <2>1. errors' \in BOOLEAN /\ phase' = "parse"
    BY <1>1, <1>2 DEF IInv, Parsed
  <2>2. QED BY <1>1, <1>2, <2>1, GeneratedInParse DEF IInv
<1>6. QED BY <1>3, <1>4, <1>5 DEF IInv

LEMMA ParseSingleParameterPreserves ==
  ASSUME IInv, ParseSingleParameter
  PROVE  IInv'
<1>1. PICK name \in Names, type \in Types :
        LET v == Variable(name, type, FALSE) IN
        Declarable(v) /\ parameters' = Append(parameters, v)
  BY DEF ParseSingleParameter
<1>2. PICK v : v = Variable(name, type, FALSE)
  OBVIOUS
<1>3. v \in VariableRecord
  BY <1>2 DEF Variable, VariableRecord
<1>4. Declarable(v) /\ parameters' = Append(parameters, v)
  BY <1>1, <1>2, Zenon
<1>5. /\ locals' = locals
      /\ UNCHANGED <<tableVars, defined, phase, records, ports, signals, resets, reference>>
  BY DEF ParseSingleParameter
<1>6. QED BY <1>3, <1>4, <1>5, DeclarablePreserves

LEMMA ParseVariableDeclarationPreserves ==
  ASSUME IInv, ParseVariableDeclaration
  PROVE  IInv'
<1>1. PICK name \in Names, type \in Types, array \in BOOLEAN :
        LET v == Variable(name, type, array) IN
        /\ array => type = NoStruct
        /\ Declarable(v) /\ locals' = Append(locals, v)
  BY DEF ParseVariableDeclaration
<1>2. PICK v : v = Variable(name, type, array)
  OBVIOUS
<1>3. v \in VariableRecord
  <2>1. v = [name |-> name, type |-> type, array |-> array]
    BY <1>2 DEF Variable
  <2>2. v \in [name : Names, type : Types, array : BOOLEAN] /\ v.array = array /\ v.type = type
    BY <2>1
  <2>3. QED BY <1>1, <2>2 DEF VariableRecord
<1>4. Declarable(v) /\ locals' = Append(locals, v)
  BY <1>1, <1>2, Zenon
<1>5. /\ parameters' = parameters
      /\ UNCHANGED <<tableVars, defined, phase, records, ports, signals, resets, reference>>
  BY DEF ParseVariableDeclaration
<1>6. QED BY <1>3, <1>4, <1>5, DeclarablePreserves

\* Code generation leaves the program as it is, and what is made of it.
LEMMA ProgramUnchanged ==
  ASSUME IInv, UNCHANGED <<structs, defined, parameters, locals>>, errors' \in BOOLEAN,
         phase' = "parse" => phase = "parse" /\ errors' = errors,
         phase = "parse" => ~errors \/ phase' = "parse"
  PROVE  /\ Parsed' /\ Holding'
         /\ Declarations' = Declarations /\ Resets' = Resets
<1>1. Parsed'
  BY Zenon DEF IInv, Parsed
<1>2. Holding'
  BY DEF IInv, Holding
<1>3. Declarations' = Declarations
  BY Zenon DEF Declarations, SignalDeclaration, IsStruct, StructIndex
<1>4. Resets' = Resets
  BY Zenon DEF Resets, ResetAssignment, FieldNamesOf, FieldsOf, IsStruct, StructIndex
<1>5. QED BY <1>1, <1>2, <1>3, <1>4

\* The passes of code generation, each of which makes one part.
LEMMA GenerationPreserves ==
  ASSUME IInv,
         EndOfProgram \/ EmitAllStructDeclarations \/ EmitEntityDeclaration
         \/ TooManyParameters \/ EmitFunctionLocalSignals \/ EmitFunctionResetLogic
  PROVE  IInv'
<1> USE DEF program, tableVars
<1>1. errors \in BOOLEAN /\ Generated
  BY DEF IInv, Parsed
<1>2. CASE EndOfProgram
  <2>1. /\ phase = "parse" /\ ~errors /\ phase' = "records"
        /\ UNCHANGED <<structs, errors, defined, parameters, locals, records, ports,
                       signals, resets, reference>>
    BY <1>2 DEF EndOfProgram
  <2>2. Parsed' /\ Holding'
    BY <1>1, <2>1, ProgramUnchanged
  <2>3. Generated'
    BY <1>1, <2>1 DEF Generated
  <2>4. QED BY <2>2, <2>3 DEF IInv
<1>3. CASE EmitAllStructDeclarations
  <2>1. /\ phase = "records" /\ phase' = "ports" /\ records' = structs
        /\ UNCHANGED <<structs, errors, defined, parameters, locals, ports, signals,
                       resets, reference>>
    BY <1>3 DEF EmitAllStructDeclarations
  <2>2. Parsed' /\ Holding'
    BY <1>1, <2>1, ProgramUnchanged
  <2>3. Generated'
    BY <1>1, <2>1 DEF Generated
  <2>4. QED BY <2>2, <2>3 DEF IInv
<1>4. CASE EmitEntityDeclaration
  <2>1. /\ phase = "ports" /\ phase' = "signals"
        /\ ports' = [i \in DOMAIN parameters |-> MappedSignalName(parameters[i].name)]
        /\ UNCHANGED <<structs, errors, defined, parameters, locals, records, signals,
                       resets, reference>>
    BY <1>4 DEF EmitEntityDeclaration
  <2>2. Parsed' /\ Holding'
    BY <1>1, <2>1, ProgramUnchanged
  <2>3. Generated'
    BY <1>1, <2>1 DEF Generated
  <2>4. QED BY <2>2, <2>3 DEF IInv
<1>5. CASE TooManyParameters
  <2>1. /\ phase = "ports" /\ phase' = "end" /\ errors' = TRUE
        /\ UNCHANGED <<structs, defined, parameters, locals, records, ports, signals,
                       resets, reference>>
    BY <1>5 DEF TooManyParameters
  <2>2. Parsed' /\ Holding'
    <3>1. errors' \in BOOLEAN
      BY <2>1, Zenon
    <3>2. QED BY <2>1, <3>1, ProgramUnchanged
  <2>3. Generated'
    BY <1>1, <2>1 DEF Generated
  <2>4. QED BY <2>2, <2>3 DEF IInv
<1>6. CASE EmitFunctionLocalSignals
  <2>1. /\ phase = "signals" /\ phase' = "reset" /\ signals' = Declarations
        /\ UNCHANGED <<structs, errors, defined, parameters, locals, records, ports,
                       resets, reference>>
    BY <1>6, Zenon DEF EmitFunctionLocalSignals, Declarations
  <2>2. Parsed' /\ Holding' /\ Declarations' = Declarations
    BY <1>1, <2>1, ProgramUnchanged
  <2>3. Generated'
    BY <1>1, <2>1, <2>2 DEF Generated
  <2>4. QED BY <2>2, <2>3 DEF IInv
<1>7. CASE EmitFunctionResetLogic
  <2>1. /\ phase = "reset" /\ phase' = "body" /\ resets' = Resets
        /\ UNCHANGED <<structs, errors, defined, parameters, locals, records, ports,
                       signals, reference>>
    BY <1>7, Zenon DEF EmitFunctionResetLogic, Resets
  <2>2. Parsed' /\ Holding' /\ Declarations' = Declarations /\ Resets' = Resets
    BY <1>1, <2>1, ProgramUnchanged
  <2>3. Generated'
    BY <1>1, <2>1, <2>2 DEF Generated
  <2>4. QED BY <2>2, <2>3 DEF IInv
<1>8. QED BY <1>2, <1>3, <1>4, <1>5, <1>6, <1>7

\* Uses of variables stay what they are, too.
LEMMA ReferredUnchanged ==
  ASSUME Referred, UNCHANGED <<structs, parameters, locals, reference>>
  PROVE  Referred'
<1>1. PICK i \in DOMAIN Variables, position \in Positions :
        Usable(Variables[i], position) /\ reference = <<ReferenceOf(i, position)>>
  BY DEF Referred
<1>2. Variables' = Variables
  BY DEF Variables
<1>3. PICK v : v = Variables[i]
  OBVIOUS
<1>4. Usable(v, position)' <=> Usable(v, position)
  BY Zenon DEF Usable, IsStruct, StructIndex
<1>5. Emitted(v, position)' = Emitted(v, position)
  BY Zenon DEF Emitted, EncodedFields, StructFieldInitializations,
               StructFieldCopyToResult, FieldNamesOf, FieldsOf, StructIndex
<1>6. Variables'[i] = v /\ i \in DOMAIN Variables'
  BY <1>2, <1>3
<1>7. reference' = <<ReferenceOf(i, position)>>'
  BY <1>1, <1>2, <1>3, <1>5, <1>6, Zenon DEF ReferenceOf
<1>8. QED BY <1>1, <1>3, <1>4, <1>6, <1>7, Zenon DEF Referred

LEMMA GenerateReferencePreserves ==
  ASSUME IInv, GenerateReference
  PROVE  IInv'
<1>1. /\ phase = "body" /\ phase' = "end"
      /\ UNCHANGED <<structs, errors, defined, parameters, locals, records, ports,
                     signals, resets>>
  BY DEF GenerateReference, program, tableVars
<1>2. PICK i \in DOMAIN Variables, position \in Positions :
        Usable(Variables[i], position) /\ reference' = <<ReferenceOf(i, position)>>
  BY Zenon DEF GenerateReference, ReferenceOf
<1>3. errors \in BOOLEAN /\ Generated
  BY DEF IInv, Parsed
<1>4. Parsed' /\ Holding' /\ Declarations' = Declarations /\ Resets' = Resets
  BY <1>1, <1>3, ProgramUnchanged
<1>5. Referred'
  <2>1. Variables' = Variables
    BY <1>1 DEF Variables
  <2>2. PICK v : v = Variables[i]
    OBVIOUS
  <2>3. Usable(v, position)' <=> Usable(v, position)
    BY <1>1, Zenon DEF Usable, IsStruct, StructIndex
  <2>4. Emitted(v, position)' = Emitted(v, position)
    BY <1>1, Zenon DEF Emitted, EncodedFields, StructFieldInitializations,
                       StructFieldCopyToResult, FieldNamesOf, FieldsOf, StructIndex
  <2>5. Variables'[i] = v /\ i \in DOMAIN Variables'
    BY <2>1, <2>2
  <2>6. reference' = <<ReferenceOf(i, position)>>'
    BY <1>2, <2>1, <2>2, <2>4, <2>5, Zenon DEF ReferenceOf
  <2>7. QED BY <1>2, <2>2, <2>3, <2>5, <2>6, Zenon DEF Referred
<1>6. Generated'
  BY <1>1, <1>3, <1>4, <1>5 DEF Generated
<1>7. QED BY <1>4, <1>6 DEF IInv

\* The invariant is inductive.
LEMMA NextPreserves ==
  ASSUME IInv, [Next]_vars
  PROVE  IInv'
<1>1. CASE Next
  BY <1>1, DefineStructPreserves, ParseSingleParameterPreserves,
     ParseVariableDeclarationPreserves, GenerationPreserves,
     GenerateReferencePreserves, Zenon DEF Next
<1>2. CASE UNCHANGED vars
  <2>1. UNCHANGED <<structs, errors, defined, parameters, locals, phase, records, ports,
                    signals, resets, reference>>
    BY <1>2 DEF vars, tableVars
  <2>2. errors \in BOOLEAN /\ Generated
    BY DEF IInv, Parsed
  <2>3. Parsed' /\ Holding' /\ Declarations' = Declarations /\ Resets' = Resets
    BY <2>1, <2>2, ProgramUnchanged
  <2>4. Referred => Referred'
    BY <2>1, ReferredUnchanged
  <2>5. Generated'
    BY <2>1, <2>2, <2>3, <2>4 DEF Generated
  <2>6. QED BY <2>3, <2>5 DEF IInv
<1>3. QED BY <1>1, <1>2

\* Whatever is declared, the table holds the definitions that fit, and every
\* pass generates what the declarations say: parse_program and generate_vhdl.
THEOREM Invariance == Spec => []IInv
<1>1. Init => IInv
  BY InitHolds
<1>2. IInv /\ [Next]_vars => IInv'
  BY NextPreserves
<1>3. QED BY <1>1, <1>2, PTL DEF Spec

-----------------------------------------------------------------------------
(* What the invariant says of the properties of Signals. *)

\* The table's counts and names are within the bounds of its arrays, code is
\* generated for programs without an error only, and every port is a
\* parameter's: register_struct, register_struct_field, generate_vhdl.
THEOREM TypeCorrect == Spec => []TypeOK
<1>1. IInv => TypeOK
  <2> SUFFICES ASSUME IInv PROVE TypeOK
    OBVIOUS
  <2>1. Tabled(structs) /\ errors \in BOOLEAN /\ parameters \in Seq(VariableRecord)
    BY DEF IInv, Parsed
  <2>2. TableOK
    BY <2>1 DEF Tabled, Within, TableOK
  <2>3. Generated
    BY DEF IInv
  <2>4. Len(ports) \in {0, Len(parameters)}
    BY <2>1, <2>3 DEF Generated
  <2>5. Len(reference) <= 1
    <3>1. reference = <<>> \/ \E r : reference = <<r>>
      BY <2>3, Zenon DEF Generated, Referred
    <3>2. Len(<<>>) = 0 /\ \A r : Len(<<r>>) = 1
      OBVIOUS
    <3>3. Len(reference) = 0 \/ Len(reference) = 1
      BY <3>1, <3>2, Zenon
    <3>4. PICK n : n = Len(reference)
      OBVIOUS
    <3>5. n = 0 \/ n = 1
      BY <3>3, <3>4, Zenon
    <3>6. n <= 1
      BY <3>5
    <3>7. QED BY <3>4, <3>6, Zenon
  <2>6. QED BY <2>2, <2>3, <2>4, <2>5 DEF TypeOK, Generated
<1>2. QED BY <1>1, Invariance, PTL

\* The names of the parameters and of the local variables are names of C.
LEMMA VariablesAreNamed ==
  ASSUME IInv
  PROVE  /\ \A i \in DOMAIN parameters : parameters[i] \in VariableRecord
         /\ \A i \in DOMAIN locals : locals[i] \in VariableRecord
         /\ \A v \in VariableRecord :
              /\ IsIdentifier(v.name) /\ v.name \in Seq(Character) /\ v.name # <<>>
              /\ v.type \in Types /\ v.array \in BOOLEAN
              /\ v.array => v.type = NoStruct
<1>1. parameters \in Seq(VariableRecord) /\ locals \in Seq(VariableRecord)
  BY DEF IInv, Parsed
<1>2. \A v \in VariableRecord :
        /\ v.name \in Names /\ v.type \in Types /\ v.array \in BOOLEAN
        /\ v.array => v.type = NoStruct
  BY DEF VariableRecord
<1>3. \A v \in VariableRecord : IsIdentifier(v.name) /\ v.name \in Seq(Character)
                                /\ v.name # <<>>
  BY <1>2, NamesAreSequences
<1>4. QED BY <1>1, <1>2, <1>3

\* Whatever a C program calls its parameters and its simple variables, their
\* ports and signals are basic identifiers of VHDL, and never the result
\* port's: emit_mapped_signal_name.
THEOREM NamesLegal == Spec => []NamesAreLegal
<1>1. IInv => NamesAreLegal
  <2> SUFFICES ASSUME IInv PROVE NamesAreLegal
    OBVIOUS
  <2>1. \A v \in VariableRecord :
          /\ IsBasicIdentifier(MappedSignalName(v.name))
          /\ MappedSignalName(v.name) # Result
    BY VariablesAreNamed, MappedIsBasic
  <2>2. \A name \in ToSet(ports) :
          \E i \in DOMAIN parameters : name = MappedSignalName(parameters[i].name)
    <3>1. \/ ports = <<>>
          \/ ports = [i \in DOMAIN parameters |-> MappedSignalName(parameters[i].name)]
      BY DEF IInv, Generated
    <3>2. \A name \in ToSet(ports) : \E i \in DOMAIN ports : name = ports[i]
      BY DEF ToSet
    <3>3. QED BY <3>1, <3>2
  <2>3. \A name \in ToSet(ports)
              \cup {MappedSignalName(locals[i].name) :
                      i \in {j \in DOMAIN locals :
                               signals # <<>> /\ Simple(locals[j])}} :
          \E v \in VariableRecord : name = MappedSignalName(v.name)
    BY <2>2, VariablesAreNamed
  <2>4. QED BY <2>1, <2>3, Zenon DEF NamesAreLegal
<1>2. QED BY <1>1, Invariance, PTL

\* A struct is one record, however often it is defined; none is left out, and
\* no field of a definition is lost or moved: parse_struct, register_struct,
\* register_struct_field and emit_all_struct_declarations.
THEOREM RecordsHoldTheDefinitions == Spec => []RecordsMatchDefinitions
<1>1. IInv => RecordsMatchDefinitions
  <2> SUFFICES ASSUME IInv, phase \in {"ports", "signals", "reset", "body", "end"},
                      NamesFit
               PROVE  /\ \A i, j \in DOMAIN records :
                           records[i].name = records[j].name => i = j
                      /\ {defined[i].name : i \in DOMAIN defined}
                           = {records[i].name : i \in DOMAIN records}
                      /\ \A i \in DOMAIN records :
                           records[i].fields = FieldsDefinedAs(records[i].name)
    BY Zenon DEF RecordsMatchDefinitions
  <2>1. records = structs
    BY DEF IInv, Generated
  <2>2. Holds(structs, defined)
    BY NamesFitMeansFits DEF IInv, Holding
  <2>3. \A i, j \in DOMAIN structs : structs[i].name = structs[j].name => i = j
    BY <2>2, Zenon DEF Holds
  <2>4. {defined[i].name : i \in DOMAIN defined} = {structs[i].name : i \in DOMAIN structs}
    BY <2>2 DEF Holds
  <2>5. \A i \in DOMAIN structs : structs[i].fields = FieldsDefinedAs(structs[i].name)
    BY <2>2, Zenon DEF Holds, Same, FieldsIn, FieldsDefinedAs
  <2>6. QED BY <2>1, <2>3, <2>4, <2>5, Zenon
<1>2. QED BY <1>1, Invariance, PTL

-----------------------------------------------------------------------------
(* What is declared and what is reset. *)

\* Where the table holds the definitions, a variable is a struct where its type
\* says so, and its fields are those of the definitions.
LEMMA FieldsOfVariables ==
  ASSUME IInv, NamesFit, phase # "parse" \/ ~errors, NEW v \in VariableRecord,
         v.type # NoStruct => \E i \in DOMAIN defined : defined[i].name = v.type
  PROVE  /\ IsStruct(v) <=> v.type # NoStruct
         /\ IsStruct(v) => /\ FieldsOf(v) \in Seq(Seq(Character))
                           /\ ToSet(FieldsOf(v)) = FieldsDefined(v)
         /\ v.type = NoStruct => FieldsDefined(v) = {}
<1>1. Holds(structs, defined) /\ structs \in Seq(Entry) /\ defined \in Seq(Definition)
  BY NamesFitMeansFits DEF IInv, Holding, Parsed, Tabled
<1>2. \A k \in DOMAIN defined : defined[k].name \in StructNames
  <2>1. \A k \in DOMAIN defined : defined[k] \in Definition
    BY <1>1
  <2>2. \A d \in Definition : d.name \in StructNames
    BY DEF Definition
  <2>3. QED BY <2>1, <2>2
<1>3. \A k \in DOMAIN defined : defined[k].name # NoStruct
  BY <1>2, NamesAreSequences DEF NoStruct
<1>4. PICK index : index = StructIndex(v)
  OBVIOUS
<1>5. \/ index = NotFound /\ \A i \in DOMAIN structs : structs[i].name # v.type
      \/ index \in DOMAIN structs /\ index # NotFound /\ structs[index].name = v.type
  BY <1>1, <1>4, FindProperties DEF StructIndex
<1>6. IsStruct(v) <=> index # NotFound
  BY <1>4, Zenon DEF IsStruct
<1>7. /\ \A i \in DOMAIN structs : \E k \in DOMAIN defined : defined[k].name = structs[i].name
      /\ \A k \in DOMAIN defined : \E i \in DOMAIN structs : structs[i].name = defined[k].name
      /\ \A i \in DOMAIN structs :
           structs[i].fields = FieldsIn(defined, structs[i].name)
  BY <1>1, Zenon DEF Holds, Same
<1>8. IsStruct(v) <=> v.type # NoStruct
  BY <1>3, <1>5, <1>6, <1>7
<1>9. ASSUME IsStruct(v)
      PROVE  /\ FieldsOf(v) \in Seq(Seq(Character))
             /\ ToSet(FieldsOf(v)) = FieldsDefined(v)
  <2>1. FieldsOf(v) = FieldsIn(defined, v.type)
    <3>1. index \in DOMAIN structs /\ structs[index].name = v.type
      BY <1>5, <1>6, <1>9
    <3>2. FieldsOf(v) = structs[index].fields
      BY <1>4, Zenon DEF FieldsOf
    <3>3. QED BY <1>7, <3>1, <3>2, Zenon
  <2>2. PICK D, type : D = defined /\ type = v.type
    OBVIOUS
  <2>3. /\ FieldsIn(D, type) \in Seq(Seq(Character))
        /\ ToSet(FieldsIn(D, type))
             = UNION {ToSet(D[i].fields) : i \in {j \in DOMAIN D : D[j].name = type}}
    BY <1>1, <2>2, FieldsInToSet
  <2>4. QED BY <2>1, <2>2, <2>3, Zenon DEF FieldsDefined
<1>10. v.type = NoStruct => FieldsDefined(v) = {}
  BY <1>3 DEF FieldsDefined
<1>11. QED BY <1>8, <1>9, <1>10

\* A sequence of what it contains.
IsSequence(s) == s \in Seq(ToSet(s))

\* What sequences of one and of two elements contain.
LEMMA SmallSequences ==
  ASSUME NEW x, NEW y
  PROVE  /\ IsSequence(<<x>>) /\ ToSet(<<x>>) = {x}
         /\ IsSequence(<<x, y>>) /\ ToSet(<<x, y>>) = {x, y}
<1>1. ToSet(<<x>>) = {x} /\ ToSet(<<x, y>>) = {x, y}
  BY DEF ToSet
<1>2. <<x>> \in Seq({x}) /\ <<x, y>> \in Seq({x, y})
  OBVIOUS
<1>3. QED BY <1>1, <1>2, Zenon DEF IsSequence

\* emit_reset_assignment names every field of a record.
LEMMA NamesOfFields ==
  ASSUME NEW v, FieldsOf(v) \in Seq(Seq(Character))
  PROVE  /\ IsSequence(FieldNamesOf(v))
         /\ ToSet(FieldNamesOf(v)) = {Field(v.name, f) : f \in ToSet(FieldsOf(v))}
<1> DEFINE s == FieldNamesOf(v)
<1>1. PICK fields, n : fields = FieldsOf(v) /\ n = Len(fields)
  OBVIOUS
<1>2. s = [k \in 1..n |-> Field(v.name, fields[k])] /\ n \in Nat /\ DOMAIN fields = 1..n
  <2>1. s = [k \in DOMAIN fields |-> Field(v.name, fields[k])]
    BY <1>1, Zenon DEF FieldNamesOf
  <2>2. DOMAIN fields = 1..n /\ n \in Nat
    BY <1>1
  <2>3. QED BY <2>1, <2>2
<1> HIDE DEF s
<1>3. ToSet(s) = {s[k] : k \in 1..n} /\ ToSet(fields) = {fields[k] : k \in 1..n}
  BY <1>2, Zenon DEF ToSet
<1>4. \A k \in 1..n : s[k] = Field(v.name, fields[k])
  BY <1>2, Zenon
<1>5. s \in [1..n -> ToSet(s)]
  BY <1>2, <1>3
<1>6. s \in Seq(ToSet(s))
  BY <1>2, <1>5, SeqDef
<1>7. ToSet(s) = {Field(v.name, f) : f \in ToSet(fields)}
  BY <1>3, <1>4, Zenon
<1>8. QED BY <1>1, <1>6, <1>7, Zenon DEF s, IsSequence

\* What is emitted for a sequence of variables is what is emitted for each.
LEMMA EmittedForAll ==
  ASSUME NEW T, NEW s \in Seq(T), NEW ss, DOMAIN ss = DOMAIN s, ss = [i \in DOMAIN s |-> ss[i]],
         \A i \in DOMAIN s : IsSequence(ss[i])
  PROVE  ToSet(FlattenSeq(ss)) = UNION {ToSet(ss[i]) : i \in DOMAIN s}
<1> DEFINE X == UNION {ToSet(ss[i]) : i \in DOMAIN s}
<1>1. \A i \in DOMAIN s : ToSet(ss[i]) \subseteq X
  OBVIOUS
<1> HIDE DEF X
<1>2. ASSUME NEW i \in DOMAIN s PROVE ss[i] \in Seq(X)
  <2>1. PICK e, Y : e = ss[i] /\ Y = ToSet(e)
    OBVIOUS
  <2>2. e \in Seq(Y) /\ Y \subseteq X
    BY <1>1, <2>1, Zenon DEF IsSequence
  <2>3. e \in Seq(X)
    BY <2>2
  <2>4. QED BY <2>1, <2>3
<1>3. ss \in [1..Len(s) -> Seq(X)]
  BY <1>2
<1>4. ss \in Seq(Seq(X))
  BY <1>3, SeqDef
<1>5. ToSet(FlattenSeq(ss)) = UNION {ToSet(ss[i]) : i \in DOMAIN ss}
  BY <1>4, FlattenToSet
<1>6. QED BY <1>5

\* The names of the type and the array, of the record, or of the signal.
NamesDeclared(v) ==
  IF v.type # NoStruct THEN {v.name}
  ELSE IF v.array THEN {v.name \o <<U, "type">>, v.name}
  ELSE {MappedSignalName(v.name)}
NamesReset(v) ==
  IF v.array THEN {v.name}
  ELSE IF v.type # NoStruct THEN {Field(v.name, f) : f \in FieldsDefined(v)}
  ELSE {MappedSignalName(v.name)}

\* What is declared and reset for one variable.
LEMMA NamesOfOne ==
  ASSUME IInv, NamesFit, ~errors, NEW v \in VariableRecord,
         v.type # NoStruct => \E i \in DOMAIN defined : defined[i].name = v.type,
         v.array => FitsArrayName(v)
  PROVE  /\ IsSequence(SignalDeclaration(v))
         /\ ToSet(SignalDeclaration(v)) = NamesDeclared(v)
         /\ IsSequence(ResetAssignment(v))
         /\ ToSet(ResetAssignment(v)) = NamesReset(v)
<1>1. /\ IsStruct(v) <=> v.type # NoStruct
      /\ IsStruct(v) => /\ FieldsOf(v) \in Seq(Seq(Character))
                        /\ ToSet(FieldsOf(v)) = FieldsDefined(v)
  BY FieldsOfVariables
<1>2. v.array => v.type = NoStruct
  BY VariablesAreNamed
<1>3. CASE v.type # NoStruct
  <2>1. SignalDeclaration(v) = <<v.name>> /\ NamesDeclared(v) = {v.name}
    BY <1>1, <1>3, Zenon DEF SignalDeclaration, StructSignalDeclaration, NamesDeclared
  <2>2. /\ ResetAssignment(v) = FieldNamesOf(v)
        /\ NamesReset(v) = {Field(v.name, f) : f \in FieldsDefined(v)}
    BY <1>1, <1>2, <1>3, Zenon DEF ResetAssignment, NamesReset
  <2>3. /\ IsSequence(FieldNamesOf(v))
        /\ ToSet(FieldNamesOf(v)) = {Field(v.name, f) : f \in ToSet(FieldsOf(v))}
    BY <1>1, <1>3, NamesOfFields
  <2>4. QED BY <1>1, <1>3, <2>1, <2>2, <2>3, SmallSequences, Zenon
<1>4. CASE v.type = NoStruct /\ v.array
  <2>1. /\ SignalDeclaration(v) = <<v.name \o <<U, "type">>, v.name>>
        /\ NamesDeclared(v) = {v.name \o <<U, "type">>, v.name}
    BY <1>1, <1>4, Zenon DEF SignalDeclaration, ArraySignalDeclaration, NamesDeclared
  <2>2. Cut(v.name, ArrayNameSize) = v.name
    <3>1. v.name \in Seq(Character) /\ Len(v.name) < ArrayNameSize
      BY <1>4, VariablesAreNamed DEF FitsArrayName
    <3>2. ArrayNameSize \in Nat \ {0}
      BY SignalsAssumption DEF SignalsAssumption
    <3>3. PICK name : name = v.name
      OBVIOUS
    <3>4. name \in Seq(Character) /\ Len(name) < ArrayNameSize
      BY <3>1, <3>3
    <3>5. QED BY <3>2, <3>3, <3>4, CutProperties
  <2>3. ResetAssignment(v) = <<v.name>> /\ NamesReset(v) = {v.name}
    BY <1>4, <2>2, Zenon DEF ResetAssignment, NamesReset
  <2>4. /\ IsSequence(SignalDeclaration(v))
        /\ ToSet(SignalDeclaration(v)) = NamesDeclared(v)
    <3>1. PICK x, y : x = v.name \o <<U, "type">> /\ y = v.name
      OBVIOUS
    <3>2. SignalDeclaration(v) = <<x, y>> /\ NamesDeclared(v) = {x, y}
      BY <2>1, <3>1, Zenon
    <3>3. IsSequence(<<x, y>>) /\ ToSet(<<x, y>>) = {x, y}
      BY SmallSequences, Zenon
    <3>4. QED BY <3>2, <3>3, Zenon
  <2>5. /\ IsSequence(ResetAssignment(v))
        /\ ToSet(ResetAssignment(v)) = NamesReset(v)
    BY <2>3, SmallSequences, Zenon
  <2>6. QED BY <2>4, <2>5
<1>5. CASE v.type = NoStruct /\ ~v.array
  <2>1. /\ SignalDeclaration(v) = <<MappedSignalName(v.name)>>
        /\ NamesDeclared(v) = {MappedSignalName(v.name)}
        /\ ResetAssignment(v) = <<MappedSignalName(v.name)>>
        /\ NamesReset(v) = {MappedSignalName(v.name)}
    BY <1>1, <1>5, Zenon DEF SignalDeclaration, SimpleSignalDeclaration, NamesDeclared,
                             ResetAssignment, NamesReset
  <2>2. QED BY <2>1, SmallSequences, Zenon
<1>6. QED BY <1>3, <1>4, <1>5, Zenon

\* What is declared and reset for all of them.
LEMMA NamesOfAll ==
  ASSUME IInv, phase \in {"body", "end"}, ~errors, NamesFit,
         \A v \in ToSet(locals) : v.array => Len(v.name) < ArrayNameSize
  PROVE  /\ ToSet(signals) = UNION {NamesDeclared(v) : v \in ToSet(locals)}
         /\ ToSet(resets) = UNION {NamesReset(v) : v \in ToSet(locals)}
<1>1. /\ signals = Declarations /\ resets = Resets
      /\ locals \in Seq(VariableRecord)
  BY DEF IInv, Generated, Parsed
<1>2. /\ \A v \in ToSet(locals) :
           v.type # NoStruct => \E i \in DOMAIN defined : defined[i].name = v.type
      /\ ToSet(locals) = {locals[i] : i \in DOMAIN locals}
  BY DEF IInv, Parsed, ToSet
<1>3. \A i \in DOMAIN locals : locals[i] \in ToSet(locals) /\ locals[i] \in VariableRecord
  BY <1>1, <1>2
<1>4. ASSUME NEW i \in DOMAIN locals
      PROVE  /\ IsSequence(SignalDeclaration(locals[i]))
             /\ ToSet(SignalDeclaration(locals[i])) = NamesDeclared(locals[i])
             /\ IsSequence(ResetAssignment(locals[i]))
             /\ ToSet(ResetAssignment(locals[i])) = NamesReset(locals[i])
  <2>1. PICK v : v = locals[i]
    OBVIOUS
  <2>2. v \in ToSet(locals) /\ v \in VariableRecord
    BY <1>3, <2>1
  <2>3. /\ v.type # NoStruct => \E j \in DOMAIN defined : defined[j].name = v.type
        /\ v.array => FitsArrayName(v)
    BY <1>2, <2>2, Zenon DEF FitsArrayName
  <2>4. QED BY <2>1, <2>2, <2>3, NamesOfOne
<1>5. ToSet(signals) = UNION {NamesDeclared(v) : v \in ToSet(locals)}
  <2>1. PICK s, ss : s = locals /\ ss = [i \in DOMAIN s |-> SignalDeclaration(s[i])]
    OBVIOUS
  <2>2. /\ s \in Seq(VariableRecord) /\ DOMAIN ss = DOMAIN s
        /\ ss = [i \in DOMAIN s |-> ss[i]]
        /\ \A i \in DOMAIN s : ss[i] = SignalDeclaration(s[i])
    BY <1>1, <2>1
  <2>3. \A i \in DOMAIN s : IsSequence(ss[i]) /\ ToSet(ss[i]) = NamesDeclared(s[i])
    BY <1>4, <2>1, <2>2, Zenon
  <2>4. ToSet(FlattenSeq(ss)) = UNION {ToSet(ss[i]) : i \in DOMAIN s}
    BY <2>2, <2>3, EmittedForAll
  <2>5. PICK L : L = ToSet(locals)
    OBVIOUS
  <2>6. L = {s[i] : i \in DOMAIN s}
    BY <1>2, <2>1, <2>5, Zenon
  <2>7. ToSet(FlattenSeq(ss)) = UNION {NamesDeclared(v) : v \in L}
    <3>1. \A i \in DOMAIN s : s[i] \in L /\ ToSet(ss[i]) = NamesDeclared(s[i])
      BY <2>3, <2>6
    <3>2. \A v \in L : \E i \in DOMAIN s : ToSet(ss[i]) = NamesDeclared(v)
      BY <2>3, <2>6
    <3>3. QED BY <2>4, <3>1, <3>2
  <2>8. signals = FlattenSeq(ss)
    BY <1>1, <2>1, Zenon DEF Declarations
  <2>9. QED BY <2>5, <2>7, <2>8, Zenon
<1>6. ToSet(resets) = UNION {NamesReset(v) : v \in ToSet(locals)}
  <2>1. PICK s, ss : s = locals /\ ss = [i \in DOMAIN s |-> ResetAssignment(s[i])]
    OBVIOUS
  <2>2. /\ s \in Seq(VariableRecord) /\ DOMAIN ss = DOMAIN s
        /\ ss = [i \in DOMAIN s |-> ss[i]]
        /\ \A i \in DOMAIN s : ss[i] = ResetAssignment(s[i])
    BY <1>1, <2>1
  <2>3. \A i \in DOMAIN s : IsSequence(ss[i]) /\ ToSet(ss[i]) = NamesReset(s[i])
    BY <1>4, <2>1, <2>2, Zenon
  <2>4. ToSet(FlattenSeq(ss)) = UNION {ToSet(ss[i]) : i \in DOMAIN s}
    BY <2>2, <2>3, EmittedForAll
  <2>5. PICK L : L = ToSet(locals)
    OBVIOUS
  <2>6. L = {s[i] : i \in DOMAIN s}
    BY <1>2, <2>1, <2>5, Zenon
  <2>7. ToSet(FlattenSeq(ss)) = UNION {NamesReset(v) : v \in L}
    <3>1. \A i \in DOMAIN s : s[i] \in L /\ ToSet(ss[i]) = NamesReset(s[i])
      BY <2>3, <2>6
    <3>2. \A v \in L : \E i \in DOMAIN s : ToSet(ss[i]) = NamesReset(v)
      BY <2>3, <2>6
    <3>3. QED BY <2>4, <3>1, <3>2
  <2>8. resets = FlattenSeq(ss)
    BY <1>1, <2>1, Zenon DEF Resets
  <2>9. QED BY <2>5, <2>7, <2>8, Zenon
<1>7. QED BY <1>5, <1>6

IsUnion(A, L, a)          == \A x : x \in A <=> \E v \in L : x \in a[v]
Agree(L, a, b, c, d, e) ==
  \A v \in L : a[v] \cup b[v] = c[v] \cup d[v] \cup e[v]

LEMMA UnionsAgree ==
  ASSUME NEW L, NEW a, NEW b, NEW c, NEW d, NEW e, Agree(L, a, b, c, d, e),
         NEW A, NEW B, NEW C, NEW D, NEW E,
         IsUnion(A, L, a), IsUnion(B, L, b), IsUnion(C, L, c), IsUnion(D, L, d),
         IsUnion(E, L, e)
  PROVE  A \cup B = C \cup D \cup E
<1>1. \A x : (\E v \in L : x \in a[v] \/ x \in b[v])
             <=> (\E v \in L : x \in c[v] \/ x \in d[v] \/ x \in e[v])
  BY DEF Agree
<1>2. \A x : x \in A \cup B <=> x \in C \cup D \cup E
  BY <1>1 DEF IsUnion
<1>3. QED BY <1>2

\* The reset branch assigns what is declared, a record field by field, and
\* nothing else, where the names fit their buffers:
\* emit_function_local_signals and emit_function_reset_logic.
THEOREM ResetMirrors == Spec => []ResetMirrorsSignals
<1>1. IInv => ResetMirrorsSignals
  <2> DEFINE L      == ToSet(locals)
             Parts(v) == {Field(v.name, f) : f \in FieldsDefined(v)}
             Name(v) == IF v.type # NoStruct THEN {v.name} ELSE {}
             Type(v) == IF v.array THEN {v.name \o <<U, "type">>} ELSE {}
             Records == {v.name : v \in {w \in L : w.type # NoStruct}}
             Arrays  == {v.name \o <<U, "type">> : v \in {w \in L : w.array}}
  <2> SUFFICES ASSUME IInv, phase \in {"body", "end"}, ~errors, NamesFit,
                      \A v \in L : v.array => Len(v.name) < ArrayNameSize
      PROVE  /\ ToSet(signals) \cup UNION {Parts(v) : v \in L}
                  = ToSet(resets) \cup Records \cup Arrays
             /\ \A v \in L : Simple(v) => Declared(v) \in ToSet(resets)
    BY Zenon DEF ResetMirrorsSignals
  <2>1. /\ ToSet(signals) = UNION {NamesDeclared(v) : v \in L}
        /\ ToSet(resets) = UNION {NamesReset(v) : v \in L}
    BY NamesOfAll
  <2>2. /\ L \subseteq VariableRecord
        /\ \A v \in L : v.type # NoStruct => \E i \in DOMAIN defined : defined[i].name = v.type
    BY DEF IInv, Parsed, ToSet
  <2>3. \A v \in L : v.type = NoStruct => FieldsDefined(v) = {}
    BY <2>2, FieldsOfVariables
  <2>4. \A v \in L : v.array => v.type = NoStruct
    BY <2>2, VariablesAreNamed
  <2> HIDE DEF L
  <2>5. ASSUME NEW v \in L
        PROVE  NamesDeclared(v) \cup Parts(v) = NamesReset(v) \cup Name(v) \cup Type(v)
    <3>1. CASE v.type # NoStruct
      <4>1. /\ NamesDeclared(v) = {v.name} /\ NamesReset(v) = Parts(v)
            /\ Name(v) = {v.name} /\ Type(v) = {}
        BY <2>4, <3>1, Zenon DEF NamesDeclared, NamesReset
      <4> HIDE DEF Parts, Name, Type
      <4>2. QED BY <4>1
    <3>2. CASE v.type = NoStruct
      <4>1. Parts(v) = {} /\ Name(v) = {}
        BY <2>3, <3>2
      <4>2. NamesDeclared(v) = NamesReset(v) \cup Type(v)
        BY <3>2 DEF NamesDeclared, NamesReset
      <4> HIDE DEF Parts, Name, Type
      <4>3. QED BY <4>1, <4>2
    <3>3. QED BY <3>1, <3>2
  <2>6. /\ Records = UNION {Name(v) : v \in L}
        /\ Arrays = UNION {Type(v) : v \in L}
    OBVIOUS
  <2>7. \A v \in L : Simple(v) => Declared(v) \in NamesReset(v)
    BY Zenon DEF Simple, Declared, NamesReset
  <2> HIDE DEF Parts, Name, Type, Records, Arrays
  <2>8. ToSet(signals) \cup UNION {Parts(v) : v \in L} = ToSet(resets) \cup Records \cup Arrays
    <3>1. PICK declared, parts, reset, name, type :
            /\ declared = [v \in L |-> NamesDeclared(v)] /\ parts = [v \in L |-> Parts(v)]
            /\ reset = [v \in L |-> NamesReset(v)] /\ name = [v \in L |-> Name(v)]
            /\ type = [v \in L |-> Type(v)]
      OBVIOUS
    <3>2. \A v \in L : /\ declared[v] = NamesDeclared(v) /\ parts[v] = Parts(v)
                       /\ reset[v] = NamesReset(v) /\ name[v] = Name(v)
                       /\ type[v] = Type(v)
      BY <3>1
    <3>3. Agree(L, declared, parts, reset, name, type)
      BY <2>5, <3>2, Zenon DEF Agree
    <3>4. PICK A, B, C, D, E :
            /\ A = ToSet(signals) /\ B = UNION {Parts(v) : v \in L} /\ C = ToSet(resets)
            /\ D = Records /\ E = Arrays
      OBVIOUS
    <3>5. IsUnion(A, L, declared)
      BY <2>1, <3>2, <3>4 DEF IsUnion
    <3>6. IsUnion(B, L, parts)
      BY <3>2, <3>4 DEF IsUnion
    <3>7. IsUnion(C, L, reset)
      BY <2>1, <3>2, <3>4 DEF IsUnion
    <3>8. IsUnion(D, L, name)
      BY <2>6, <3>2, <3>4 DEF IsUnion
    <3>9. IsUnion(E, L, type)
      BY <2>6, <3>2, <3>4 DEF IsUnion
    <3>10. A \cup B = C \cup D \cup E
      BY <3>3, <3>5, <3>6, <3>7, <3>8, <3>9, UnionsAgree
    <3>11. QED BY <3>4, <3>10, Zenon
  <2>9. \A v \in L : NamesReset(v) \subseteq ToSet(resets)
    BY <2>1
  <2>10. \A v \in L : Simple(v) => Declared(v) \in ToSet(resets)
    BY <2>7, <2>9
  <2>11. QED BY <2>8, <2>10
<1>2. QED BY <1>1, Invariance, PTL

-----------------------------------------------------------------------------
(* What a use of a variable is emitted as. *)

\* A name in the tree has a double underscore where the parser put it.
LEMMA EncodedHasDouble ==
  ASSUME NEW name \in Seq(Character), NEW field \in Seq(Character)
  PROVE  HasDouble(Encoded(name, field))
<1>1. PICK mark, left, whole : /\ mark = <<U, U>> /\ left = name \o mark
                               /\ whole = left \o field
  OBVIOUS
<1>2. mark \in Seq(Character) /\ Len(mark) = 2 /\ mark[1] = U /\ mark[2] = U
  BY <1>1 DEF Character
<1>3. PICK n, m : n = Len(name) /\ m = Len(field)
  OBVIOUS
<1>4. n \in Nat /\ m \in Nat
  BY <1>3
<1>5. /\ left \in Seq(Character) /\ Len(left) = n + 2
      /\ \A i \in 1..2 : left[n + i] = mark[i]
  BY <1>1, <1>2, <1>3, ConcatIs
<1>6. /\ Len(whole) = n + 2 + m
      /\ \A i \in 1..(n + 2) : whole[i] = left[i]
  BY <1>1, <1>3, <1>5, ConcatIs
<1>7. whole[n + 1] = U /\ whole[(n + 1) + 1] = U
  BY <1>2, <1>4, <1>5, <1>6
<1>8. n + 1 \in 1..(Len(whole) - 1)
  BY <1>4, <1>6
<1>9. HasDouble(whole)
  BY <1>7, <1>8 DEF HasDouble
<1>10. whole = Encoded(name, field)
  BY <1>1, Zenon DEF Encoded
<1>11. QED BY <1>9, <1>10, Zenon

\* A basic identifier has no two underscores in a row, and none at its end.
LEMMA BasicHasNoDouble ==
  ASSUME NEW name \in Seq(Character), IsBasicIdentifier(name)
  PROVE  ~HasDouble(name) /\ name # <<>> /\ name[Len(name)] # U
<1>1. /\ name # <<>> /\ name[1] \in Words /\ Len(name) \in Nat /\ Len(name) >= 1
      /\ \A i \in 2..Len(name) :
           name[i] \notin Words => \/ IsDigit(name[i])
                                   \/ i < Len(name) /\ name[i + 1] # U
  BY DEF IsBasicIdentifier
<1>2. U \notin Words /\ ~IsDigit(U)
  BY Constants DEF IsDigit, Digits, U
<1>3. \A i \in 2..Len(name) : name[i] = U => i < Len(name) /\ name[i + 1] # U
  BY <1>1, <1>2
<1>4. name[1] # U
  BY <1>1, <1>2
<1>5. ~HasDouble(name)
  BY <1>1, <1>3, <1>4 DEF HasDouble
<1>6. name[Len(name)] # U
  BY <1>1, <1>3, <1>4
<1>7. QED BY <1>1, <1>5, <1>6

\* The name of a field, in a reference.
LEMMA FieldReference ==
  ASSUME NEW name \in Seq(Character), NEW field \in Seq(Character),
         IsBasicIdentifier(name), ~HasDouble(field)
  PROVE  VariableReference(Encoded(name, field)) = Field(name, field)
<1>1. VariableReference(Encoded(name, field)) = Decoded(Encoded(name, field))
  BY EncodedHasDouble, Zenon DEF VariableReference
<1>2. Same(Decoded(Encoded(name, field)), Field(name, field))
  BY BasicHasNoDouble, DecodedIsField
<1>3. QED BY <1>1, <1>2, Zenon DEF Same

FieldPositions == {"field", "field assigned", "fields initialized", "fields returned"}

\* A use of the fields of a struct.
LEMMA FieldsReferred ==
  ASSUME NEW v \in VariableRecord, FieldsOf(v) \in Seq(Seq(Character)),
         ToSet(FieldsOf(v)) = FieldsDefined(v), Plain(v.name),
         \A f \in FieldsDefined(v) : ~HasDouble(f),
         NEW position \in FieldPositions
  PROVE  Emitted(v, position) = {Field(v.name, f) : f \in FieldsDefined(v)}
<1>1. v.name \in Seq(Character) /\ IsIdentifier(v.name)
  BY SignalsAssumption, NamesAreSequences DEF VariableRecord
<1>2. PICK name, fields, F : name = v.name /\ fields = FieldsOf(v) /\ F = FieldsDefined(v)
  OBVIOUS
<1>3. IsBasicIdentifier(name) /\ name \in Seq(Character)
  <2>1. IsIdentifier(name) /\ MappedSignalName(name) = name
    BY <1>1, <1>2, Zenon DEF Plain
  <2>2. IsBasicIdentifier(MappedSignalName(name))
    BY <2>1, MappedIsBasic
  <2>3. QED BY <1>1, <1>2, <2>1, <2>2, Zenon
<1>4. /\ F = {fields[k] : k \in DOMAIN fields}
      /\ \A k \in DOMAIN fields : fields[k] \in Seq(Character) /\ ~HasDouble(fields[k])
  <2>1. F = {fields[k] : k \in DOMAIN fields}
    BY <1>2, Zenon DEF ToSet
  <2>2. \A k \in DOMAIN fields : fields[k] \in Seq(Character)
    BY <1>2
  <2>3. \A f \in F : ~HasDouble(f)
    BY <1>2, Zenon
  <2>4. QED BY <2>1, <2>2, <2>3
<1>5. \A k \in DOMAIN fields :
        VariableReference(Encoded(name, fields[k])) = Field(name, fields[k])
  BY <1>3, <1>4, FieldReference
<1>6. EncodedFields(v) = {Encoded(name, fields[k]) : k \in DOMAIN fields}
  BY <1>2, Zenon DEF EncodedFields
<1>7. PICK X : X = {Field(name, f) : f \in F}
  OBVIOUS
<1>8. X = {Field(name, fields[k]) : k \in DOMAIN fields}
  BY <1>4, <1>7
<1>9. {VariableReference(f) : f \in EncodedFields(v)} = X
  BY <1>5, <1>6, <1>8
<1>10. UNION {VariableAssignment(f) : f \in EncodedFields(v)} = X
  <2>1. \A f : VariableAssignment(f) = {VariableReference(f)}
    BY DEF VariableAssignment
  <2>2. UNION {VariableAssignment(f) : f \in EncodedFields(v)}
          = {VariableReference(f) : f \in EncodedFields(v)}
    BY <2>1
  <2>3. QED BY <1>9, <2>2, Zenon
<1>11. ToSet(FieldNamesOf(v)) = X
  <2>1. ToSet(FieldNamesOf(v)) = {Field(v.name, f) : f \in ToSet(FieldsOf(v))}
    BY NamesOfFields
  <2>2. ToSet(FieldsOf(v)) = F /\ v.name = name
    BY <1>2
  <2>3. QED BY <1>7, <2>1, <2>2
<1>12. Emitted(v, position) = X
  <2>1. CASE position = "field"
    BY <1>9, <2>1 DEF Emitted
  <2>2. CASE position = "field assigned"
    BY <1>10, <2>2 DEF Emitted
  <2>3. CASE position = "fields initialized"
    BY <1>11, <2>3 DEF Emitted, StructFieldInitializations
  <2>4. CASE position = "fields returned"
    BY <1>11, <2>4 DEF Emitted, StructFieldCopyToResult
  <2>5. QED BY <2>1, <2>2, <2>3, <2>4 DEF FieldPositions
<1>13. QED BY <1>2, <1>7, <1>12, Zenon

\* A use of a variable by its name.
LEMMA NameReferred ==
  ASSUME NEW v \in VariableRecord, IsStruct(v) <=> v.type # NoStruct,
         NEW position \in Position \ FieldPositions, Usable(v, position),
         position \notin {"negated value", "negated operand", "element operand"},
         v.array => FitsArrayName(v),
         \/ Plain(v.name)
         \/ /\ Simple(v) /\ ~HasDouble(v.name)
            /\ position \in {"value", "operand", "target", "initialized"}
  PROVE  Emitted(v, position) = {Declared(v)}
<1>1. v.name \in Seq(Character) /\ IsIdentifier(v.name)
  BY SignalsAssumption, NamesAreSequences DEF VariableRecord
<1>2. Plain(v.name) => ~HasDouble(v.name)
  <2>1. PICK name : name = v.name
    OBVIOUS
  <2>2. SUFFICES ASSUME MappedSignalName(name) = name PROVE ~HasDouble(name)
    BY <2>1, Zenon DEF Plain
  <2>3. IsBasicIdentifier(MappedSignalName(name))
    BY <1>1, <2>1, MappedIsBasic
  <2>4. name \in Seq(Character) /\ IsBasicIdentifier(name)
    BY <1>1, <2>1, <2>2, <2>3, Zenon
  <2>5. QED BY <2>4, BasicHasNoDouble
<1>3. VariableReference(v.name) = MappedSignalName(v.name)
  BY <1>2, Zenon DEF VariableReference
<1>4. Simple(v) => Declared(v) = MappedSignalName(v.name)
  BY Zenon DEF Declared
<1>5. Plain(v.name) => Declared(v) = v.name
  BY Zenon DEF Declared, Plain
<1>6. VariableReference(v.name) = Declared(v)
  BY <1>3, <1>4, <1>5, Zenon DEF Plain
<1>7. CASE position = "value"
  BY <1>6, <1>7 DEF Emitted
<1>8. CASE position = "operand"
  BY <1>6, <1>8 DEF Emitted, TypedOperand
<1>9. CASE position = "target"
  BY <1>6, <1>9 DEF Emitted, VariableAssignment
<1>10. CASE position = "initialized"
  BY <1>3, <1>6, <1>10 DEF Emitted, VariableInitializer
<1>11. CASE position = "element"
  <2>1. v.array /\ Plain(v.name)
    BY <1>11 DEF Usable
  <2>2. Emitted(v, position) = {v.name}
    BY <1>11, <2>1 DEF Emitted, ArrayElementAccess
  <2>3. QED BY <1>5, <2>1, <2>2, Zenon
<1>12. CASE position = "element assigned"
  <2>1. v.array /\ Plain(v.name)
    BY <1>12 DEF Usable
  <2>2. Emitted(v, position) = {v.name}
    BY <1>12, <2>1 DEF Emitted, ArrayElementAssignment
  <2>3. QED BY <1>5, <2>1, <2>2, Zenon
<1>13. CASE position \in {"array index", "list element"}
  <2>1. Plain(v.name)
    BY <1>13
  <2>2. Emitted(v, position) = {v.name}
    BY <1>13 DEF Emitted
  <2>3. QED BY <1>5, <2>1, <2>2, Zenon
<1>14. QED BY <1>7, <1>8, <1>9, <1>10, <1>11, <1>12, <1>13 DEF Position, FieldPositions

\* What the body calls a variable is what its declaration calls it, the fields
\* of a record behind its name, on the conditions of ReferencesResolve:
\* emit_variable_reference and emit_mapped_signal_name.
THEOREM UsesResolve == Spec => []ReferencesResolve
<1>1. IInv => ReferencesResolve
  <2> SUFFICES ASSUME IInv, NEW r \in ToSet(reference),
                      OfNames(r), NamesFit,
                      Variables[r.variable].array => FitsArrayName(Variables[r.variable]),
                      \A f \in FieldsDefined(Variables[r.variable]) : ~HasDouble(f),
                      \/ Plain(Variables[r.variable].name)
                      \/ /\ Simple(Variables[r.variable]) /\ InMappedPosition(r)
                         /\ ~HasDouble(Variables[r.variable].name)
               PROVE  Refers(r)
    BY Zenon DEF ReferencesResolve
  <2>1. ToSet(reference) # {} => reference # <<>>
    BY DEF ToSet
  <2>2. phase = "end" /\ ~errors /\ Referred
    BY <2>1, Zenon DEF IInv, Generated
  <2>3. PICK i \in DOMAIN Variables, position \in Positions :
          Usable(Variables[i], position) /\ reference = <<ReferenceOf(i, position)>>
    BY <2>2, Zenon DEF Referred
  <2>4. PICK v : v = Variables[i]
    OBVIOUS
  <2>5. r = ReferenceOf(i, position)
    <3>1. PICK u : u = ReferenceOf(i, position)
      OBVIOUS
    <3>2. ToSet(<<u>>) = {u}
      BY SmallSequences, Zenon
    <3>3. r \in ToSet(<<u>>)
      BY <2>3, <3>1, Zenon
    <3>4. QED BY <3>1, <3>2, <3>3, Zenon
  <2>6. r.variable = i /\ r.position = position /\ r.emitted = Emitted(v, position)
    <3>1. PICK e : e = Emitted(v, position)
      OBVIOUS
    <3>2. r = [variable |-> i, position |-> position, emitted |-> e]
      BY <2>4, <2>5, <3>1, Zenon DEF ReferenceOf
    <3>3. r.variable = i /\ r.position = position /\ r.emitted = e
      BY <3>2
    <3>4. QED BY <3>1, <3>3, Zenon
  <2>7. /\ v \in VariableRecord
        /\ v.type # NoStruct => \E k \in DOMAIN defined : defined[k].name = v.type
    <3>1. /\ parameters \in Seq(VariableRecord) /\ locals \in Seq(VariableRecord)
          /\ \A w \in ToSet(parameters) \cup ToSet(locals) :
               w.type # NoStruct => \E k \in DOMAIN defined : defined[k].name = w.type
      BY Zenon DEF IInv, Parsed
    <3>2. ToSet(parameters \o locals) = ToSet(parameters) \cup ToSet(locals)
      BY <3>1, ToSetConcat
    <3>3. parameters \o locals \in Seq(VariableRecord)
      BY <3>1, ConcatIs
    <3>4. PICK s : s = parameters \o locals
      OBVIOUS
    <3>5. s \in Seq(VariableRecord) /\ i \in DOMAIN s /\ v = s[i]
      BY <2>4, <3>3, <3>4, Zenon DEF Variables
    <3>6. v \in ToSet(s) /\ v \in VariableRecord
      BY <3>5 DEF ToSet
    <3>7. QED BY <3>1, <3>2, <3>4, <3>6, Zenon
  <2>8. /\ IsStruct(v) <=> v.type # NoStruct
        /\ IsStruct(v) => /\ FieldsOf(v) \in Seq(Seq(Character))
                          /\ ToSet(FieldsOf(v)) = FieldsDefined(v)
    BY <2>2, <2>7, FieldsOfVariables
  <2>9. /\ position \notin {"negated value", "negated operand", "element operand"}
        /\ v.array => FitsArrayName(v)
        /\ \A f \in FieldsDefined(v) : ~HasDouble(f)
        /\ \/ Plain(v.name)
           \/ /\ Simple(v) /\ ~HasDouble(v.name)
              /\ position \in {"value", "operand", "target", "initialized"}
    BY <2>4, <2>6, Zenon DEF OfNames, InMappedPosition
  <2>10. Usable(v, position)
    BY <2>3, <2>4, Zenon
  <2>11. CASE position \in FieldPositions
    <3>1. IsStruct(v)
      BY <2>10, <2>11 DEF Usable, FieldPositions
    <3>2. Plain(v.name)
      BY <2>8, <2>9, <3>1, Zenon DEF Simple
    <3>3. Emitted(v, position) = {Field(v.name, f) : f \in FieldsDefined(v)}
      BY <2>7, <2>8, <2>9, <2>11, <3>1, <3>2, FieldsReferred
    <3>4. Declared(v) = v.name
      BY <3>2, Zenon DEF Declared, Plain
    <3>5. r.emitted = {Field(Declared(v), f) : f \in FieldsDefined(v)}
      BY <2>6, <3>3, <3>4, Zenon
    <3>6. QED BY <2>4, <2>6, <2>11, <3>5, Zenon DEF Refers, FieldPositions
  <2>12. CASE position \notin FieldPositions
    <3>1. position \in Position \ FieldPositions
      BY <2>12, SignalsAssumption DEF SignalsAssumption
    <3>2. Emitted(v, position) = {Declared(v)}
      BY <2>7, <2>8, <2>9, <2>10, <3>1, NameReferred
    <3>3. QED BY <2>4, <2>6, <2>12, <3>2, Zenon DEF Refers, FieldPositions
  <2>13. QED BY <2>11, <2>12
<1>2. QED BY <1>1, Invariance, PTL

===============================================================================
