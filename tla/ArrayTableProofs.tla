--------------------------- MODULE ArrayTableProofs ---------------------------
(***************************************************************************)
(* The array table implements ArrayScope, for every set of names, every    *)
(* truncation, every table size and every width of int.                    *)
(***************************************************************************)
EXTENDS ArrayTable, WellFoundedInduction, TLAPS

-----------------------------------------------------------------------------
(* The first entry of a name. *)

Less == {p \in Nat \X Nat : p[1] < p[2]}

LEMMA LessIsWellFounded == IsWellFoundedOn(Less, Nat)
BY NatLessThanWellFounded, Zenon DEF OpToRel, Less

\* A set of numbers that is not empty has a least element.
LEMMA LeastElement ==
  ASSUME NEW S \in SUBSET Nat, S # {}
  PROVE  \E k \in S : \A j \in S : k <= j
<1>1. PICK k \in S : \A j \in S : <<j, k>> \notin Less
  BY LessIsWellFounded, WFMin
<1>2. \A j \in S : ~(j < k)
  BY <1>1 DEF Less
<1> QED
  BY <1>2

\* A name that has an entry has a first one.
LEMMA FirstExists ==
  ASSUME NEW a \in Seq(Entry), NEW n, Matching(a, n) # {}
  PROVE  /\ First(a, n) \in Matching(a, n)
         /\ \A j \in Matching(a, n) : First(a, n) <= j
<1>1. Matching(a, n) \in SUBSET Nat
  BY DEF Matching
<1>2. \E k \in Matching(a, n) : \A j \in Matching(a, n) : k <= j
  BY <1>1, LeastElement
<1> QED
  BY <1>2 DEF First

\* An entry before which there is none of the same name is the first one.
LEMMA FirstIs ==
  ASSUME NEW a \in Seq(Entry), NEW n, NEW k \in Matching(a, n),
         \A j \in Matching(a, n) : k <= j
  PROVE  First(a, n) = k
<1>1. First(a, n) \in Matching(a, n) /\ \A j \in Matching(a, n) : First(a, n) <= j
  BY FirstExists
<1>2. Matching(a, n) \subseteq Nat
  BY DEF Matching
<1> QED
  BY <1>1, <1>2

\* The names the lookup knows are those with an entry, and their sizes are sizes.
LEMMA KnownNames ==
  ASSUME NEW a \in Seq(Entry)
  PROVE  /\ \A n : n \in DOMAIN KnownIn(a) <=> Matching(a, n) # {}
         /\ \A n \in DOMAIN KnownIn(a) :
              /\ KnownIn(a)[n] = FindArraySize(a, n)
              /\ FindArraySize(a, n) = a[First(a, n)].size
              /\ FindArraySize(a, n) \in 1..IntMax
<1>1. \A n : n \in DOMAIN KnownIn(a) <=> Matching(a, n) # {}
  BY DEF KnownIn, Matching
<1>2. ASSUME NEW n \in DOMAIN KnownIn(a)
      PROVE  /\ KnownIn(a)[n] = FindArraySize(a, n)
             /\ FindArraySize(a, n) = a[First(a, n)].size
             /\ FindArraySize(a, n) \in 1..IntMax
  <2>1. Matching(a, n) # {}
    BY <1>1, <1>2
  <2>2. First(a, n) \in DOMAIN a
    BY <2>1, FirstExists DEF Matching
  <2>3. a[First(a, n)] \in Entry
    BY <2>2
  <2>4. a[First(a, n)].size \in 1..IntMax
    BY <2>3 DEF Entry
  <2>5. FindArraySize(a, n) = a[First(a, n)].size
    BY <2>1 DEF FindArraySize
  <2>6. KnownIn(a)[n] = FindArraySize(a, n)
    BY <1>2 DEF KnownIn
  <2> QED
    BY <2>4, <2>5, <2>6
<1> QED
  BY <1>1, <1>2

\* Two tables look alike when every name has the same first entry size in both.
LEMMA KnownEqual ==
  ASSUME NEW a \in Seq(Entry), NEW f,
         f = [n \in DOMAIN f |-> f[n]],
         \A n : n \in DOMAIN f <=> Matching(a, n) # {},
         \A n \in DOMAIN f : FindArraySize(a, n) = f[n]
  PROVE  KnownIn(a) = f
<1>1. DOMAIN KnownIn(a) = DOMAIN f
  BY KnownNames
<1>2. \A n \in DOMAIN f : KnownIn(a)[n] = f[n]
  BY <1>1, KnownNames
<1>3. KnownIn(a) = [n \in DOMAIN KnownIn(a) |-> KnownIn(a)[n]]
  BY DEF KnownIn
<1> QED
  BY <1>1, <1>2, <1>3

-----------------------------------------------------------------------------
(* What the two ways of registering do to the table as the lookup sees it. *)

\* Updating an entry keeps the table a sequence of entries.
LEMMA UpdateTyped ==
  ASSUME NEW a \in Seq(Entry), NEW n, Matching(a, n) # {}, NEW s \in 1..IntMax
  PROVE  /\ [a EXCEPT ![First(a, n)].size = s] \in Seq(Entry)
         /\ Len([a EXCEPT ![First(a, n)].size = s]) = Len(a)
<1> DEFINE k == First(a, n)
<1>1. k \in DOMAIN a
  BY FirstExists DEF Matching
<1>2. [a[k] EXCEPT !.size = s] \in Entry
  <2>1. a[k] \in Entry
    BY <1>1
  <2> QED
    BY <2>1 DEF Entry
<1>3. \A j \in DOMAIN a, e \in Entry :
        [a EXCEPT ![j] = e] \in Seq(Entry) /\ Len([a EXCEPT ![j] = e]) = Len(a)
  OBVIOUS
<1>4. /\ [a EXCEPT ![k] = [a[k] EXCEPT !.size = s]] \in Seq(Entry)
      /\ Len([a EXCEPT ![k] = [a[k] EXCEPT !.size = s]]) = Len(a)
  BY <1>1, <1>2, <1>3
<1> QED
  BY <1>4

\* Updating the first entry of a name is declaring the name again.
LEMMA UpdateKnown ==
  ASSUME NEW a \in Seq(Entry), NEW n, Matching(a, n) # {},
         NEW s \in 1..IntMax, NEW b, b = [a EXCEPT ![First(a, n)].size = s]
  PROVE  /\ b \in Seq(Entry) /\ Len(b) = Len(a)
         /\ KnownIn(b) = Scope!With(KnownIn(a), n, s)
<1> DEFINE k == First(a, n)
           f == Scope!With(KnownIn(a), n, s)
<1>1. k \in DOMAIN a /\ a[k].name = n
  BY FirstExists DEF Matching
<1>2. a[k] \in Entry
  BY <1>1
<1>3. [a[k] EXCEPT !.size = s] \in Entry /\ [a[k] EXCEPT !.size = s].name = n
  BY <1>1, <1>2 DEF Entry
<1>4. b = [a EXCEPT ![k] = [a[k] EXCEPT !.size = s]]
  OBVIOUS
<1>5. b \in Seq(Entry) /\ Len(b) = Len(a) /\ DOMAIN b = DOMAIN a
  BY <1>1, <1>3, <1>4
<1>6. /\ b[k].name = n /\ b[k].size = s
      /\ \A j \in DOMAIN a : j # k => b[j] = a[j]
  BY <1>1, <1>2, <1>4 DEF Entry
<1>7. \A m : Matching(b, m) = Matching(a, m)
  BY <1>1, <1>5, <1>6 DEF Matching
<1>8. \A m : First(b, m) = First(a, m)
  BY <1>7 DEF First
<1>9. \A m : m \in DOMAIN f <=> Matching(b, m) # {}
  <2>1. \A m : m \in DOMAIN f <=> m \in DOMAIN KnownIn(a) \/ m = n
    BY DEF Scope!With
  <2> QED
    BY <2>1, <1>7, KnownNames
<1>10. ASSUME NEW m \in DOMAIN f PROVE FindArraySize(b, m) = f[m]
  <2>1. FindArraySize(b, m) = b[First(a, m)].size
    BY <1>8, <1>9 DEF FindArraySize
  <2>2. CASE m = n
    BY <2>1, <2>2, <1>6 DEF Scope!With
  <2>3. CASE m # n
    <3>1. m \in DOMAIN KnownIn(a) /\ f[m] = KnownIn(a)[m]
      BY <2>3 DEF Scope!With
    <3>2. First(a, m) \in DOMAIN a /\ a[First(a, m)].name = m
      BY <3>1, KnownNames, FirstExists DEF Matching
    <3>3. First(a, m) # k
      BY <3>2, <2>3, <1>1
    <3>4. b[First(a, m)] = a[First(a, m)]
      BY <3>2, <3>3, <1>6
    <3> QED
      BY <2>1, <3>1, <3>4, KnownNames
  <2> QED
    BY <2>2, <2>3
<1>11. f = [m \in DOMAIN f |-> f[m]]
  BY DEF Scope!With
<1> HIDE DEF f
<1>12. KnownIn(b) = f
  BY <1>5, <1>9, <1>10, <1>11, KnownEqual
<1> QED
  BY <1>5, <1>12 DEF f

\* A new last entry declares its name, or is hidden by an earlier one.
LEMMA InsertKnown ==
  ASSUME NEW a \in Seq(Entry), NEW t \in Name, NEW s \in 1..IntMax,
         NEW b, b = Append(a, [name |-> t, size |-> s])
  PROVE  /\ b \in Seq(Entry) /\ Len(b) = Len(a) + 1
         /\ KnownIn(b) = IF Matching(a, t) = {} THEN Scope!With(KnownIn(a), t, s)
                                                ELSE KnownIn(a)
<1> DEFINE e == [name |-> t, size |-> s]
           z == Len(a) + 1
           f == IF Matching(a, t) = {} THEN Scope!With(KnownIn(a), t, s)
                                       ELSE KnownIn(a)
<1>1. e \in Entry
  BY DEF Entry
<1>2. /\ b \in Seq(Entry) /\ Len(b) = z /\ DOMAIN b = DOMAIN a \cup {z}
      /\ z \notin DOMAIN a /\ z \in Nat /\ b[z] = e
      /\ \A j \in DOMAIN a : b[j] = a[j] /\ j \in Nat /\ j < z
  BY <1>1
<1>3. /\ \A m : m # t => Matching(b, m) = Matching(a, m)
      /\ Matching(b, t) = Matching(a, t) \cup {z}
  BY <1>2 DEF Matching
<1>4. ASSUME NEW m, Matching(a, m) # {}
      PROVE  First(b, m) = First(a, m) /\ First(a, m) \in DOMAIN a
  <2> DEFINE k == First(a, m)
  <2>1. k \in Matching(a, m) /\ \A j \in Matching(a, m) : k <= j
    BY <1>4, FirstExists
  <2>2. k \in DOMAIN a /\ k \in Nat /\ k < z
    BY <2>1, <1>2 DEF Matching
  <2>3. k \in Matching(b, m)
    BY <2>1, <1>3
  <2>4. \A j \in Matching(b, m) : k <= j
    BY <2>1, <2>2, <1>2, <1>3
  <2> HIDE DEF k
  <2>5. First(b, m) = k
    BY <2>3, <2>4, <1>2, FirstIs
  <2> QED
    BY <2>2, <2>5 DEF k
<1>5. ASSUME Matching(a, t) = {} PROVE First(b, t) = z
  <2>1. Matching(b, t) = {z}
    BY <1>5, <1>3
  <2>2. z \in Matching(b, t) /\ \A j \in Matching(b, t) : z <= j
    BY <2>1
  <2> HIDE DEF z
  <2> QED
    BY <2>2, <1>2, FirstIs
<1>6. \A m : m \in DOMAIN f <=> Matching(b, m) # {}
  <2>1. \A m : m \in DOMAIN f <=>
          m \in DOMAIN KnownIn(a) \/ (Matching(a, t) = {} /\ m = t)
    BY DEF Scope!With
  <2>2. \A m : m \in DOMAIN KnownIn(a) <=> Matching(a, m) # {}
    BY KnownNames
  <2> HIDE DEF f
  <2> QED
    BY <2>1, <2>2, <1>3
<1>7. ASSUME NEW m \in DOMAIN f PROVE FindArraySize(b, m) = f[m]
  <2>1. FindArraySize(b, m) = b[First(b, m)].size
    BY <1>6 DEF FindArraySize
  <2>2. CASE Matching(a, m) # {}
    <3>1. b[First(b, m)] = a[First(a, m)]
      BY <2>2, <1>2, <1>4
    <3>2. m \in DOMAIN KnownIn(a) /\ KnownIn(a)[m] = a[First(a, m)].size
      BY <2>2, KnownNames
    <3>3. f[m] = KnownIn(a)[m]
      BY <3>2, <2>2 DEF Scope!With
    <3> QED
      BY <2>1, <3>1, <3>2, <3>3
  <2>3. CASE Matching(a, m) = {}
    <3>1. m = t
      BY <2>3, <1>3, <1>6
    <3>2. b[First(b, m)].size = s
      BY <3>1, <2>3, <1>2, <1>5
    <3>3. f[m] = s
      BY <3>1, <2>3 DEF Scope!With
    <3> QED
      BY <2>1, <3>2, <3>3
  <2> QED
    BY <2>2, <2>3
<1>8. f = [m \in DOMAIN f |-> f[m]]
  BY DEF Scope!With, KnownIn
<1> HIDE DEF f
<1>9. KnownIn(b) = f
  BY <1>2, <1>6, <1>7, <1>8, KnownEqual
<1> QED
  BY <1>2, <1>9 DEF f

-----------------------------------------------------------------------------
(* The theorems. *)

\* Entries hold truncated names, which the lookup of a longer name never matches.
Truncated == \A k \in DOMAIN arrays : arrays[k].name \in Fitting

IInv == TypeOK /\ Truncated

\* A call that registers: it fails, updates the entry of the name, or adds one.
LEMMA Registering ==
  ASSUME IInv, NEW n \in Name, NEW s \in Literal \ {-1}, RegisterArray(n, s)
  PROVE  \/ (Unfit(s) \/ Full) /\ diagnosed' = TRUE /\ UNCHANGED arrays
         \/ /\ ~(Unfit(s) \/ Full) /\ s \in 1..IntMax /\ UNCHANGED diagnosed
            /\ Matching(arrays, n) # {} /\ n \in Fitting
            /\ Update(n, s)
         \/ /\ ~(Unfit(s) \/ Full) /\ s \in 1..IntMax /\ UNCHANGED diagnosed
            /\ Matching(arrays, n) = {}
            /\ Insert(n, s)
<1> USE ArrayAssumption DEF ArrayAssumption
<1>1. s \in 1..IntMax \/ Unfit(s)
  BY DEF Literal, FitsInt, Unfit
<1>2. Matching(arrays, n) # {} => n \in Fitting
  BY DEF Matching, IInv, Truncated
<1> QED
  BY <1>1, <1>2 DEF RegisterArray

\* The invariant holds at the start and every call preserves it.
LEMMA Inductive ==
  /\ Init => IInv
  /\ IInv /\ [Next]_vars => IInv'
<1> USE ArrayAssumption DEF ArrayAssumption
<1>1. ASSUME Init PROVE IInv
  <2>1. arrays \in Seq(Entry) /\ Len(arrays) = 0 /\ DOMAIN arrays = {}
    BY <1>1 DEF Init
  <2>2. call \in Call /\ diagnosed \in BOOLEAN
    BY <1>1 DEF Init, Call
  <2>3. Len(arrays) <= MaxArrays
    BY <2>1
  <2> QED
    BY <2>1, <2>2, <2>3 DEF IInv, TypeOK, Truncated
<1>2. ASSUME IInv, [Next]_vars PROVE IInv'
  <2>0. TypeOK /\ Truncated
    BY <1>2 DEF IInv
  <2>1. CASE ResetArrayTable
    <3>1. arrays' \in Seq(Entry) /\ Len(arrays') = 0 /\ DOMAIN arrays' = {}
      BY <2>1 DEF ResetArrayTable
    <3>2. call' \in Call /\ diagnosed' \in BOOLEAN
      BY <2>0, <2>1 DEF ResetArrayTable, TypeOK, Call
    <3>3. Len(arrays') <= MaxArrays
      BY <3>1
    <3> QED
      BY <3>1, <3>2, <3>3 DEF IInv, TypeOK, Truncated
  <2>2. ASSUME NEW n \in Name, NEW s \in Literal \ {-1}, RegisterArray(n, s)
        PROVE  IInv'
    <3>1. call' \in Call
      BY <2>2 DEF RegisterArray, Call
    <3>2. CASE UNCHANGED arrays /\ diagnosed' = TRUE
      BY <2>0, <3>1, <3>2 DEF IInv, TypeOK, Truncated
    <3>3. CASE /\ s \in 1..IntMax /\ UNCHANGED diagnosed
               /\ Matching(arrays, n) # {} /\ Update(n, s)
      <4>1. arrays' \in Seq(Entry) /\ Len(arrays') = Len(arrays)
        BY <2>0, <3>3, UpdateTyped DEF TypeOK, Update
      <4>2. \A k \in DOMAIN arrays' : arrays'[k].name = arrays[k].name
        BY <2>0, <3>3 DEF Update, TypeOK, Entry
      <4>3. DOMAIN arrays' = DOMAIN arrays
        BY <3>3 DEF Update
      <4>4. Truncated'
        BY <2>0, <4>2, <4>3 DEF Truncated
      <4> QED
        BY <2>0, <3>1, <3>3, <4>1, <4>4 DEF IInv, TypeOK
    <3>4. CASE /\ ~Full /\ s \in 1..IntMax /\ UNCHANGED diagnosed
               /\ Insert(n, s)
      <4> DEFINE t == Stored[n]
      <4>1. t \in Name /\ t \in Fitting
        BY DEF Fitting
      <4>2. arrays' = Append(arrays, [name |-> t, size |-> s])
        BY <3>4 DEF Insert
      <4> HIDE DEF t
      <4>3. arrays' \in Seq(Entry) /\ Len(arrays') = Len(arrays) + 1
        BY <2>0, <3>4, <4>1, <4>2, InsertKnown DEF TypeOK
      <4>4. Len(arrays') <= MaxArrays
        BY <2>0, <3>4, <4>3 DEF TypeOK, Full
      <4>5. \A k \in DOMAIN arrays' :
              \/ k \in DOMAIN arrays /\ arrays'[k] = arrays[k]
              \/ arrays'[k] = [name |-> t, size |-> s]
        BY <2>0, <4>2 DEF TypeOK
      <4>6. Truncated'
        BY <2>0, <4>1, <4>5 DEF Truncated
      <4> QED
        BY <2>0, <3>1, <3>4, <4>3, <4>4, <4>6 DEF IInv, TypeOK
    <3> QED
      BY <1>2, <2>2, <3>2, <3>3, <3>4, Registering
  <2>3. ASSUME NEW n \in Name, NEW i \in Literal, ValidateArrayBounds(n, i)
        PROVE  IInv'
    <3>1. Rejects(n, i) \in BOOLEAN
      BY DEF Rejects
    <3>2. call' \in Call /\ diagnosed' \in BOOLEAN /\ UNCHANGED arrays
      BY <2>0, <2>3, <3>1 DEF ValidateArrayBounds, Call, TypeOK
    <3> QED
      BY <2>0, <3>2 DEF IInv, TypeOK, Truncated
  <2>4. CASE UNCHANGED vars
    BY <2>0, <2>4 DEF IInv, TypeOK, Truncated, vars
  <2> QED
    BY <1>2, <2>1, <2>2, <2>3, <2>4 DEF Next
<1> QED
  BY <1>1, <1>2

\* The variables have their types: sizes are sizes, names are names, and the
\* table never holds more than MAX_ARRAYS entries.
THEOREM TypeCorrect == Spec => []TypeOK
<1>1. IInv => TypeOK
  BY DEF IInv
<1> QED
  BY Inductive, <1>1, PTL DEF Spec

\* What a call that registers does to the scope.
LEMMA RegisterImplements ==
  ASSUME IInv, NEW n \in Name, NEW s \in Literal \ {-1}, RegisterArray(n, s)
  PROVE  Scope!Next
<1> USE ArrayAssumption DEF ArrayAssumption
<1>1. arrays \in Seq(Entry)
  BY DEF IInv, TypeOK
<1>2. CASE (Unfit(s) \/ Full) /\ diagnosed' = TRUE /\ UNCHANGED arrays
  <2>1. call' = [op |-> "declare", name |-> n, size |-> s, refused |-> TRUE]
    BY <1>2 DEF RegisterArray
  <2>2. UNCHANGED Known
    BY <1>2 DEF Known
  <2>3. Scope!Refuse(n, s)
    BY <1>2, <2>1, <2>2 DEF Scope!Refuse
  <2> QED
    BY <2>3 DEF Scope!Next
<1>3. CASE /\ ~(Unfit(s) \/ Full) /\ s \in 1..IntMax /\ UNCHANGED diagnosed
           /\ Matching(arrays, n) # {} /\ n \in Fitting
           /\ Update(n, s)
  <2>1. call' = [op |-> "declare", name |-> n, size |-> s, refused |-> FALSE]
    BY <1>3 DEF RegisterArray
  <2>2. KnownIn(arrays') = Scope!With(KnownIn(arrays), n, s)
    BY <1>1, <1>3, UpdateKnown DEF Update
  <2>3. Scope!Declare(n, s)
    BY <1>3, <2>1, <2>2 DEF Scope!Declare, Known
  <2> QED
    BY <1>3, <2>3 DEF Scope!Next
<1>4. CASE /\ ~(Unfit(s) \/ Full) /\ s \in 1..IntMax /\ UNCHANGED diagnosed
           /\ Matching(arrays, n) = {}
           /\ Insert(n, s)
  <2>1. call' = [op |-> "declare", name |-> n, size |-> s, refused |-> FALSE]
    BY <1>4 DEF RegisterArray
  <2>2. PICK t \in Name : t = Stored[n]
    OBVIOUS
  <2>3. t \in Fitting
    BY <2>2 DEF Fitting
  <2>4. s \in 1..IntMax
    BY <1>4
  <2>5. arrays' = Append(arrays, [name |-> t, size |-> s])
    BY <1>4, <2>2 DEF Insert
  <2>6. KnownIn(arrays') = IF Matching(arrays, t) = {}
                             THEN Scope!With(KnownIn(arrays), t, s)
                             ELSE KnownIn(arrays)
    BY <1>1, <2>4, <2>5, InsertKnown, Zenon
  <2>7. CASE n \in Fitting
    <3>1. t = n
      BY <2>2, <2>7 DEF Fitting
    <3>2. KnownIn(arrays') = Scope!With(KnownIn(arrays), n, s)
      BY <1>4, <2>6, <3>1
    <3>3. Scope!Declare(n, s)
      BY <1>4, <2>1, <2>7, <3>2 DEF Scope!Declare, Known
    <3> QED
      BY <1>4, <3>3 DEF Scope!Next
  <2>8. CASE n \notin Fitting /\ Matching(arrays, t) = {}
    <3>1. KnownIn(arrays') = Scope!With(KnownIn(arrays), t, s)
      BY <2>8, <2>6
    <3>2. t \notin DOMAIN KnownIn(arrays)
      BY <1>1, <2>8, KnownNames
    <3>3. Scope!Declare(n, s)
      BY <1>4, <2>1, <2>3, <2>8, <3>1, <3>2 DEF Scope!Declare, Known
    <3> QED
      BY <1>4, <3>3 DEF Scope!Next
  <2>9. CASE n \notin Fitting /\ Matching(arrays, t) # {}
    <3>1. KnownIn(arrays') = KnownIn(arrays)
      BY <2>9, <2>6
    <3>2. Scope!Declare(n, s)
      BY <1>4, <2>1, <2>9, <3>1 DEF Scope!Declare, Known
    <3> QED
      BY <1>4, <3>2 DEF Scope!Next
  <2> QED
    BY <2>7, <2>8, <2>9
<1> QED
  BY <1>2, <1>3, <1>4, Registering

\* The bounds check answers what the scope says.
LEMMA AccessImplements ==
  ASSUME IInv, NEW n \in Name, NEW i \in Literal, ValidateArrayBounds(n, i)
  PROVE  Scope!Next
<1>1. UNCHANGED Known
  BY DEF ValidateArrayBounds, Known
<1>2. Rejects(n, i) <=>
        i \in {j \in Literal : FitsInt(j)} /\ Scope!OutOfBounds(n, i)
  <2>0. arrays \in Seq(Entry)
    BY DEF IInv, TypeOK
  <2>1. CASE n \in DOMAIN Known
    <3>1. /\ Known[n] = FindArraySize(arrays, n)
          /\ FindArraySize(arrays, n) \in 1..IntMax
      BY <2>0, <2>1, KnownNames DEF Known
    <3>2. i \in Int
      BY ArrayAssumption DEF Literal, ArrayAssumption
    <3>3. FindArraySize(arrays, n) > 0
      BY <3>1, ArrayAssumption DEF ArrayAssumption
    <3> QED
      BY <2>1, <3>1, <3>2, <3>3, ArrayAssumption
      DEF Rejects, Scope!OutOfBounds, ArrayAssumption
  <2>2. CASE n \notin DOMAIN Known
    <3>1. Matching(arrays, n) = {}
      BY <2>0, <2>2, KnownNames DEF Known
    <3>2. FindArraySize(arrays, n) = -1
      BY <3>1 DEF FindArraySize
    <3> QED
      BY <2>2, <3>2 DEF Rejects, Scope!OutOfBounds
  <2> QED
    BY <2>1, <2>2
<1>3. Rejects(n, i) =
        (i \in {j \in Literal : FitsInt(j)} /\ Scope!OutOfBounds(n, i))
  BY <1>2 DEF Rejects
<1>4. Scope!Access(n, i)
  BY <1>1, <1>3, Zenon DEF ValidateArrayBounds, Scope!Access
<1> QED
  BY <1>4 DEF Scope!Next

\* Every behaviour of the table is one of ArrayScope: an index is checked
\* against the size of the last declaration of its array, and against nothing
\* that another function declared.
THEOREM Implements == Spec => ImplementsArrayScope
<1>1. Init => Scope!Init
  BY DEF Init, Scope!Init, Known, KnownIn, Scope!NoArrays
<1>2. IInv /\ [Next]_vars => [Scope!Next]_(Scope!vars)
  <2> SUFFICES ASSUME IInv, [Next]_vars
               PROVE  Scope!Next \/ UNCHANGED Scope!vars
    BY DEF Scope!vars
  <2>1. CASE ResetArrayTable
    <3>1. Known' = Scope!NoArrays
      BY <2>1 DEF ResetArrayTable, Known, KnownIn, Scope!NoArrays
    <3> QED
      BY <2>1, <3>1 DEF ResetArrayTable, Scope!Next, Scope!EnterFunction
  <2>2. CASE UNCHANGED vars
    BY <2>2 DEF vars, Scope!vars, Known
  <2> QED
    BY <2>1, <2>2, RegisterImplements, AccessImplements DEF Next
<1> QED
  BY <1>1, <1>2, Inductive, PTL DEF Spec, ImplementsArrayScope, Scope!Spec

=============================================================================
