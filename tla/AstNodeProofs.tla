---------------------------- MODULE AstNodeProofs ----------------------------
(***************************************************************************)
(* The invariants of the tree of nodes, for every set of addresses, every  *)
(* initial capacity and growth factor, and any choice of allocations that  *)
(* fail.                                                                   *)
(***************************************************************************)
EXTENDS AstNode, TLAPS

\* The entries still to be freed, or all of them when nothing is being freed.
Entries(p) == next[p]..Len(children[p])

\* An entry is in one array only and once.
OneEntry ==
  \A p, q \in live : \A i \in Entries(p) : \A j \in Entries(q) :
    children[p][i] = children[q][j] => p = q /\ i = j

\* An entry is a live node whose parent field is the array's node.
EntryLinked ==
  \A p \in live : \A i \in Entries(p) :
    children[p][i] \in live /\ parent[children[p][i]] = p

\* What the parser holds, what it lost and what is being freed are roots.
Root(n) == \A p \in live : \A i \in Entries(p) : children[p][i] # n
Roots ==
  /\ \A n \in held \cup lost : Root(n)
  /\ stack # <<>> => Root(stack[1]) /\ stack[1] \notin held \cup lost
  /\ held \cap lost = {}

\* The activations of free_node descend from entry to entry.
StackDescends ==
  /\ \A i \in 1..Len(stack) : stack[i] \in live
  /\ \A i \in 1..(Len(stack) - 1) :
       /\ next[stack[i]] \in Entries(stack[i])
       /\ children[stack[i]][next[stack[i]]] = stack[i + 1]

OnStack(n) == \E i \in 1..Len(stack) : stack[i] = n
IndexRests == \A n \in Node : ~OnStack(n) => next[n] = 1

\* No node is out of reach but those that were lost, with an error.
Accounted ==
  /\ lost # {} => logged
  /\ \A n \in live : \/ n \in held \cup lost
                     \/ \E p \in live : \E i \in Entries(p) : children[p][i] = n
                     \/ stack # <<>> /\ n = stack[1]

IInv ==
  /\ TypeOK /\ BlockHoldsChildren /\ OneEntry /\ EntryLinked /\ Roots
  /\ StackDescends /\ FreesOnce /\ IndexRests /\ Accounted

-----------------------------------------------------------------------------

\* A block that has doubled has room for one more child.
LEMMA GrowthMakesRoom ==
  ASSUME NEW a \in Nat \ {0}, NEW g \in Nat, g > 1
  PROVE  a * g \in Nat /\ a * g >= a + 1
<1>1. a * g = a * (g - 1) + a  BY SMT
<1>2. a * (g - 1) >= 1  BY SMT
<1> QED  BY <1>1, <1>2, SMT

LEMMA InitIInv == Init => IInv
<1> SUFFICES ASSUME Init PROVE IInv  OBVIOUS
<1> USE AstNodeAssumption DEF Init
<1>1. TypeOK
  <2>1. children \in [Node -> Seq(Node)] /\ stack \in Seq(Node)  OBVIOUS
  <2>2. next \in [Node -> Nat \ {0}] /\ slots \in [Node -> Nat] /\ capacity \in [Node -> Nat]  BY SMT
  <2>3. parent \in [Node -> Node \cup {None}]  OBVIOUS
  <2> QED  BY <2>1, <2>2, <2>3 DEF TypeOK
<1>2. BlockHoldsChildren /\ OneEntry /\ EntryLinked  BY DEF BlockHoldsChildren, OneEntry, EntryLinked
<1>3. Roots /\ StackDescends  BY DEF Roots, StackDescends, Root
<1>4. IndexRests /\ Accounted /\ FreesOnce  BY DEF IndexRests, Accounted, FreesOnce
<1> QED  BY <1>1, <1>2, <1>3, <1>4 DEF IInv

-----------------------------------------------------------------------------
(* Each step keeps the invariant. *)

LEMMA CreateNodeStep ==
  ASSUME IInv, NEW n \in Node, CreateNode(n)  PROVE IInv'
<1> USE DEF IInv, CreateNode, Running, Entries
<1>1. TypeOK'
  <2>1. children' \in [Node -> Seq(Node)]  BY DEF TypeOK
  <2> QED  BY <2>1, AstNodeAssumption DEF TypeOK
<1>2. \A m \in live : /\ m # n /\ children'[m] = children[m] /\ slots'[m] = slots[m]
                      /\ capacity'[m] = capacity[m] /\ parent'[m] = parent[m]
  BY DEF TypeOK
<1>3. children'[n] = <<>> /\ slots'[n] = 0 /\ live' = live \cup {n} /\ Len(<<>>) = 0
  BY DEF TypeOK
<1>4. BlockHoldsChildren'  BY <1>2, <1>3 DEF BlockHoldsChildren
<1>5. next' = next /\ next[n] \in Nat \ {0}  BY DEF TypeOK
<1>6. Entries(n)' = {} /\ \A m \in live : Entries(m)' = Entries(m)
  BY <1>2, <1>3, <1>5
<1>7. OneEntry'  BY <1>2, <1>3, <1>6 DEF OneEntry
<1>8. EntryLinked'  BY <1>2, <1>3, <1>6 DEF EntryLinked
<1>9. Root(n)'  BY <1>2, <1>3, <1>6 DEF Root, EntryLinked
<1>10. \A m : Root(m) => Root(m)'  BY <1>2, <1>3, <1>6 DEF Root
<1>11. Roots'  BY <1>9, <1>10 DEF Roots, TypeOK
<1>12. StackDescends'  BY DEF StackDescends
<1>13. IndexRests'  BY DEF IndexRests, OnStack
<1>14. Accounted'  BY <1>2, <1>3, <1>6 DEF Accounted
<1>15. FreesOnce'  BY DEF FreesOnce
<1> QED  BY <1>1, <1>4, <1>7, <1>8, <1>11, <1>12, <1>13, <1>14, <1>15

LEMMA IdleStep ==
  ASSUME IInv, CreateNodeFails \/ AddNull  PROVE IInv'
<1> USE DEF IInv, CreateNodeFails, AddNull, Entries
<1>0. logged' \in BOOLEAN /\ exited' \in BOOLEAN /\ (logged => logged')
      /\ UNCHANGED <<live, held, lost, children, slots, capacity, parent, stack, next>>
  BY Zenon DEF TypeOK
<1> HIDE DEF CreateNodeFails, AddNull
<1>4. TypeOK'  BY <1>0 DEF TypeOK
<1>1. BlockHoldsChildren' /\ OneEntry' /\ EntryLinked'
  BY <1>0 DEF BlockHoldsChildren, OneEntry, EntryLinked
<1>2. Roots' /\ StackDescends' /\ FreesOnce' /\ IndexRests'
  BY <1>0 DEF Roots, Root, StackDescends, FreesOnce, IndexRests, OnStack
<1>3. Accounted'  BY <1>0 DEF Accounted
<1> QED  BY <1>1, <1>2, <1>3, <1>4

\* Outside of free_node every index is at the first entry.
LEMMA AllRest ==
  ASSUME IInv, stack = <<>>, NEW n \in Node  PROVE next[n] = 1
BY DEF IInv, IndexRests, OnStack

LEMMA AddChildStep ==
  ASSUME IInv, NEW p \in Node, NEW c \in Node, AddChild(p, c)  PROVE IInv'
<1> USE DEF IInv, AddChild, MayAttach, Running, Entries, LetGo, SetParent
<1>1. /\ p \in live /\ c \in live /\ children[p] \in Seq(Node)
      /\ children'[p] = Append(children[p], c)
      /\ parent'[c] = p /\ slots'[p] = Block(p) /\ capacity'[p] = Room(p)
      /\ live' = live /\ next' = next /\ next[p] = 1 /\ stack' = stack
  BY AllRest DEF TypeOK
<1>2. \A m \in live : /\ m # p => /\ children'[m] = children[m]
                                /\ slots'[m] = slots[m] /\ capacity'[m] = capacity[m]
                      /\ m # c => parent'[m] = parent[m]
  BY DEF TypeOK
<1>3. /\ Len(children'[p]) = Len(children[p]) + 1
      /\ \A i \in 1..Len(children[p]) : children'[p][i] = children[p][i]
      /\ children'[p][Len(children[p]) + 1] = c
      /\ Len(children[p]) \in Nat
  BY <1>1
<1>4. Block(p) \in Nat /\ Room(p) \in Nat /\ Block(p) = Room(p) /\ Len(children[p]) + 1 <= Block(p)
  <2>1. /\ slots[p] \in Nat /\ capacity[p] \in Nat /\ Len(children[p]) <= slots[p]
        /\ slots[p] > 0 => capacity[p] = slots[p]
    BY <1>1 DEF TypeOK, BlockHoldsChildren
  <2>2. CASE slots[p] = 0
    BY <2>1, <2>2, <1>3, AstNodeAssumption DEF Block, Room, NoBlock
  <2>3. CASE slots[p] # 0 /\ ~IsFull(p)
    BY <2>1, <2>3, <1>3 DEF Block, Room, NoBlock, IsFull
  <2>4. CASE slots[p] # 0 /\ IsFull(p)
    <3>1. capacity[p] \in Nat \ {0} /\ Len(children[p]) <= capacity[p]  BY <2>1, <2>4
    <3>2. capacity[p] * Growth \in Nat /\ capacity[p] * Growth >= capacity[p] + 1
      BY <3>1, GrowthMakesRoom, AstNodeAssumption
    <3>3. Block(p) = capacity[p] * Growth /\ Room(p) = capacity[p] * Growth
      BY <2>4 DEF Block, Room, NoBlock
    <3> QED  BY <3>1, <3>2, <3>3, <1>3
  <2> QED  BY <2>2, <2>3, <2>4
<1>5. TypeOK'
  <2>1. children' \in [Node -> Seq(Node)]  BY <1>1 DEF TypeOK
  <2>2. slots' \in [Node -> Nat] /\ capacity' \in [Node -> Nat]  BY <1>4 DEF TypeOK
  <2>3. parent' \in [Node -> Node \cup {None}]  BY DEF TypeOK
  <2> QED  BY <2>1, <2>2, <2>3 DEF TypeOK
<1>6. BlockHoldsChildren'  BY <1>1, <1>2, <1>3, <1>4 DEF BlockHoldsChildren
<1>7. /\ \A m \in live : m # p => Entries(m)' = Entries(m)
      /\ Entries(p)' = Entries(p) \cup {Len(children[p]) + 1}
      /\ Entries(p) = 1..Len(children[p])
  BY <1>1, <1>2, <1>3
<1>8. Root(c)  BY DEF Roots
<1>9. ASSUME NEW q \in live, NEW i \in Entries(q)'
      PROVE  \/ i \in Entries(q) /\ children'[q][i] = children[q][i] /\ children[q][i] # c
             \/ q = p /\ i = Len(children[p]) + 1 /\ children'[q][i] = c
  BY <1>2, <1>3, <1>7, <1>8 DEF Root
<1>10. OneEntry'
  <2>1. ASSUME NEW q \in live, NEW r \in live, NEW i \in Entries(q)', NEW j \in Entries(r)',
               children'[q][i] = children'[r][j]
        PROVE  q = r /\ i = j
    <3>1. CASE i \in Entries(q) /\ j \in Entries(r)
      <4>1. children[q][i] = children[r][j]  BY <2>1, <3>1, <1>2, <1>3, <1>7
      <4> QED  BY <3>1, <4>1 DEF OneEntry
    <3>2. CASE i \notin Entries(q)
      <4>1. q = p /\ i = Len(children[p]) + 1 /\ children'[q][i] = c  BY <3>2, <1>9
      <4>2. r = p /\ j = Len(children[p]) + 1  BY <4>1, <2>1, <1>9
      <4> QED  BY <4>1, <4>2
    <3>3. CASE j \notin Entries(r)
      <4>1. r = p /\ j = Len(children[p]) + 1 /\ children'[r][j] = c  BY <3>3, <1>9
      <4>2. q = p /\ i = Len(children[p]) + 1  BY <4>1, <2>1, <1>9
      <4> QED  BY <4>1, <4>2
    <3> QED  BY <3>1, <3>2, <3>3
  <2> HIDE DEF IInv, AddChild, Entries
  <2> QED  BY <2>1, <1>1 DEF OneEntry
<1>11. EntryLinked'
  <2>1. ASSUME NEW q \in live, NEW i \in Entries(q)'
        PROVE  children'[q][i] \in live /\ parent'[children'[q][i]] = q
    BY <1>1, <1>2, <1>9 DEF EntryLinked
  <2> QED  BY <2>1, <1>1 DEF EntryLinked
<1>12. Roots'
  <2>1. \A m \in held' \cup lost' : m # c /\ Root(m)  BY DEF Roots
  <2>2. ASSUME NEW m \in held' \cup lost' PROVE Root(m)'
    BY <2>1, <1>1, <1>9 DEF Root
  <2> QED  BY <2>2 DEF Roots
<1>13. StackDescends' /\ FreesOnce'  BY <1>1 DEF StackDescends, FreesOnce
<1>14. IndexRests'  BY DEF IndexRests, OnStack
<1>15. Accounted'
  <2>1. ASSUME NEW m \in live, m # c, m \notin held \cup lost
        PROVE  \E q \in live : \E i \in Entries(q)' : children'[q][i] = m
    <3>1. PICK q \in live : \E i \in Entries(q) : children[q][i] = m  BY <2>1 DEF Accounted
    <3>2. PICK i \in Entries(q) : children[q][i] = m  BY <3>1
    <3>3. i \in Entries(q)' /\ children'[q][i] = m  BY <3>2, <1>2, <1>3, <1>7
    <3> QED  BY <3>3
  <2>2. \E i \in Entries(p)' : children'[p][i] = c  BY <1>3, <1>7
  <2>3. \A m \in live : m # c => (m \in held' \cup lost' <=> m \in held \cup lost)  OBVIOUS
  <2>4. lost' # {} => logged'  BY DEF Accounted
  <2> HIDE DEF IInv, AddChild, Entries
  <2>5. ASSUME NEW m \in live
        PROVE  m \in held' \cup lost' \/ \E q \in live : \E i \in Entries(q)' : children'[q][i] = m
    BY <2>1, <2>2, <2>3, <1>1
  <2> QED  BY <2>4, <2>5, <1>1 DEF Accounted
<1> QED  BY <1>5, <1>6, <1>10, <1>11, <1>12, <1>13, <1>14, <1>15

LEMMA AddChildFailsStep ==
  ASSUME IInv, NEW p \in Node, NEW c \in Node, AddChildFails(p, c)  PROVE IInv'
<1> USE DEF IInv, AddChildFails, MayAttach, Running, Entries, LetGo, LogError
<1>1. CapacityAfterFailure(p) \in Nat /\ (slots[p] > 0 => CapacityAfterFailure(p) = capacity[p])
  BY AstNodeAssumption DEF TypeOK, CapacityAfterFailure, NoBlock
<1>2. TypeOK'
  <2>1. capacity' \in [Node -> Nat]  BY <1>1 DEF TypeOK
  <2>2. c \in live /\ live' = live  BY DEF TypeOK
  <2> QED  BY <2>1, <2>2 DEF TypeOK
<1>3. BlockHoldsChildren'  BY <1>1 DEF BlockHoldsChildren, TypeOK
<1>4. OneEntry' /\ EntryLinked'  BY DEF OneEntry, EntryLinked
<1>5. Roots'  BY DEF Roots, Root
<1>6. StackDescends' /\ FreesOnce' /\ IndexRests'
  BY DEF StackDescends, FreesOnce, IndexRests, OnStack
<1>7. Accounted'  BY DEF Accounted
<1> QED  BY <1>2, <1>3, <1>4, <1>5, <1>6, <1>7

LEMMA TakeOutStep ==
  ASSUME IInv, NEW s \in Node, TakeOut(s)  PROVE IInv'
<1> USE DEF IInv, TakeOut, Running, Entries
<1>0. PICK c : c = children[s][1]  OBVIOUS
<1>1. s \in live /\ next[s] = 1 /\ Entries(s) = {1} /\ next' = next /\ stack' = stack
  BY AllRest DEF TypeOK
<1>2. c \in live /\ c \in Node  BY <1>0, <1>1 DEF EntryLinked, TypeOK
<1>3. Root(s)  BY DEF Roots
<1>4. c # s  BY <1>0, <1>1, <1>3 DEF Root
<1>5. c \notin held \cup lost  BY <1>0, <1>1 DEF Roots, Root
<1>6. s \notin lost  BY DEF Roots
<1>7. \A m \in live' : /\ m \in live /\ m # s /\ children'[m] = children[m] /\ slots'[m] = slots[m]
                       /\ Entries(m)' = Entries(m)
  BY <1>1 DEF TypeOK
<1>8. \A m \in live' : \A i \in Entries(m) : children[m][i] # c /\ children[m][i] # s
  BY <1>0, <1>1, <1>3, <1>7 DEF OneEntry, Root
<1>9. TypeOK'
  <2>1. children' \in [Node -> Seq(Node)] /\ slots' \in [Node -> Nat]  BY DEF TypeOK
  <2>2. held' \subseteq live' /\ lost' \subseteq live'  BY <1>0, <1>2, <1>4, <1>6 DEF TypeOK
  <2> QED  BY <2>1, <2>2 DEF TypeOK
<1>10. BlockHoldsChildren'  BY <1>7 DEF BlockHoldsChildren
<1>11. OneEntry'  BY <1>7 DEF OneEntry
<1>12. EntryLinked'  BY <1>7, <1>8 DEF EntryLinked
<1>13. Roots'
  <2>1. Root(c)'  BY <1>7, <1>8 DEF Root
  <2>2. \A m : Root(m) => Root(m)'  BY <1>7 DEF Root
  <2>3. \A m \in held \cup lost : Root(m)'  BY <2>2 DEF Roots
  <2>4. held' \cap lost' = {}  BY <1>0, <1>5 DEF Roots
  <2>5. held' \cup lost' \subseteq held \cup lost \cup {c}  BY <1>0
  <2> QED  BY <2>1, <2>3, <2>4, <2>5 DEF Roots
<1>14. StackDescends' /\ FreesOnce' /\ IndexRests'
  BY <1>1 DEF StackDescends, FreesOnce, IndexRests, OnStack
<1>15. Accounted'
  <2>1. ASSUME NEW m \in live', m \notin held' \cup lost'
        PROVE  \E q \in live' : \E i \in Entries(q)' : children'[q][i] = m
    <3>1. m # s /\ m # c /\ m \notin held \cup lost  BY <1>0, <2>1
    <3>2. PICK q \in live : \E i \in Entries(q) : children[q][i] = m  BY <3>1, <2>1 DEF Accounted
    <3>3. q # s  BY <1>0, <3>1, <3>2, <1>1
    <3> QED  BY <3>2, <3>3, <1>7
  <2> QED  BY <2>1 DEF Accounted
<1> QED  BY <1>9, <1>10, <1>11, <1>12, <1>13, <1>14, <1>15

LEMMA FreeNodeStep ==
  ASSUME IInv, NEW n \in Node, FreeNode(n)  PROVE IInv'
<1> USE DEF IInv, FreeNode, Running, LetGo, Entries
<1>1. n \in live /\ stack' = <<n>> /\ next[n] = 1  BY AllRest DEF TypeOK
<1>2. TypeOK'  BY DEF TypeOK
<1>3. BlockHoldsChildren' /\ OneEntry' /\ EntryLinked'
  BY DEF BlockHoldsChildren, OneEntry, EntryLinked
<1>4. Root(n) /\ n \notin held' \cup lost'  BY DEF Roots
<1>5. Roots'  BY <1>1, <1>4 DEF Roots, Root
<1>6. Len(stack') = 1 /\ stack'[1] = n  BY <1>1
<1>7. StackDescends'  BY <1>1, <1>6 DEF StackDescends
<1>8. FreesOnce'  BY <1>1, <1>6 DEF FreesOnce
<1>9. IndexRests'  BY AllRest DEF IndexRests
<1>10. Accounted'  BY <1>6 DEF Accounted
<1> QED  BY <1>2, <1>3, <1>5, <1>7, <1>8, <1>9, <1>10

LEMMA FreeChildStep ==
  ASSUME IInv, FreeChild  PROVE IInv'
<1> USE DEF IInv, FreeChild, HasMore, Entries
<1>0. PICK k \in Nat \ {0} : k = Len(stack)  BY DEF TypeOK
<1>1. PICK t : t = Top  OBVIOUS
<1>2. t = stack[k] /\ t \in live /\ t \in Node
  <2>1. t = stack[k]  BY <1>0, <1>1 DEF Top
  <2>2. k \in 1..Len(stack)  BY <1>0
  <2>3. t \in live  BY <2>1, <2>2 DEF StackDescends
  <2> QED  BY <2>1, <2>3 DEF TypeOK
<1>3. next[t] \in Entries(t)  BY <1>1, <1>2 DEF TypeOK
<1>4. PICK c : c = children[t][next[t]]  OBVIOUS
<1>5. c \in live /\ c \in Node  BY <1>2, <1>3, <1>4 DEF EntryLinked, TypeOK
<1>6. stack' = Append(stack, c) /\ stack \in Seq(Node)  BY <1>1, <1>4 DEF TypeOK
<1>7. /\ Len(stack') = k + 1 /\ stack'[k + 1] = c
      /\ \A i \in 1..k : stack'[i] = stack[i]
      /\ stack' # <<>> /\ stack'[1] = stack[1]
  BY <1>0, <1>5, <1>6
<1>8. UNCHANGED <<live, held, lost, children, slots, capacity, parent, next, logged, exited>>
  OBVIOUS
<1>9. \A i \in 1..k : stack[i] # c
  <2>1. stack[1] # c  BY <1>2, <1>3, <1>4 DEF Roots, Root
  <2>2. ASSUME NEW i \in 2..k, stack[i] = c  PROVE FALSE
    <3>1. i - 1 \in 1..(k - 1) /\ (i - 1) + 1 = i  BY <1>0
    <3>2. PICK b : b = stack[i - 1]  OBVIOUS
    <3>3. b \in live /\ next[b] \in Entries(b) /\ children[b][next[b]] = c
      BY <1>0, <3>1, <3>2, <2>2 DEF StackDescends
    <3>4. b = t  BY <3>3, <1>2, <1>3, <1>4 DEF OneEntry
    <3>5. i - 1 = k
      <4>1. stack[i - 1] = stack[k]  BY <3>2, <3>4, <1>2
      <4>2. i - 1 \in 1..Len(stack) /\ k \in 1..Len(stack)  BY <3>1, <1>0
      <4> QED  BY <4>1, <4>2 DEF FreesOnce
    <3> QED  BY <3>5, <1>0
  <2> QED  BY <2>1, <2>2, <1>0
<1>10. TypeOK'
  <2>1. stack' \in Seq(Node)  BY <1>5, <1>6
  <2> QED  BY <2>1, <1>8 DEF TypeOK
<1>11. BlockHoldsChildren' /\ OneEntry' /\ EntryLinked'
  BY <1>8 DEF BlockHoldsChildren, OneEntry, EntryLinked
<1>12. Roots'  BY <1>7, <1>8 DEF Roots, Root
<1>13. StackDescends'
  <2>1. \A i \in 1..(k + 1) : stack'[i] \in live
    BY <1>0, <1>5, <1>7 DEF StackDescends
  <2>2. \A i \in 1..k : /\ next[stack[i]] \in Entries(stack[i])
                       /\ children[stack[i]][next[stack[i]]] = stack'[i + 1]
    BY <1>0, <1>2, <1>3, <1>4, <1>7 DEF StackDescends
  <2> QED  BY <2>1, <2>2, <1>7, <1>8, <1>0 DEF StackDescends
<1>14. FreesOnce'
  <2>1. \A i, j \in 1..k : stack[i] = stack[j] => i = j  BY <1>0 DEF FreesOnce
  <2>2. \A i, j \in 1..(k + 1) : stack'[i] = stack'[j] => i = j
    BY <2>1, <1>0, <1>7, <1>9
  <2>3. \A i \in 1..(k + 1) : stack'[i] \in live'  BY <1>0, <1>5, <1>7, <1>8 DEF FreesOnce
  <2> QED  BY <2>2, <2>3, <1>7 DEF FreesOnce
<1>15. IndexRests'
  <2>1. \A n : OnStack(n) => OnStack(n)'
    <3> SUFFICES ASSUME NEW n, NEW i \in 1..Len(stack), stack[i] = n  PROVE OnStack(n)'
      BY DEF OnStack
    <3>1. i \in 1..Len(stack') /\ stack'[i] = n  BY <1>0, <1>7
    <3> QED  BY <3>1 DEF OnStack
  <2> QED  BY <2>1, <1>8 DEF IndexRests
<1>16. Accounted'  BY <1>7, <1>8 DEF Accounted
<1> QED  BY <1>10, <1>11, <1>12, <1>13, <1>14, <1>15, <1>16

LEMMA FreeSelfStep ==
  ASSUME IInv, FreeSelf  PROVE IInv'
<1> USE DEF IInv, FreeSelf, HasMore, Entries
<1>0. PICK k \in Nat \ {0} : k = Len(stack)  BY DEF TypeOK
<1>1. PICK t : t = Top  OBVIOUS
<1>2. t = stack[k] /\ t \in live /\ t \in Node /\ ~(next[t] <= Len(children[t]))
  BY <1>0, <1>1 DEF Top, StackDescends, TypeOK
<1>3. /\ stack' = SubSeq(stack, 1, k - 1) /\ stack \in Seq(Node)
      /\ Below = SubSeq(stack, 1, k - 1)
  BY <1>0 DEF Below, TypeOK
<1>4. /\ Len(stack') = k - 1 /\ stack' \in Seq(Node)
      /\ \A i \in 1..(k - 1) : stack'[i] = stack[i]
  BY <1>0, <1>3
<1>5. /\ live' = live \ {t} /\ slots' = [slots EXCEPT ![t] = 0]
      /\ children' = [children EXCEPT ![t] = <<>>]
      /\ UNCHANGED <<held, lost, capacity, parent, logged, exited>>
  BY <1>1
<1>6. \A m \in live' : /\ m \in live /\ m # t /\ m \in Node
                       /\ children'[m] = children[m] /\ slots'[m] = slots[m]
  BY <1>5 DEF TypeOK
<1>7. t \notin held \cup lost
  <2>1. CASE k = 1  BY <2>1, <1>0, <1>2 DEF Roots
  <2>2. CASE k > 1
    <3>1. PICK b : b = stack[k - 1]  OBVIOUS
    <3>2. b \in live /\ next[b] \in Entries(b) /\ children[b][next[b]] = t
      BY <3>1, <2>2, <1>0, <1>2 DEF StackDescends
    <3> QED  BY <3>2 DEF Roots, Root
  <2> QED  BY <2>1, <2>2
<1>8. \A i \in 1..(k - 1) : stack[i] # t  BY <1>0, <1>2 DEF FreesOnce
<1>9. \A m \in Node : next'[m] = IF m = t THEN 1
                                 ELSE IF k > 1 /\ m = stack[k - 1] THEN next[m] + 1 ELSE next[m]
  <2> HIDE DEF IInv, FreeSelf
  <2>0. Below = stack'  BY <1>3
  <2>1. Below # <<>> <=> k > 1  BY <1>0, <1>4, <2>0
  <2>2. k > 1 => Below[Len(Below)] = stack[k - 1]  BY <1>0, <1>4, <2>0
  <2> USE DEF FreeSelf
  <2> QED  BY <2>1, <2>2, <1>1, Zenon DEF Resume
<1>10. TypeOK'
  <2>1. next' \in [Node -> Nat \ {0}]
    <3>1. ASSUME NEW m \in Node  PROVE next'[m] \in Nat \ {0}
      <4>1. next[m] \in Nat \ {0}  BY DEF TypeOK
      <4>2. next[m] + 1 \in Nat \ {0}  BY <4>1
      <4> HIDE DEF IInv, FreeSelf
      <4> QED  BY <4>1, <4>2, <1>9
    <3>2. next' = [m \in Node |-> next'[m]]  OBVIOUS
    <3> QED  BY <3>1, <3>2, Zenon
  <2>0. children \in [Node -> Seq(Node)] /\ slots \in [Node -> Nat] /\ <<>> \in Seq(Node)
    BY DEF TypeOK
  <2>2. children' \in [Node -> Seq(Node)] /\ slots' \in [Node -> Nat]
    <3> HIDE DEF IInv, FreeSelf
    <3> QED  BY <1>5, <2>0
  <2>3. held' \subseteq live' /\ lost' \subseteq live' /\ live' \subseteq Node  BY <1>5, <1>7 DEF TypeOK
  <2>4. stack' \in Seq(Node)  BY <1>4
  <2>5. capacity' \in [Node -> Nat] /\ parent' \in [Node -> Node \cup {None}]
        /\ logged' \in BOOLEAN /\ exited' \in BOOLEAN  BY <1>5 DEF TypeOK
  <2> QED  BY <2>1, <2>2, <2>3, <2>4, <2>5 DEF TypeOK
<1>11. BlockHoldsChildren'  BY <1>5, <1>6 DEF BlockHoldsChildren
<1>12. \A m \in live' : Entries(m)' \subseteq Entries(m)
  <2> SUFFICES ASSUME NEW m \in live'  PROVE next'[m] >= next[m] /\ next[m] \in Nat /\ next'[m] \in Nat
    BY <1>6
  <2> QED  BY <1>6, <1>9 DEF TypeOK
\* The entry of the freed node is the one its caller has just passed.
<1>13. \A m \in live' : \A i \in Entries(m)' : children[m][i] # t
  <2> SUFFICES ASSUME NEW m \in live', NEW i \in Entries(m)', children[m][i] = t  PROVE FALSE
    OBVIOUS
  <2>1. m \in live /\ i \in Entries(m)  BY <1>6, <1>12
  <2>2. CASE k = 1  BY <2>1, <2>2, <1>0, <1>2 DEF Roots, Root
  <2>3. CASE k > 1
    <3>1. PICK b : b = stack[k - 1]  OBVIOUS
    <3>2. b \in live /\ next[b] \in Entries(b) /\ children[b][next[b]] = t
      BY <3>1, <2>3, <1>0, <1>2 DEF StackDescends
    <3>3. m = b /\ i = next[b]  BY <2>1, <3>2 DEF OneEntry
    <3>4. next'[m] = next[m] + 1  BY <3>1, <3>3, <2>3, <1>6, <1>9
    <3>5. next[m] \in Nat  BY <1>6 DEF TypeOK
    <3> QED  BY <3>3, <3>4, <3>5
  <2> QED  BY <2>2, <2>3
<1>14. OneEntry'
  <2>1. ASSUME NEW p \in live', NEW q \in live', NEW i \in Entries(p)', NEW j \in Entries(q)',
               children'[p][i] = children'[q][j]
        PROVE  p = q /\ i = j
    <3>1. children[p][i] = children[q][j] /\ p \in live /\ q \in live  BY <2>1, <1>6
    <3>2. i \in Entries(p) /\ j \in Entries(q)  BY <1>12
    <3> QED  BY <3>1, <3>2 DEF OneEntry
  <2> HIDE DEF IInv, FreeSelf, Entries
  <2> QED  BY <2>1 DEF OneEntry
<1>15. EntryLinked'
  <2>1. ASSUME NEW p \in live', NEW i \in Entries(p)'
        PROVE  children'[p][i] \in live' /\ parent'[children'[p][i]] = p
    <3>1. children'[p][i] = children[p][i] /\ children[p][i] # t /\ p \in live  BY <1>6, <1>13
    <3>2. i \in Entries(p)  BY <1>12
    <3> QED  BY <3>1, <3>2, <1>5 DEF EntryLinked
  <2> HIDE DEF IInv, FreeSelf, Entries
  <2> QED  BY <2>1 DEF EntryLinked
<1>16. Roots'
  <2>1. ASSUME NEW n, Root(n)  PROVE Root(n)'
    <3> SUFFICES ASSUME NEW p \in live', NEW i \in Entries(p)'  PROVE children'[p][i] # n
      BY DEF Root
    <3> QED  BY <2>1, <1>6, <1>12 DEF Root
  <2>2. stack' # <<>> => k > 1 /\ stack'[1] = stack[1]  BY <1>0, <1>4
  <2>3. stack' # <<>> => /\ Root(stack[1])' /\ stack[1] \notin held \cup lost
    <3>1. Root(stack[1]) /\ stack[1] \notin held \cup lost  BY DEF Roots
    <3>2. PICK r : r = stack[1]  OBVIOUS
    <3>3. Root(r)'  BY <2>1, <3>1, <3>2
    <3>4. stack' # <<>> => r = stack'[1]  BY <2>2, <3>2
    <3> QED  BY <3>1, <3>3, <3>4, <3>2
  <2> QED  BY <2>1, <2>2, <2>3, <1>5 DEF Roots
<1>17. StackDescends'
  <2>1. \A i \in 1..(k - 1) : stack'[i] \in live'
    BY <1>0, <1>4, <1>5, <1>8 DEF StackDescends
  <2>2. ASSUME NEW i \in 1..(k - 2)
        PROVE  /\ next'[stack'[i]] \in Entries(stack[i])'
               /\ children'[stack'[i]][next'[stack'[i]]] = stack'[i + 1]
    <3>1. i \in 1..(k - 1) /\ i + 1 \in 1..(k - 1)  BY <1>0
    <3>2. PICK b : b = stack[i]  OBVIOUS
    <3>3. /\ stack'[i] = b /\ stack'[i + 1] = stack[i + 1] /\ b \in live'
      BY <3>1, <3>2, <1>4, <2>1
    <3>4. next[b] \in Entries(b) /\ children[b][next[b]] = stack[i + 1]
      BY <3>1, <3>2, <1>0 DEF StackDescends
    <3>5. b # stack[k - 1]
      <4>1. i \in 1..Len(stack) /\ k - 1 \in 1..Len(stack) /\ i # k - 1  BY <3>1, <1>0
      <4> QED  BY <4>1, <3>2 DEF FreesOnce
    <3>6. next'[b] = next[b]  BY <3>3, <3>5, <1>6, <1>9
    <3>7. children'[b] = children[b]  BY <3>3, <1>6
    <3>8. next'[b] \in Entries(b)' /\ children'[b][next'[b]] = stack'[i + 1]
      BY <3>3, <3>4, <3>6, <3>7
    <3>9. next'[stack'[i]] = next'[b] /\ children'[stack'[i]] = children'[b]  BY <3>3
    <3> HIDE DEF IInv, FreeSelf
    <3> QED  BY <3>8, <3>9
  <2>3. 1..Len(stack)' = 1..(k - 1) /\ 1..(Len(stack)' - 1) = 1..(k - 2)  BY <1>0, <1>4
  <2> HIDE DEF IInv, FreeSelf, Entries
  <2>4. \A i \in 1..(k - 2) : /\ next'[stack'[i]] \in Entries(stack[i])'
                             /\ children'[stack'[i]][next'[stack'[i]]] = stack'[i + 1]
    BY <2>2
  <2> QED  BY <2>1, <2>3, <2>4 DEF StackDescends
<1>18. FreesOnce'
  <2>1. \A i, j \in 1..(k - 1) : stack[i] = stack[j] => i = j  BY <1>0 DEF FreesOnce
  <2>2. \A i \in 1..(k - 1) : stack'[i] \in live'
    BY <1>0, <1>4, <1>5, <1>8 DEF StackDescends
  <2> HIDE DEF IInv, FreeSelf
  <2> QED  BY <2>1, <2>2, <1>0, <1>4 DEF FreesOnce
<1>19. IndexRests'
  <2> SUFFICES ASSUME NEW m \in Node, ~OnStack(m)'  PROVE next'[m] = 1
    BY DEF IndexRests
  <2>1. CASE m = t  BY <2>1, <1>9
  <2>2. CASE m # t
    <3>1. \A i \in 1..(k - 1) : stack[i] # m  BY <1>0, <1>4 DEF OnStack
    <3>2. ~OnStack(m)  BY <3>1, <2>2, <1>0, <1>2 DEF OnStack
    <3>3. k > 1 => m # stack[k - 1]  BY <3>1, <1>0
    <3> QED  BY <3>2, <3>3, <2>2, <1>9 DEF IndexRests
  <2> QED  BY <2>1, <2>2
<1>20. Accounted'
  <2>1. ASSUME NEW m \in live', m \notin held \cup lost, ~(stack' # <<>> /\ m = stack'[1])
        PROVE  \E p \in live' : \E i \in Entries(p)' : children'[p][i] = m
    <3>1. ~(stack # <<>> /\ m = stack[1])
      <4>1. k = 1 => stack[1] = t  BY <1>2
      <4>2. k > 1 => stack' # <<>> /\ stack'[1] = stack[1]  BY <1>0, <1>4
      <4> QED  BY <4>1, <4>2, <2>1, <1>0, <1>6
    <3>2. PICK p \in live : \E i \in Entries(p) : children[p][i] = m
      BY <3>1, <2>1, <1>6 DEF Accounted
    <3>3. PICK i \in Entries(p) : children[p][i] = m  BY <3>2
    <3>4. p # t
      <4> SUFFICES ASSUME p = t  PROVE FALSE  OBVIOUS
      <4>1. i \in next[t]..Len(children[t])  BY <3>3
      <4>2. next[t] \in Nat /\ Len(children[t]) \in Nat  BY <1>2 DEF TypeOK
      <4> HIDE DEF IInv, FreeSelf
      <4> QED  BY <4>1, <4>2, <1>2
    <3>5. p \in live' /\ children'[p] = children[p] /\ p \in Node  BY <3>4, <1>5, <1>6
    <3>6. i \in Entries(p)'
      <4>1. CASE k > 1 /\ p = stack[k - 1]
        <5>1. k - 1 \in 1..(Len(stack) - 1) /\ (k - 1) + 1 = k  BY <1>0, <4>1
        <5>2. children[p][next[p]] = t  BY <5>1, <4>1, <1>2 DEF StackDescends
        <5>3. i # next[p]  BY <5>2, <3>3, <1>6, <2>1
        <5>4. next'[p] = next[p] + 1 /\ next[p] \in Nat  BY <4>1, <3>4, <3>5, <1>9 DEF TypeOK
        <5> QED  BY <5>3, <5>4, <3>5
      <4>2. CASE ~(k > 1 /\ p = stack[k - 1])
        <5>1. next'[p] = next[p]  BY <4>2, <3>4, <3>5, <1>9
        <5> QED  BY <5>1, <3>5
      <4> QED  BY <4>1, <4>2
    <3> QED  BY <3>3, <3>5, <3>6
  <2>2. lost' # {} => logged'  BY <1>5 DEF Accounted
  <2> HIDE DEF IInv, FreeSelf, Entries
  <2> QED  BY <2>1, <2>2, <1>5 DEF Accounted
<1> QED  BY <1>10, <1>11, <1>14, <1>15, <1>16, <1>17, <1>18, <1>19, <1>20

-----------------------------------------------------------------------------

LEMMA StutterStep == ASSUME IInv, UNCHANGED vars  PROVE IInv'
<1> USE DEF vars
<1>1. TypeOK' /\ BlockHoldsChildren' /\ OneEntry' /\ EntryLinked'
  BY DEF IInv, TypeOK, BlockHoldsChildren, OneEntry, EntryLinked, Entries
<1>2. Roots' /\ StackDescends' /\ FreesOnce' /\ IndexRests' /\ Accounted'
  BY DEF IInv, Roots, Root, StackDescends, FreesOnce, IndexRests, OnStack, Accounted, Entries
<1> QED  BY <1>1, <1>2 DEF IInv

\* The invariant is inductive.
THEOREM Invariance == Spec => []IInv
<1>1. Init => IInv  BY InitIInv
<1>2. IInv /\ [Next]_vars => IInv'
  <2> SUFFICES ASSUME IInv, [Next]_vars  PROVE IInv'  OBVIOUS
  <2>1. CASE \E n \in Node : CreateNode(n)  BY <2>1, CreateNodeStep
  <2>2. CASE \E n \in Node : TakeOut(n)  BY <2>2, TakeOutStep
  <2>3. CASE \E n \in Node : FreeNode(n)  BY <2>3, FreeNodeStep
  <2>4. CASE \E p, c \in Node : AddChild(p, c)  BY <2>4, AddChildStep
  <2>5. CASE \E p, c \in Node : AddChildFails(p, c)  BY <2>5, AddChildFailsStep
  <2>6. CASE CreateNodeFails \/ AddNull  BY <2>6, IdleStep
  <2>7. CASE FreeChild  BY <2>7, FreeChildStep
  <2>8. CASE FreeSelf  BY <2>8, FreeSelfStep
  <2>9. CASE UNCHANGED vars  BY <2>9, StutterStep
  <2> QED  BY <2>1, <2>2, <2>3, <2>4, <2>5, <2>6, <2>7, <2>8, <2>9 DEF Next
<1> QED  BY <1>1, <1>2, PTL DEF Spec

\* Every variable keeps its type; what is held or lost is allocated.
THEOREM TypeCorrect == Spec => []TypeOK
<1>1. IInv => TypeOK  BY DEF IInv
<1> QED  BY <1>1, Invariance, PTL

\* add_child never writes past the block it has, whichever allocations failed
\* before it.
THEOREM NoOverrun == Spec => []BlockHoldsChildren
<1>1. IInv => BlockHoldsChildren  BY DEF IInv
<1> QED  BY <1>1, Invariance, PTL

\* The children arrays and the parent fields describe one forest, whose roots
\* are what the parser holds.
THEOREM TreeIsConsistent == Spec => []LinksAgree
<1>1. IInv => LinksAgree
  BY DEF IInv, OneEntry, EntryLinked, Roots, Root, LinksAgree, Owned, Owns, Entries
<1> QED  BY <1>1, Invariance, PTL

\* free_node frees every node once and touches none it has freed.
THEOREM NoDoubleFree == Spec => []FreesOnce
<1>1. IInv => FreesOnce  BY DEF IInv
<1> QED  BY <1>1, Invariance, PTL

\* A node is leaked only by an allocation that failed and was reported.
THEOREM LeaksAreReported == Spec => []NothingLost
<1>1. IInv => NothingLost
  BY DEF IInv, Accounted, NothingLost, Owned, Owns, Entries
<1> QED  BY <1>1, Invariance, PTL

=============================================================================
