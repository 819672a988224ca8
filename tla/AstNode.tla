------------------------------- MODULE AstNode -------------------------------
(***************************************************************************)
(* The nodes of the syntax tree, src/core/astnode.c, on a heap where every *)
(* allocation can fail and a freed address is used again.                  *)
(*                                                                         *)
(* free_node is a traversal with its call stack: `stack` holds the nodes   *)
(* whose activation is running, next[n] is n's child_idx, counted from 1.  *)
(* The callers are the parsing functions: they hold a node until it is     *)
(* attached to another node they hold, or freed.                           *)
(***************************************************************************)
EXTENDS Integers, Sequences, FiniteSets

CONSTANTS
  Node,             \* the addresses of nodes
  None,             \* NULL
  InitialCapacity,  \* INITIAL_CHILDREN_CAPACITY
  Growth            \* CHILDREN_GROWTH_FACTOR

ASSUME AstNodeAssumption ==
  /\ None \notin Node
  /\ InitialCapacity \in Nat \ {0}
  /\ Growth \in Nat /\ Growth > 1

VARIABLES
  live,      \* the allocated nodes
  held,      \* those a variable of the parser points to
  lost,      \* history: those add_child could not attach
  children,  \* the children array up to num_children
  slots,     \* the length of the allocated block, 0 for a null children
  capacity,  \* the capacity field
  parent,    \* the parent field
  stack,     \* the running activations of free_node, outermost first
  next,      \* the index of their loops
  logged,    \* an error has been logged
  exited     \* create_node has ended the program

vars == <<live, held, lost, children, slots, capacity, parent, stack, next,
          logged, exited>>

Init ==
  /\ live = {} /\ held = {} /\ lost = {}
  /\ children = [n \in Node |-> <<>>]
  /\ slots = [n \in Node |-> 0] /\ capacity = [n \in Node |-> 0]
  /\ parent = [n \in Node |-> None]
  /\ stack = <<>> /\ next = [n \in Node |-> 1]
  /\ logged = FALSE /\ exited = FALSE

\* By the entries free_node has not yet reached: outside of it, by all.
Owns(p, c)  == \E i \in next[p]..Len(children[p]) : children[p][i] = c
Owned(c)    == \E p \in live : Owns(p, c)

\* The parser runs: no free_node does.
Running == stack = <<>> /\ ~exited
Top == stack[Len(stack)]

\* The variables of the parser let go of a node.
\* Fault: one keeps pointing to it.
KeepHolding(n) == UNCHANGED held
LetGo(n)       == held' = held \ {n}

-----------------------------------------------------------------------------

\* create_node; malloc returns an address that is not in use.
CreateNode(n) ==
  /\ Running /\ n \notin live
  /\ live' = live \cup {n} /\ held' = held \cup {n}
  /\ parent' = [parent EXCEPT ![n] = None]
  /\ children' = [children EXCEPT ![n] = <<>>]
  /\ slots' = [slots EXCEPT ![n] = 0]
  /\ capacity' = [capacity EXCEPT ![n] = 0]
  /\ UNCHANGED <<lost, stack, next, logged, exited>>

CreateNodeFails ==
  /\ Running
  /\ exited' = TRUE
  /\ UNCHANGED <<live, held, lost, children, slots, capacity, parent, stack,
                 next, logged>>

\* add_child(parent, NULL).
AddNull ==
  /\ Running /\ logged' = TRUE
  /\ UNCHANGED <<live, held, lost, children, slots, capacity, parent, stack,
                 next, exited>>

\* What a caller passes: two nodes its variables hold.
MayAttach(p, c) == Running /\ p \in held /\ c \in held /\ p # c

\* The block and the capacity when there is room for one more child:
\* the first malloc, the realloc, or what is there.
NoBlock(p) == slots[p] = 0
IsFull(p) == Len(children[p]) >= capacity[p]

Room(p) ==
  IF NoBlock(p) THEN InitialCapacity
  ELSE IF IsFull(p) THEN capacity[p] * Growth ELSE capacity[p]
Block(p) == IF NoBlock(p) \/ IsFull(p) THEN Room(p) ELSE slots[p]

\* Fault: the child keeps the parent it had.
KeepParent(p, c) == UNCHANGED parent
SetParent(p, c)  == parent' = [parent EXCEPT ![c] = p]

AddChild(p, c) ==
  /\ MayAttach(p, c)
  /\ slots' = [slots EXCEPT ![p] = Block(p)]
  /\ capacity' = [capacity EXCEPT ![p] = Room(p)]
  /\ children' = [children EXCEPT ![p] = Append(@, c)]
  /\ SetParent(p, c) /\ LetGo(c)
  /\ UNCHANGED <<live, lost, stack, next, logged, exited>>

\* The allocation failed.  The first malloc has set the capacity before it,
\* realloc has not; the child stays behind, and an error is logged.
\* Fault: the new capacity is committed before the block is there.
CapacityCommitted(p) ==
  IF NoBlock(p) THEN InitialCapacity ELSE capacity[p] * Growth
CapacityAfterFailure(p) == IF NoBlock(p) THEN InitialCapacity ELSE capacity[p]

\* Fault: the failure is not reported.
LogNothing == UNCHANGED logged
LogError   == logged' = TRUE

AddChildFails(p, c) ==
  /\ MayAttach(p, c)
  /\ NoBlock(p) \/ IsFull(p)
  /\ capacity' = [capacity EXCEPT ![p] = CapacityAfterFailure(p)]
  /\ lost' = lost \cup {c} /\ LetGo(c)
  /\ LogError
  /\ UNCHANGED <<live, children, slots, parent, stack, next, exited>>

\* parse_for_init takes the child out of the statement around it
\* and frees the statement; the child's parent field is left as it is.
TakeOut(s) ==
  /\ Running /\ s \in held /\ Len(children[s]) = 1
  /\ held' = (held \ {s}) \cup {children[s][1]}
  /\ live' = live \ {s}
  /\ children' = [children EXCEPT ![s] = <<>>]
  /\ slots' = [slots EXCEPT ![s] = 0]
  /\ UNCHANGED <<lost, capacity, parent, stack, next, logged, exited>>

-----------------------------------------------------------------------------
(* free_node. *)

FreeNode(n) ==
  /\ Running /\ n \in held
  /\ stack' = <<n>> /\ LetGo(n)
  /\ UNCHANGED <<live, lost, children, slots, capacity, parent, next, logged,
                 exited>>

HasMore(n) == next[n] <= Len(children[n])

FreeChild ==
  /\ stack # <<>> /\ HasMore(Top)
  /\ stack' = Append(stack, children[Top][next[Top]])
  /\ UNCHANGED <<live, held, lost, children, slots, capacity, parent, next,
                 logged, exited>>

\* The three calls of free, the return, and the caller's child_idx++.
\* Fault: the caller's index stays where it is.
Repeat(n) == next[n]
Resume(n) == next[n] + 1

Below == SubSeq(stack, 1, Len(stack) - 1)
FreeSelf ==
  /\ stack # <<>> /\ ~HasMore(Top)
  /\ live' = live \ {Top}
  /\ slots' = [slots EXCEPT ![Top] = 0]
  /\ children' = [children EXCEPT ![Top] = <<>>]
  /\ stack' = Below
  /\ next' = [n \in Node |->
                IF n = Top THEN 1
                ELSE IF Below # <<>> /\ n = Below[Len(Below)] THEN Resume(n)
                ELSE next[n]]
  /\ UNCHANGED <<held, lost, capacity, parent, logged, exited>>

Next ==
  \/ \E n \in Node : CreateNode(n) \/ TakeOut(n) \/ FreeNode(n)
  \/ \E p, c \in Node : AddChild(p, c) \/ AddChildFails(p, c)
  \/ CreateNodeFails \/ AddNull \/ FreeChild \/ FreeSelf

Spec == Init /\ [][Next]_vars

\* free_node runs on once it is called.
FairSpec == Spec /\ WF_vars(FreeChild \/ FreeSelf)

-----------------------------------------------------------------------------
(* Properties. *)

\* The type invariant.
TypeOK ==
  /\ live \subseteq Node /\ held \subseteq live /\ lost \subseteq live
  /\ children \in [Node -> Seq(Node)]
  /\ slots \in [Node -> Nat] /\ capacity \in [Node -> Nat]
  /\ parent \in [Node -> Node \cup {None}]
  /\ stack \in Seq(Node) /\ next \in [Node -> Nat \ {0}]
  /\ logged \in BOOLEAN /\ exited \in BOOLEAN

\* No child is written past the block: whatever allocation failed before, a
\* node's children fit its block, and a node that has a block does not claim
\* more room than the block gives (the fault add_child's comment describes).
BlockHoldsChildren ==
  \A n \in live : /\ Len(children[n]) <= slots[n]
                  /\ slots[n] > 0 => capacity[n] = slots[n]

\* The arrays and the parent fields are one tree: an entry is a live node,
\* it is in one array only and once, its parent field is that array's node,
\* which code generation follows to the function of a statement, and nothing
\* the parser holds, and may attach or free, has a parent already.
LinksAgree ==
  /\ \A n \in held \cup lost : ~Owned(n)
  /\ \A p, q \in live : \A i \in next[p]..Len(children[p]) :
     \A j \in next[q]..Len(children[q]) :
       children[p][i] = children[q][j] => p = q /\ i = j
  /\ \A p \in live : \A i \in next[p]..Len(children[p]) :
       children[p][i] \in live /\ parent[children[p][i]] = p

\* free_node never touches a freed node: its activations run on live nodes,
\* no two on the same one.
FreesOnce ==
  \A i \in 1..Len(stack) :
    /\ stack[i] \in live
    /\ \A j \in 1..Len(stack) : stack[i] = stack[j] => i = j

\* Without a logged error no node is leaked: each is held by the parser, is a
\* child of a node, or is the one being freed.
NothingLost ==
  ~logged => \A n \in live : n \in held \/ Owned(n) \/ (stack # <<>> /\ n = stack[1])

\* Every free_node returns.
FreeReturns == stack # <<>> ~> stack = <<>>

=============================================================================
