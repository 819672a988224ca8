---------------------------- MODULE ParserProofs ----------------------------
(***************************************************************************)
(* Proofs about Parser: first its counters, then its nodes.                *)
(*                                                                         *)
(* One lemma per control operator (Goto, Call, Return, ...) shows that it  *)
(* keeps the counters equal to what the call stack holds; an action is     *)
(* then a case split over the operators it uses.                           *)
(*                                                                         *)
(* NodeInv, in the second part, says for every place of every parser how   *)
(* many subtrees its local variables own there (Owned), which parser may   *)
(* have called which and from where (WaitsFor), and what an activation     *)
(* knows of a diagnostic (Settled).  From this follows what the parser     *)
(* promises its caller and its own call stack: diagnostics are kept and    *)
(* end the parsing of statements, parse_program implements the safety part *)
(* of ParseContract, and the depth guard bounds the C call stack but for   *)
(* unary operators.                                                        *)
(***************************************************************************)
EXTENDS Parser, TLAPS, FiniteSetTheorems, SequenceTheorems

-----------------------------------------------------------------------------
(* The call stack as a sequence. *)

\* Replacing the innermost frame leaves the frames below it alone.
LEMMA ReplaceTop ==
  ASSUME NEW s \in Seq(Frame), s # <<>>, NEW f \in Frame
  PROVE  LET t == [s EXCEPT ![Len(s)] = f] IN
         /\ t \in Seq(Frame) /\ Len(t) = Len(s) /\ t # <<>>
         /\ DOMAIN t = DOMAIN s /\ Len(s) \in DOMAIN s
         /\ t[Len(s)] = f
         /\ \A i \in DOMAIN s : i # Len(s) => t[i] = s[i]
OBVIOUS

\* Removing it leaves them alone as well.
LEMMA RemoveTop ==
  ASSUME NEW s \in Seq(Frame), s # <<>>
  PROVE  LET t == SubSeq(s, 1, Len(s) - 1) IN
         /\ t \in Seq(Frame) /\ Len(t) = Len(s) - 1
         /\ DOMAIN t = DOMAIN s \ {Len(s)}
         /\ \A i \in DOMAIN t : t[i] = s[i]
<1>1. Len(s) \in Nat /\ Len(s) > 0 /\ DOMAIN s = 1..Len(s)
  OBVIOUS
<1>2. \A i \in 1..(Len(s) - 1) : s[i] \in Frame
  BY <1>1
<1>3. /\ SubSeq(s, 1, Len(s) - 1) \in Seq(Frame)
      /\ Len(SubSeq(s, 1, Len(s) - 1)) = Len(s) - 1
      /\ \A i \in 1..(Len(s) - 1) : SubSeq(s, 1, Len(s) - 1)[i] = s[i]
  <2> DEFINE t == SubSeq(s, 1, Len(s) - 1)
  <2>1. 1 \in Int /\ Len(s) - 1 \in Int
    BY <1>1
  <2>2. /\ t \in Seq(Frame)
        /\ Len(t) = IF 1 <= Len(s) - 1 THEN Len(s) - 1 - 1 + 1 ELSE 0
        /\ \A i \in 1..(Len(s) - 1 - 1 + 1) : t[i] = s[1 + i - 1]
    BY <1>2, <2>1, SubSeqProperties
  <2>3. QED BY <1>1, <2>2
<1>4. QED BY <1>1, <1>3

\* So does putting one on top.
LEMMA AddTop ==
  ASSUME NEW s \in Seq(Frame), NEW f \in Frame
  PROVE  /\ Append(s, f) \in Seq(Frame)
         /\ Len(s) \in Nat /\ DOMAIN s = 1..Len(s)
         /\ DOMAIN Append(s, f) = 1..(Len(s) + 1)
         /\ Append(s, f)[Len(s) + 1] = f
         /\ \A i \in 1..Len(s) : Append(s, f)[i] = s[i]
BY AppendProperties

\* The frames of a stack that satisfy a condition are finitely many.
LEMMA FramesFinite ==
  ASSUME NEW s \in Seq(Frame), NEW T \in SUBSET (DOMAIN s)
  PROVE  IsFiniteSet(T) /\ Cardinality(T) \in Nat
<1>1. DOMAIN s = 1..Len(s) /\ Len(s) \in Nat
  OBVIOUS
<1>2. IsFiniteSet(1..Len(s))
  BY <1>1, FS_Interval
<1>3. IsFiniteSet(T)
  BY <1>1, <1>2, FS_Subset
<1>4. QED BY <1>3, FS_CardinalityType

-----------------------------------------------------------------------------
(* The control operators preserve the counters. *)

ControlTypes ==
  /\ stack \in Seq(Frame)
  /\ ret \in Result
  /\ depth \in Int /\ loopDepth \in Int /\ lost \in Int

ControlInv ==
  /\ ControlTypes
  /\ DepthCountsActivations /\ depth <= MaxDepth
  /\ LoopDepthCountsOpenLoops
  /\ JumpInsideLoop

\* The innermost frame f of the next state is of the same kind.
LEMMA TopUpdated ==
  ASSUME ControlTypes, ~Done, NEW f \in Frame, Becomes(f), f.kind = Top.kind
  PROVE  /\ stack' \in Seq(Frame) /\ Len(stack') = Len(stack)
         /\ DOMAIN stack' = DOMAIN stack /\ Len(stack) \in DOMAIN stack
         /\ stack'[Len(stack)] = f
         /\ \A i \in DOMAIN stack : i # Len(stack) => stack'[i] = stack[i]
         /\ Activations' = Activations
<1>1. stack \in Seq(Frame) /\ stack # <<>>
  BY DEF ControlTypes, Done
<1>2. stack' = [stack EXCEPT ![Len(stack)] = f]
  BY DEF Becomes
<1>3. /\ stack' \in Seq(Frame) /\ Len(stack') = Len(stack)
      /\ DOMAIN stack' = DOMAIN stack /\ Len(stack) \in DOMAIN stack
      /\ stack'[Len(stack)] = f
      /\ \A i \in DOMAIN stack : i # Len(stack) => stack'[i] = stack[i]
  BY <1>1, <1>2, ReplaceTop
<1>4. \A i \in DOMAIN stack : stack'[i].kind = stack[i].kind
  BY <1>3 DEF Top
<1>5. Activations' = Activations
  BY <1>3, <1>4 DEF Activations
<1>6. QED BY <1>3, <1>5

\* Moving on inside a frame, neither into nor out of a loop body.
LEMMA MoveTop ==
  ASSUME ControlInv, ~Done, NEW f \in Frame, Becomes(f), f.kind = Top.kind,
         OpenLoop(f) <=> OpenLoop(Top), f.pc # "jumpEnd",
         depth' = depth, loopDepth' = loopDepth, ret' \in Result, lost' \in Int
  PROVE  ControlInv'
<1>1. ControlTypes
  BY DEF ControlInv
<1>2. /\ stack' \in Seq(Frame) /\ Len(stack') = Len(stack)
      /\ DOMAIN stack' = DOMAIN stack /\ Len(stack) \in DOMAIN stack
      /\ stack'[Len(stack)] = f
      /\ \A i \in DOMAIN stack : i # Len(stack) => stack'[i] = stack[i]
      /\ Activations' = Activations
  BY <1>1, TopUpdated
<1>3. OpenLoops' = OpenLoops
  BY <1>2 DEF OpenLoops, Top
<1>4. ControlTypes'
  BY <1>1, <1>2 DEF ControlTypes
<1>5. DepthCountsActivations' /\ depth' <= MaxDepth
  BY <1>2 DEF ControlInv, DepthCountsActivations
<1>6. LoopDepthCountsOpenLoops'
  BY <1>3 DEF ControlInv, LoopDepthCountsOpenLoops
<1>7. JumpInsideLoop'
  BY <1>2, <1>3 DEF ControlInv, JumpInsideLoop
<1>8. QED BY <1>4, <1>5, <1>6, <1>7 DEF ControlInv

\* The innermost frame of a running parser is a frame.
LEMMA TopIsFrame ==
  ASSUME ControlInv, ~Done
  PROVE  Top \in Frame /\ Len(stack) \in Nat \ {0} /\ Len(stack) \in DOMAIN stack
BY DEF ControlInv, ControlTypes, Done, Top

LEMMA GotoWithKeepsInv ==
  ASSUME ControlInv, ~Done, NEW pc \in Place, NEW n \in Int, NEW d \in Int,
         Top.pc # "body", pc # "body", pc # "jumpEnd", GotoWith(pc, n, d)
  PROVE  ControlInv'
<1>0. PICK own \in Int : own = Top.own + d
  BY TopIsFrame DEF Frame
<1> DEFINE f == [Top EXCEPT !.pc = pc, !.n = n, !.own = own]
<1>1. Top \in Frame
  BY TopIsFrame
<1>2. f \in Frame /\ f.kind = Top.kind /\ f.pc = pc
  BY <1>1 DEF Frame
<1>3. (OpenLoop(f) <=> OpenLoop(Top)) /\ f.pc # "jumpEnd"
  BY <1>2 DEF OpenLoop
<1>4. /\ Becomes(f) /\ ret' = "none"
      /\ depth' = depth /\ loopDepth' = loopDepth /\ lost' = lost
  BY <1>0 DEF GotoWith
<1>5. ret' \in Result /\ lost' \in Int
  BY <1>4 DEF Result, ControlInv, ControlTypes
<1> HIDE DEF f
<1>6. QED BY <1>2, <1>3, <1>4, <1>5, MoveTop

LEMMA GotoKeepsInv ==
  ASSUME ControlInv, ~Done, NEW pc \in Place, NEW d \in Int,
         Top.pc # "body", pc # "body", pc # "jumpEnd", Goto(pc, d)
  PROVE  ControlInv'
<1>0. PICK own \in Int : own = Top.own + d
  BY TopIsFrame DEF Frame
<1> DEFINE f == [Top EXCEPT !.pc = pc, !.own = own]
<1>1. Top \in Frame
  BY TopIsFrame
<1>2. f \in Frame /\ f.kind = Top.kind /\ f.pc = pc
  BY <1>1 DEF Frame
<1>3. (OpenLoop(f) <=> OpenLoop(Top)) /\ f.pc # "jumpEnd"
  BY <1>2 DEF OpenLoop
<1>4. /\ Becomes(f) /\ ret' = "none"
      /\ depth' = depth /\ loopDepth' = loopDepth /\ lost' = lost
  BY <1>0 DEF Goto
<1>5. ret' \in Result /\ lost' \in Int
  BY <1>4 DEF Result, ControlInv, ControlTypes
<1> HIDE DEF f
<1>6. QED BY <1>2, <1>3, <1>4, <1>5, MoveTop

LEMMA GotoLeakingKeepsInv ==
  ASSUME ControlInv, ~Done, NEW pc \in Place,
         Top.pc # "body", pc # "body", pc # "jumpEnd", GotoLeaking(pc)
  PROVE  ControlInv'
<1> DEFINE f == [Top EXCEPT !.pc = pc]
<1>1. Top \in Frame
  BY TopIsFrame
<1>2. f \in Frame /\ f.kind = Top.kind /\ f.pc = pc
  BY <1>1 DEF Frame
<1>3. (OpenLoop(f) <=> OpenLoop(Top)) /\ f.pc # "jumpEnd"
  BY <1>2 DEF OpenLoop
<1>4. /\ Becomes(f) /\ ret' = "none"
      /\ depth' = depth /\ loopDepth' = loopDepth /\ lost' = lost + 1
  BY DEF GotoLeaking
<1>5. ret' \in Result /\ lost' \in Int
  BY <1>4 DEF Result, ControlInv, ControlTypes
<1> HIDE DEF f
<1>6. QED BY <1>2, <1>3, <1>4, <1>5, MoveTop

LEMMA BeginKeepsInv ==
  ASSUME ControlInv, ~Done, NEW c \in Construct, NEW pc \in Place,
         Top.pc # "body", pc # "body", pc # "jumpEnd", Begin(c, pc)
  PROVE  ControlInv'
<1> DEFINE f == [Top EXCEPT !.pc = pc, !.c = c]
<1>1. Top \in Frame
  BY TopIsFrame
<1>2. f \in Frame /\ f.kind = Top.kind /\ f.pc = pc
  BY <1>1 DEF Frame
<1>3. (OpenLoop(f) <=> OpenLoop(Top)) /\ f.pc # "jumpEnd"
  BY <1>2 DEF OpenLoop
<1>4. /\ Becomes(f) /\ ret' = "none"
      /\ depth' = depth /\ loopDepth' = loopDepth /\ lost' = lost
  BY DEF Begin
<1>5. ret' \in Result /\ lost' \in Int
  BY <1>4 DEF Result, ControlInv, ControlTypes
<1> HIDE DEF f
<1>6. QED BY <1>2, <1>3, <1>4, <1>5, MoveTop

\* parse_break_statement goes on only with s_loop_depth > 0, that is, with an
\* open loop on the stack, and that loop is not the statement itself.
LEMMA JumpKeepsInv ==
  ASSUME ControlInv, At("stmt", "entry"), loopDepth > 0, Goto("jumpEnd", 0)
  PROVE  ControlInv'
<1>0. PICK own \in Int : own = Top.own + 0
  BY TopIsFrame DEF Frame, At
<1> DEFINE f == [Top EXCEPT !.pc = "jumpEnd", !.own = own]
<1>1. ~Done /\ Top \in Frame /\ Top.pc = "entry" /\ ControlTypes
  BY TopIsFrame DEF At, ControlInv
<1>2. f \in Frame /\ f.kind = Top.kind /\ f.pc = "jumpEnd"
  <2>1. "jumpEnd" \in Place
    BY DEF Place, StatementPlace
  <2>2. QED BY <1>1, <2>1 DEF Frame
<1>3. ~OpenLoop(f) /\ ~OpenLoop(Top)
  BY <1>1, <1>2 DEF OpenLoop
<1>4. /\ Becomes(f) /\ ret' = "none"
      /\ depth' = depth /\ loopDepth' = loopDepth /\ lost' = lost
  BY <1>0 DEF Goto
<1> HIDE DEF f
<1>5. /\ stack' \in Seq(Frame) /\ Len(stack') = Len(stack)
      /\ DOMAIN stack' = DOMAIN stack /\ Len(stack) \in DOMAIN stack
      /\ stack'[Len(stack)] = f
      /\ \A i \in DOMAIN stack : i # Len(stack) => stack'[i] = stack[i]
      /\ Activations' = Activations
  BY <1>1, <1>2, <1>4, TopUpdated
<1>6. OpenLoops' = OpenLoops
  BY <1>3, <1>5 DEF OpenLoops, Top
<1>7. \E j \in OpenLoops : j < Len(stack)
  <2>1. OpenLoops # {}
    <3>1. loopDepth = Cardinality(OpenLoops)
      BY DEF ControlInv, LoopDepthCountsOpenLoops
    <3>2. OpenLoops = {} => loopDepth = 0
      BY <3>1, FS_EmptySet
    <3>3. QED BY <3>2
  <2>2. Len(stack) \notin OpenLoops
    BY <1>3 DEF OpenLoops, Top
  <2>3. \A j \in OpenLoops : j \in 1..Len(stack)
    BY <1>1 DEF OpenLoops, ControlTypes
  <2>4. Len(stack) \in Nat
    BY <1>1 DEF ControlTypes
  <2>5. QED BY <2>1, <2>2, <2>3, <2>4
<1>8. JumpInsideLoop'
  BY <1>5, <1>6, <1>7 DEF ControlInv, JumpInsideLoop
<1>9. ControlTypes'
  BY <1>1, <1>4, <1>5 DEF ControlTypes, Result
<1>10. QED
  BY <1>4, <1>5, <1>6, <1>8, <1>9
     DEF ControlInv, DepthCountsActivations, LoopDepthCountsOpenLoops

\* Entering the braces of a loop adds it to the open loops.
LEMMA OpenBodyKeepsInv ==
  ASSUME ControlInv, ~Done, NEW own \in Int,
         Top.kind = "stmt", Top.pc # "body", OpenBody(own)
  PROVE  ControlInv'
<1> DEFINE f == [Top EXCEPT !.pc = "body", !.own = own]
<1>1. Top \in Frame /\ ControlTypes
  BY TopIsFrame DEF ControlInv
<1>2. f \in Frame /\ f.kind = Top.kind /\ f.pc = "body" /\ f.c = Top.c
  <2>1. "body" \in Place
    BY DEF Place, StatementPlace
  <2>2. QED BY <1>1, <2>1 DEF Frame
<1>3. (OpenLoop(f) <=> Top.c \in Loops) /\ ~OpenLoop(Top)
  BY <1>2 DEF OpenLoop
<1>4. /\ Becomes(f) /\ ret' = "none" /\ depth' = depth /\ lost' = lost
      /\ loopDepth' = loopDepth + IF Top.c \in Loops THEN 1 ELSE 0
  BY DEF OpenBody
<1> HIDE DEF f
<1>5. /\ stack' \in Seq(Frame) /\ Len(stack') = Len(stack)
      /\ DOMAIN stack' = DOMAIN stack /\ Len(stack) \in DOMAIN stack
      /\ stack'[Len(stack)] = f
      /\ \A i \in DOMAIN stack : i # Len(stack) => stack'[i] = stack[i]
      /\ Activations' = Activations
  BY <1>1, <1>2, <1>4, TopUpdated
<1>6. /\ Top.c \in Loops => OpenLoops' = OpenLoops \cup {Len(stack)}
      /\ Top.c \notin Loops => OpenLoops' = OpenLoops
      /\ Len(stack) \notin OpenLoops
      /\ OpenLoops \in SUBSET DOMAIN stack
  BY <1>3, <1>5 DEF OpenLoops, Top
<1>7. IsFiniteSet(OpenLoops) /\ Cardinality(OpenLoops) \in Nat
  BY <1>1, <1>6, FramesFinite DEF ControlTypes
<1>8. LoopDepthCountsOpenLoops'
  <2>1. Cardinality(OpenLoops \cup {Len(stack)}) = Cardinality(OpenLoops) + 1
    BY <1>6, <1>7, FS_AddElement
  <2>2. loopDepth = Cardinality(OpenLoops)
    BY DEF ControlInv, LoopDepthCountsOpenLoops
  <2>3. CASE Top.c \in Loops
    BY <1>4, <1>6, <1>7, <2>1, <2>2, <2>3 DEF LoopDepthCountsOpenLoops
  <2>4. CASE Top.c \notin Loops
    BY <1>4, <1>6, <1>7, <2>2, <2>4 DEF LoopDepthCountsOpenLoops
  <2>5. QED BY <2>3, <2>4
<1>9. JumpInsideLoop'
  BY <1>2, <1>5, <1>6 DEF ControlInv, JumpInsideLoop
<1>10. ControlTypes'
  <2>1. loopDepth' \in Int
    BY <1>1, <1>4 DEF ControlTypes
  <2>2. QED BY <1>1, <1>4, <1>5, <2>1 DEF ControlTypes, Result
<1>11. QED
  BY <1>4, <1>5, <1>8, <1>9, <1>10 DEF ControlInv, DepthCountsActivations

\* Leaving them removes it: the frame is then at its closing brace.
LEMMA LeaveBodyKeepsInv ==
  ASSUME ControlInv, At("stmt", "body"), LeaveBody
  PROVE  ControlInv'
<1> DEFINE f == [Top EXCEPT !.pc = "close"]
<1>1. ~Done /\ Top \in Frame /\ Top.pc = "body" /\ Top.kind = "stmt" /\ ControlTypes
  BY TopIsFrame DEF At, ControlInv
<1>2. f \in Frame /\ f.kind = Top.kind /\ f.pc = "close"
  <2>1. "close" \in Place
    BY DEF Place, StatementPlace
  <2>2. QED BY <1>1, <2>1 DEF Frame
<1>3. ~OpenLoop(f) /\ (OpenLoop(Top) <=> Top.c \in Loops)
  BY <1>1, <1>2 DEF OpenLoop
<1>4. /\ Becomes(f) /\ ret' = "none" /\ depth' = depth /\ lost' = lost
      /\ loopDepth' = loopDepth - IF Top.c \in Loops THEN 1 ELSE 0
  BY DEF LeaveBody
<1> HIDE DEF f
<1>5. /\ stack' \in Seq(Frame) /\ Len(stack') = Len(stack)
      /\ DOMAIN stack' = DOMAIN stack /\ Len(stack) \in DOMAIN stack
      /\ stack'[Len(stack)] = f
      /\ \A i \in DOMAIN stack : i # Len(stack) => stack'[i] = stack[i]
      /\ Activations' = Activations
  BY <1>1, <1>2, <1>4, TopUpdated
<1>6. /\ Top.c \in Loops => Len(stack) \in OpenLoops
      /\ Top.c \notin Loops => Len(stack) \notin OpenLoops
      /\ OpenLoops' = OpenLoops \ {Len(stack)}
      /\ OpenLoops \in SUBSET DOMAIN stack
  BY <1>3, <1>5 DEF OpenLoops, Top
<1>7. IsFiniteSet(OpenLoops) /\ Cardinality(OpenLoops) \in Nat
  BY <1>1, <1>6, FramesFinite DEF ControlTypes
<1>8. LoopDepthCountsOpenLoops'
  <2>1. Cardinality(OpenLoops \ {Len(stack)}) =
          IF Len(stack) \in OpenLoops THEN Cardinality(OpenLoops) - 1
                                      ELSE Cardinality(OpenLoops)
    BY <1>7, FS_RemoveElement
  <2>2. loopDepth = Cardinality(OpenLoops)
    BY DEF ControlInv, LoopDepthCountsOpenLoops
  <2>3. CASE Top.c \in Loops
    BY <1>4, <1>6, <1>7, <2>1, <2>2, <2>3 DEF LoopDepthCountsOpenLoops
  <2>4. CASE Top.c \notin Loops
    BY <1>4, <1>6, <1>7, <2>1, <2>2, <2>4 DEF LoopDepthCountsOpenLoops
  <2>5. QED BY <2>3, <2>4
<1>9. JumpInsideLoop'
  <2>1. SUFFICES ASSUME NEW i \in DOMAIN stack', stack'[i].pc = "jumpEnd"
                 PROVE  \E j \in OpenLoops' : j < i
    BY DEF JumpInsideLoop
  <2>2. i # Len(stack) /\ i \in DOMAIN stack /\ stack[i].pc = "jumpEnd"
    BY <1>2, <1>5, <2>1
  <2>3. PICK j \in OpenLoops : j < i
    BY <2>2 DEF ControlInv, JumpInsideLoop
  <2>4. i \in 1..Len(stack) /\ j \in 1..Len(stack) /\ Len(stack) \in Nat
    BY <1>1, <2>2 DEF ControlTypes, OpenLoops
  <2>5. j # Len(stack)
    BY <2>2, <2>3, <2>4
  <2>6. QED BY <1>6, <2>3, <2>5
<1>10. ControlTypes'
  <2>1. loopDepth' \in Int
    BY <1>1, <1>4 DEF ControlTypes
  <2>2. QED BY <1>1, <1>4, <1>5, <2>1 DEF ControlTypes, Result
<1>11. QED
  BY <1>4, <1>5, <1>8, <1>9, <1>10 DEF ControlInv, DepthCountsActivations

\* A new activation comes on top; the caller's frame keeps its construct.
LEMMA PushKeepsCounts ==
  ASSUME ControlInv, ~Done, NEW kind \in Kind, NEW n \in Int, NEW pc \in Place,
         NEW d \in Int, pc # "jumpEnd", Top.pc = "body" <=> pc = "body",
         stack' = Push(kind, n, pc, d), loopDepth' = loopDepth
  PROVE  /\ stack' \in Seq(Frame)
         /\ LoopDepthCountsOpenLoops' /\ JumpInsideLoop'
         /\ Cardinality(Activations') =
              Cardinality(Activations) + IF kind \in Guarded THEN 1 ELSE 0
         /\ Cardinality(Activations) \in Nat
<1>0. PICK own \in Int : own = Top.own + d
  BY TopIsFrame DEF Frame
<1> DEFINE f == [Top EXCEPT !.pc = pc, !.own = own]
           t == [stack EXCEPT ![Len(stack)] = f]
           k == Len(stack)
<1>1. Top \in Frame /\ stack \in Seq(Frame) /\ stack # <<>>
  BY TopIsFrame DEF ControlInv, ControlTypes, Done
<1>2. f \in Frame /\ f.kind = Top.kind /\ f.pc = pc /\ f.c = Top.c
  BY <1>1 DEF Frame
<1>3. OpenLoop(f) <=> OpenLoop(Top)
  BY <1>2 DEF OpenLoop
<1>4. New(kind, n) \in Frame /\ New(kind, n).kind = kind /\ New(kind, n).pc = "entry"
  BY DEF New, Frame, Place, ExpressionPlace, Construct
<1>5. stack' = Append(t, New(kind, n))
  BY <1>0 DEF Push
<1> HIDE DEF f
<1>6. /\ t \in Seq(Frame) /\ Len(t) = k /\ DOMAIN t = DOMAIN stack /\ k \in DOMAIN stack
      /\ t[k] = f /\ \A i \in DOMAIN stack : i # k => t[i] = stack[i]
  BY <1>1, <1>2, ReplaceTop
<1> HIDE DEF t
<1>7. /\ stack' \in Seq(Frame)
      /\ k \in Nat /\ DOMAIN stack = 1..k /\ DOMAIN stack' = 1..(k + 1)
      /\ stack'[k + 1] = New(kind, n) /\ stack'[k] = f
      /\ \A i \in 1..k : i # k => stack'[i] = stack[i]
  <2>1. /\ Append(t, New(kind, n)) \in Seq(Frame)
        /\ Len(t) \in Nat /\ DOMAIN t = 1..Len(t)
        /\ DOMAIN Append(t, New(kind, n)) = 1..(Len(t) + 1)
        /\ Append(t, New(kind, n))[Len(t) + 1] = New(kind, n)
        /\ \A i \in 1..Len(t) : Append(t, New(kind, n))[i] = t[i]
    BY <1>4, <1>6, AddTop
  <2> HIDE DEF k
  <2>2. QED BY <1>5, <1>6, <2>1
<1> HIDE DEF k
<1>8. stack[k] = Top /\ k \in 1..k
  BY <1>6, <1>7 DEF Top, k
<1>9. ~OpenLoop(New(kind, n))
  BY <1>4 DEF OpenLoop
<1>10. OpenLoops' = OpenLoops
  <2>1. OpenLoops' = {i \in 1..(k + 1) : OpenLoop(stack'[i])}
    BY <1>7 DEF OpenLoops
  <2>2. OpenLoops = {i \in 1..k : OpenLoop(stack[i])}
    BY <1>7 DEF OpenLoops
  <2>3. \A i \in 1..k : OpenLoop(stack'[i]) <=> OpenLoop(stack[i])
    BY <1>3, <1>7, <1>8
  <2>4. QED BY <1>7, <1>9, <2>1, <2>2, <2>3
<1>11. /\ kind \in Guarded => Activations' = Activations \cup {k + 1}
       /\ kind \notin Guarded => Activations' = Activations
       /\ k + 1 \notin Activations /\ Activations \in SUBSET DOMAIN stack
  <2>1. Activations' = {i \in 1..(k + 1) : stack'[i].kind \in Guarded}
    BY <1>7 DEF Activations
  <2>2. Activations = {i \in 1..k : stack[i].kind \in Guarded}
    BY <1>7 DEF Activations
  <2>3. \A i \in 1..k : stack'[i].kind = stack[i].kind
    BY <1>2, <1>7, <1>8
  <2>4. QED BY <1>4, <1>7, <2>1, <2>2, <2>3
<1>12. IsFiniteSet(Activations) /\ Cardinality(Activations) \in Nat
  BY <1>1, <1>11, FramesFinite
<1>13. Cardinality(Activations \cup {k + 1}) = Cardinality(Activations) + 1
  BY <1>11, <1>12, FS_AddElement
<1>14. JumpInsideLoop'
  <2>1. SUFFICES ASSUME NEW i \in DOMAIN stack', stack'[i].pc = "jumpEnd"
                 PROVE  \E j \in OpenLoops' : j < i
    BY DEF JumpInsideLoop
  <2>2. i \in DOMAIN stack /\ stack[i].pc = "jumpEnd"
    BY <1>2, <1>4, <1>7, <2>1
  <2>3. QED BY <1>10, <2>2 DEF ControlInv, JumpInsideLoop
<1>15. LoopDepthCountsOpenLoops'
  BY <1>10 DEF ControlInv, LoopDepthCountsOpenLoops
<1>16. CASE kind \in Guarded
  BY <1>7, <1>11, <1>12, <1>13, <1>14, <1>15, <1>16
<1>17. CASE kind \notin Guarded
  BY <1>7, <1>11, <1>12, <1>14, <1>15, <1>17
<1>18. QED BY <1>16, <1>17

\* A guarded call, accepted or refused.
LEMMA CallKeepsInv ==
  ASSUME ControlInv, ~Done, NEW kind \in Guarded, NEW n \in Int, NEW pc \in Place,
         NEW d \in Int, pc # "jumpEnd", Top.pc = "body" <=> pc = "body",
         Call(kind, n, pc, d)
  PROVE  ControlInv'
<1>1. CASE Refused
  <2>0. PICK own \in Int : own = Top.own + d
    BY TopIsFrame DEF Frame
  <2> DEFINE f == [Top EXCEPT !.pc = pc, !.own = own]
  <2>1. Top \in Frame
    BY TopIsFrame
  <2>2. f \in Frame /\ f.kind = Top.kind /\ f.pc = pc /\ f.c = Top.c
    BY <2>1 DEF Frame
  <2>3. (OpenLoop(f) <=> OpenLoop(Top)) /\ f.pc # "jumpEnd"
    BY <2>2 DEF OpenLoop
  <2>4. /\ Becomes(f) /\ ret' = "null"
        /\ depth' = depth /\ loopDepth' = loopDepth /\ lost' = lost
    BY <1>1, <2>0 DEF Call
  <2>5. ret' \in Result /\ lost' \in Int
    BY <2>4 DEF Result, ControlInv, ControlTypes
  <2> HIDE DEF f
  <2>6. QED BY <2>2, <2>3, <2>4, <2>5, MoveTop
<1>2. CASE ~Refused
  <2>1. /\ stack' = Push(kind, n, pc, d) /\ ret' = "none"
        /\ depth' = depth + 1 /\ loopDepth' = loopDepth /\ lost' = lost
    BY <1>2 DEF Call
  <2>2. kind \in Kind
    BY DEF Guarded, Kind
  <2>3. /\ stack' \in Seq(Frame)
        /\ LoopDepthCountsOpenLoops' /\ JumpInsideLoop'
        /\ Cardinality(Activations') = Cardinality(Activations) + 1
        /\ Cardinality(Activations) \in Nat
    BY <2>1, <2>2, PushKeepsCounts
  <2>4. DepthCountsActivations'
    BY <2>1, <2>3 DEF ControlInv, DepthCountsActivations
  <2>5. depth' <= MaxDepth
    BY <1>2, <2>1, ParserAssumption DEF Refused, ControlInv, ControlTypes
  <2>6. ControlTypes'
    BY <2>1, <2>3 DEF ControlInv, ControlTypes, Result
  <2>7. QED BY <2>3, <2>4, <2>5, <2>6 DEF ControlInv
<1>3. QED BY <1>1, <1>2

LEMMA CallPrimaryKeepsInv ==
  ASSUME ControlInv, ~Done, NEW pc \in Place, Top.pc # "body", pc # "body",
         pc # "jumpEnd", CallPrimary(pc)
  PROVE  ControlInv'
<1>1. /\ stack' = Push("prim", 0, pc, 0) /\ ret' = "none"
      /\ depth' = depth /\ loopDepth' = loopDepth /\ lost' = lost
  BY DEF CallPrimary
<1>2. "prim" \in Kind /\ "prim" \notin Guarded
  BY DEF Guarded, Kind
<1>3. /\ stack' \in Seq(Frame)
      /\ LoopDepthCountsOpenLoops' /\ JumpInsideLoop'
      /\ Cardinality(Activations') = Cardinality(Activations) + 0
      /\ Cardinality(Activations) \in Nat
  BY <1>1, <1>2, PushKeepsCounts
<1>4. QED
  BY <1>1, <1>3 DEF ControlInv, ControlTypes, Result, DepthCountsActivations

\* A return, from anywhere but a loop body.
LEMMA ReturnKeepsInv ==
  ASSUME ControlInv, ~Done, NEW r \in Result, NEW d \in Int,
         Top.pc # "body", Return(r, d)
  PROVE  ControlInv'
<1> DEFINE k == Len(stack)
<1>1. Top \in Frame /\ stack \in Seq(Frame) /\ stack # <<>> /\ ControlTypes
  BY TopIsFrame DEF ControlInv, ControlTypes, Done
<1>2. /\ stack' = SubSeq(stack, 1, k - 1) /\ ret' = r /\ loopDepth' = loopDepth
      /\ depth' = depth - IF Top.kind \in Guarded THEN 1 ELSE 0
      /\ lost' = lost + Top.own + d - IF r = "null" THEN 0 ELSE 1
  BY DEF Return
<1>3. /\ stack' \in Seq(Frame) /\ k \in DOMAIN stack
      /\ DOMAIN stack' = DOMAIN stack \ {k}
      /\ \A i \in DOMAIN stack' : stack'[i] = stack[i]
  BY <1>1, <1>2, RemoveTop
<1>4. DOMAIN stack = 1..k /\ k \in Nat /\ stack[k] = Top
  BY <1>1 DEF Top
<1> HIDE DEF k
<1>5. OpenLoops' = OpenLoops
  <2>1. ~OpenLoop(stack[k])
    BY <1>4 DEF OpenLoop
  <2>2. QED BY <1>3, <2>1 DEF OpenLoops
<1>6. /\ Activations' = Activations \ {k}
      /\ Top.kind \in Guarded <=> k \in Activations
      /\ Activations \in SUBSET DOMAIN stack
  BY <1>3, <1>4 DEF Activations
<1>7. IsFiniteSet(Activations) /\ Cardinality(Activations) \in Nat
  BY <1>1, <1>6, FramesFinite
<1>8. Cardinality(Activations \ {k}) =
        IF k \in Activations THEN Cardinality(Activations) - 1 ELSE Cardinality(Activations)
  BY <1>7, FS_RemoveElement
<1>9. depth = Cardinality(Activations) /\ depth <= MaxDepth
  BY DEF ControlInv, DepthCountsActivations
<1>10. DepthCountsActivations' /\ depth' <= MaxDepth /\ depth' \in Int
  <2>1. CASE Top.kind \in Guarded
    BY <1>2, <1>6, <1>7, <1>8, <1>9, <2>1, ParserAssumption DEF DepthCountsActivations
  <2>2. CASE Top.kind \notin Guarded
    BY <1>2, <1>6, <1>7, <1>8, <1>9, <2>2, ParserAssumption DEF DepthCountsActivations
  <2>3. QED BY <2>1, <2>2
<1>11. JumpInsideLoop'
  BY <1>3, <1>5 DEF ControlInv, JumpInsideLoop
<1>12. LoopDepthCountsOpenLoops'
  BY <1>2, <1>5 DEF ControlInv, LoopDepthCountsOpenLoops
<1>13. lost' \in Int
  <2>1. Top.own \in Int /\ lost \in Int
    BY <1>1 DEF Frame, ControlTypes
  <2>2. QED BY <1>2, <2>1
<1>14. QED
  BY <1>1, <1>2, <1>3, <1>10, <1>11, <1>12, <1>13 DEF ControlInv, ControlTypes

-----------------------------------------------------------------------------
(* The token operators preserve their types. *)

TokenInv ==
  /\ tok \in Token \cup {"eof"} /\ again \in Token \cup {"eof", "none"}
  /\ left \in 0..InputLen
  /\ errors \in 0..2
  /\ dropped \subseteq Dropped

LEMMA PlusType ==
  ASSUME NEW count \in 0..2, NEW k \in 0..3
  PROVE  Plus(count, k) \in 0..2
BY DEF Plus

LEMMA AdvanceLoggingType ==
  ASSUME TokenInv, NEW k \in 0..2, AdvanceLogging(k)
  PROVE  /\ tok' \in Token \cup {"eof"} /\ again' \in Token \cup {"eof", "none"}
         /\ left' \in 0..InputLen /\ errors' \in 0..2
<1>1. tok' \in Token \cup {"eof"} /\ left' \in 0..InputLen
  BY ParserAssumption DEF AdvanceLogging, TokenInv
<1>2. k + (IF tok' = "longid" THEN 1 ELSE 0) \in 0..3
  OBVIOUS
<1>3. errors' \in 0..2
  BY <1>2, PlusType DEF AdvanceLogging, TokenInv
<1>4. QED BY <1>1, <1>3 DEF AdvanceLogging

LEMMA AdvanceKeepsType ==
  ASSUME TokenInv, NEW k \in 0..2, Advance(k)
  PROVE  TokenInv'
BY AdvanceLoggingType DEF Advance, TokenInv

LEMMA DiscardKeepsType ==
  ASSUME TokenInv, NEW what \in Dropped, Discard(what)
  PROVE  TokenInv'
BY AdvanceLoggingType DEF Discard, TokenInv

LEMMA StayKeepsType ==
  ASSUME TokenInv, NEW k \in 0..2, Stay(k)
  PROVE  TokenInv'
BY PlusType DEF Stay, TokenInv

LEMMA StayWithoutKeepsType ==
  ASSUME TokenInv, NEW what \in Dropped, StayWithout(what)
  PROVE  TokenInv'
BY DEF StayWithout, TokenInv

LEMMA RewindKeepsType ==
  ASSUME TokenInv, NEW k \in 0..2, Rewind(k)
  PROVE  TokenInv'
<1>1. {"id", "longid"} \subseteq Token
  BY DEF Token, Ident
<1>2. QED BY <1>1, PlusType DEF Rewind, TokenInv

LEMMA OverflowType == Overflow \in 0..2
BY DEF Overflow

\* Calls of parse_statement and parse_expression from outside a block.
LEMMA CallStatementKeepsInv ==
  ASSUME ControlInv, ~Done, Top.pc # "body", NEW pc \in Place, NEW d \in Int,
         pc # "body", pc # "jumpEnd", Call("stmt", 0, pc, d)
  PROVE  ControlInv'
<1>1. "stmt" \in Guarded
  BY DEF Guarded
<1>2. QED BY <1>1, CallKeepsInv

LEMMA CallExpressionKeepsInv ==
  ASSUME ControlInv, ~Done, Top.pc # "body", NEW n \in Int, NEW pc \in Place,
         NEW d \in Int, pc # "body", pc # "jumpEnd", Call("expr", n, pc, d)
  PROVE  ControlInv'
<1>1. "expr" \in Guarded
  BY DEF Guarded
<1>2. QED BY <1>1, CallKeepsInv

-----------------------------------------------------------------------------
(* The actions, one lemma each: what the step does to the token, what it   *)
(* does to the call stack, and the lemmas above.                           *)

LEMMA ParseProgramKeepsInv ==
  ASSUME ControlInv, TokenInv, ParseProgram
  PROVE  ControlInv' /\ TokenInv'
<1>1. ~Done /\ Top.pc # "body"
  BY DEF ParseProgram, InProgram, At
<1>2. \/ Advance(0) \/ Advance(1) \/ Stay(0)
  BY DEF ParseProgram
<1>3. \/ \E pc \in {"top", "structName", "functionName"} : Goto(pc, 0)
      \/ Return("node", 0)
  BY DEF ParseProgram
<1>4. TokenInv'
  BY <1>2, AdvanceKeepsType, StayKeepsType
<1>5. {"top", "structName", "functionName"} \subseteq Place
  BY DEF Place, ProgramPlace
<1>6. ControlInv'
  <2>1. CASE \E pc \in {"top", "structName", "functionName"} : Goto(pc, 0)
    BY <1>1, <1>5, <2>1, GotoKeepsInv
  <2>2. CASE Return("node", 0)
    BY <1>1, <2>2, ReturnKeepsInv DEF Result
  <2>3. QED BY <1>3, <2>1, <2>2
<1>7. QED BY <1>4, <1>6

LEMMA ParseStructDeclarationKeepsInv ==
  ASSUME ControlInv, TokenInv, ParseStructDeclaration
  PROVE  ControlInv' /\ TokenInv'
<1>1. ~Done /\ Top.pc # "body"
  BY DEF ParseStructDeclaration, InProgram, At
<1>2. \/ Advance(0) \/ Stay(1)
  BY DEF ParseStructDeclaration
<1>3. \/ GotoWith("sync", 0, 0)
      \/ \E pc \in {"register", "params"} : Goto(pc, 1)
      \/ \E pc \in {"structAfterName", "structFunction"} : Goto(pc, 0)
  BY DEF ParseStructDeclaration
<1>4. TokenInv'
  BY <1>2, AdvanceKeepsType, StayKeepsType
<1>5. {"sync", "register", "params", "structAfterName", "structFunction"}
      \subseteq Place
  BY DEF Place, ProgramPlace
<1>6. ControlInv'
  <2>1. CASE GotoWith("sync", 0, 0)
    BY <1>1, <1>5, <2>1, GotoWithKeepsInv
  <2>2. CASE \/ \E pc \in {"register", "params"} : Goto(pc, 1)
           \/ \E pc \in {"structAfterName", "structFunction"} : Goto(pc, 0)
    BY <1>1, <1>5, <2>2, GotoKeepsInv
  <2>3. QED BY <1>3, <2>1, <2>2
<1>7. QED BY <1>4, <1>6

LEMMA ParseFunctionDeclarationKeepsInv ==
  ASSUME ControlInv, TokenInv, ParseFunctionDeclaration
  PROVE  ControlInv' /\ TokenInv'
<1>1. ~Done /\ Top.pc # "body"
  BY DEF ParseFunctionDeclaration, InProgram, At
<1>2. \/ Advance(0) \/ Stay(1)
  BY DEF ParseFunctionDeclaration
<1>3. \/ GotoWith("sync", 0, 0) \/ Goto("params", 1)
      \/ \E pc \in {"functionParen", "semicolon"} : Goto(pc, 0)
  BY DEF ParseFunctionDeclaration
<1>4. TokenInv'
  BY <1>2, AdvanceKeepsType, StayKeepsType
<1>5. {"sync", "params", "functionParen", "semicolon"} \subseteq Place
  BY DEF Place, ProgramPlace
<1>6. ControlInv'
  <2>1. CASE GotoWith("sync", 0, 0)
    BY <1>1, <1>5, <2>1, GotoWithKeepsInv
  <2>2. CASE \/ Goto("params", 1)
           \/ \E pc \in {"functionParen", "semicolon"} : Goto(pc, 0)
    BY <1>1, <1>5, <2>2, GotoKeepsInv
  <2>3. QED BY <1>3, <2>1, <2>2
<1>7. QED BY <1>4, <1>6

LEMMA SkipToSyncPointKeepsInv ==
  ASSUME ControlInv, TokenInv, SkipToSyncPoint
  PROVE  ControlInv' /\ TokenInv'
<1>1. ~Done /\ Top.pc # "body"
  BY DEF SkipToSyncPoint, InProgram, At
<1>2. \/ Advance(0) \/ Stay(0)
  BY DEF SkipToSyncPoint
<1>3. \/ GotoWith("sync", Top.n - 1, 0)
      \/ GotoWith("sync", Top.n + 1, 0)
      \/ \E pc \in {"sync", "top"} : Goto(pc, 0)
  BY DEF SkipToSyncPoint
<1>4. TokenInv'
  BY <1>2, AdvanceKeepsType, StayKeepsType
<1>5. {"sync", "top"} \subseteq Place
  BY DEF Place, ProgramPlace
<1>6. Top.n - 1 \in Int /\ Top.n + 1 \in Int
  BY <1>1, TopIsFrame DEF Frame
<1>7. ControlInv'
  <2>1. CASE GotoWith("sync", Top.n - 1, 0)
    BY <1>1, <1>5, <1>6, <2>1, GotoWithKeepsInv
  <2>2. CASE GotoWith("sync", Top.n + 1, 0)
    BY <1>1, <1>5, <1>6, <2>2, GotoWithKeepsInv
  <2>3. CASE \E pc \in {"sync", "top"} : Goto(pc, 0)
    BY <1>1, <1>5, <2>3, GotoKeepsInv
  <2>4. QED BY <1>3, <2>1, <2>2, <2>3
<1>8. QED BY <1>4, <1>7

LEMMA SkipToSemicolonKeepsInv ==
  ASSUME ControlInv, TokenInv, SkipToSemicolon
  PROVE  ControlInv' /\ TokenInv'
<1>1. ~Done /\ Top.pc # "body"
  BY DEF SkipToSemicolon, InProgram, At
<1>2. \/ Advance(0) \/ Stay(0)
  BY DEF SkipToSemicolon
<1>3. \E pc \in {"semicolon", "top"} : Goto(pc, 0)
  BY DEF SkipToSemicolon
<1>4. TokenInv'
  BY <1>2, AdvanceKeepsType, StayKeepsType
<1>5. {"semicolon", "top"} \subseteq Place
  BY DEF Place, ProgramPlace
<1>6. ControlInv'
  <2>1. CASE \E pc \in {"semicolon", "top"} : Goto(pc, 0)
    BY <1>1, <1>5, <2>1, GotoKeepsInv
  <2>2. QED BY <1>3, <2>1
<1>7. QED BY <1>4, <1>6

LEMMA ParseFunctionParametersKeepsInv ==
  ASSUME ControlInv, TokenInv, ParseFunctionParameters
  PROVE  ControlInv' /\ TokenInv'
<1>1. ~Done /\ Top.pc # "body"
  BY DEF ParseFunctionParameters, InProgram, At
<1>2. \/ Advance(0) \/ Stay(0) \/ Stay(1) \/ Discard("parameter")
  BY DEF ParseFunctionParameters
<1>3. \/ \E pc \in {"params", "paramStruct", "paramName", "paramsClose", "functionOpen"} : Goto(pc, 0)
      \/ Goto("top", -1)
  BY DEF ParseFunctionParameters
<1>4. TokenInv'
  BY <1>2, AdvanceKeepsType, DiscardKeepsType, StayKeepsType DEF Dropped
<1>5. {"params", "paramStruct", "paramName", "paramsClose", "functionOpen",
      "top"} \subseteq Place
  BY DEF Place, ProgramPlace
<1>6. ControlInv'
  <2>1. CASE \/ \E pc \in {"params", "paramStruct", "paramName", "paramsClose", "functionOpen"} : Goto(pc, 0)
           \/ Goto("top", -1)
    BY <1>1, <1>5, <2>1, GotoKeepsInv
  <2>2. QED BY <1>3, <2>1
<1>7. QED BY <1>4, <1>6

LEMMA ParseSingleParameterKeepsInv ==
  ASSUME ControlInv, TokenInv, ParseSingleParameter
  PROVE  ControlInv' /\ TokenInv'
<1>1. ~Done /\ Top.pc # "body"
  BY DEF ParseSingleParameter, InProgram, At
<1>2. \/ Advance(0) \/ Stay(0) \/ Stay(1)
  BY DEF ParseSingleParameter
<1>3. \E pc \in {"paramName", "paramComma", "params", "paramsClose"} : Goto(pc, 0)
  BY DEF ParseSingleParameter
<1>4. TokenInv'
  BY <1>2, AdvanceKeepsType, StayKeepsType
<1>5. {"paramName", "paramComma", "params", "paramsClose"} \subseteq Place
  BY DEF Place, ProgramPlace
<1>6. ControlInv'
  <2>1. CASE \E pc \in {"paramName", "paramComma", "params", "paramsClose"} : Goto(pc, 0)
    BY <1>1, <1>5, <2>1, GotoKeepsInv
  <2>2. QED BY <1>3, <2>1
<1>7. QED BY <1>4, <1>6

LEMMA ParseFunctionBodyKeepsInv ==
  ASSUME ControlInv, TokenInv, ParseFunctionBody
  PROVE  ControlInv' /\ TokenInv'
<1>1. ~Done /\ Top.pc # "body"
  BY DEF ParseFunctionBody, InProgram, At
<1>2. \/ Advance(0) \/ Stay(0) \/ Stay(1) \/ Stay(Overflow)
  BY DEF ParseFunctionBody
<1>3. \/ \E pc \in {"functionBody", "functionClose"} : Goto(pc, 0)
      \/ Goto("top", -1) \/ Call("stmt", 0, "functionBody", 0)
  BY DEF ParseFunctionBody
<1>4. TokenInv'
  BY <1>2, AdvanceKeepsType, StayKeepsType, OverflowType
<1>5. {"functionBody", "functionClose", "top"} \subseteq Place
  BY DEF Place, ProgramPlace
<1>6. ControlInv'
  <2>1. CASE \/ \E pc \in {"functionBody", "functionClose"} : Goto(pc, 0)
           \/ Goto("top", -1)
    BY <1>1, <1>5, <2>1, GotoKeepsInv
  <2>2. CASE Call("stmt", 0, "functionBody", 0)
    BY <1>1, <1>5, <2>2, CallStatementKeepsInv
  <2>3. QED BY <1>3, <2>1, <2>2
<1>7. QED BY <1>4, <1>6

LEMMA ParseStructKeepsInv ==
  ASSUME ControlInv, TokenInv, ParseStruct
  PROVE  ControlInv' /\ TokenInv'
<1>1. ~Done /\ Top.pc # "body"
  BY DEF ParseStruct, InProgram, At
<1>2. \/ Advance(0) \/ Stay(0) \/ Stay(1) \/ Stay(2) \/ Discard("field")
  BY DEF ParseStruct
<1>3. \/ \E pc \in {"fields", "fieldName", "structClose", "structEnd"} : Goto(pc, 0)
      \/ Goto("top", -1)
  BY DEF ParseStruct
<1>4. TokenInv'
  BY <1>2, AdvanceKeepsType, DiscardKeepsType, StayKeepsType DEF Dropped
<1>5. {"fields", "fieldName", "structClose", "structEnd", "top"} \subseteq
      Place
  BY DEF Place, ProgramPlace
<1>6. ControlInv'
  <2>1. CASE \/ \E pc \in {"fields", "fieldName", "structClose", "structEnd"} : Goto(pc, 0)
           \/ Goto("top", -1)
    BY <1>1, <1>5, <2>1, GotoKeepsInv
  <2>2. QED BY <1>3, <2>1
<1>7. QED BY <1>4, <1>6

LEMMA ParseStructFieldKeepsInv ==
  ASSUME ControlInv, TokenInv, ParseStructField
  PROVE  ControlInv' /\ TokenInv'
<1>1. ~Done /\ Top.pc # "body"
  BY DEF ParseStructField, InProgram, At
<1>2. \/ Advance(0) \/ Advance(1) \/ Stay(1)
  BY DEF ParseStructField
<1>3. \/ Goto("fields", 0) \/ Goto("fieldEnd", 1) \/ Goto("fields", -1)
  BY DEF ParseStructField
<1>4. TokenInv'
  BY <1>2, AdvanceKeepsType, StayKeepsType
<1>5. {"fields", "fieldEnd"} \subseteq Place
  BY DEF Place, ProgramPlace
<1>6. ControlInv'
  <2>1. CASE \/ Goto("fields", 0) \/ Goto("fieldEnd", 1) \/ Goto("fields", -1)
    BY <1>1, <1>5, <2>1, GotoKeepsInv
  <2>2. QED BY <1>3, <2>1
<1>7. QED BY <1>4, <1>6

LEMMA ParseJumpKeepsInv ==
  ASSUME ControlInv, TokenInv, ParseJump
  PROVE  ControlInv' /\ TokenInv'
<1>1. ~Done /\ Top.pc # "body"
  BY DEF ParseJump, InStatement, At
<1>2. \/ Advance(0) \/ Stay(1)
  BY DEF ParseJump, Fail
<1>3. \E r \in {"node", "empty"} : Return(r, 0)
  BY DEF ParseJump, Fail
<1>4. TokenInv'
  BY <1>2, AdvanceKeepsType, StayKeepsType
<1>5. ControlInv'
  <2>1. CASE \E r \in {"node", "empty"} : Return(r, 0)
    BY <1>1, <2>1, ReturnKeepsInv DEF Result
  <2>2. QED BY <1>3, <2>1
<1>6. QED BY <1>4, <1>5

LEMMA ParseReturnKeepsInv ==
  ASSUME ControlInv, TokenInv, ParseReturn
  PROVE  ControlInv' /\ TokenInv'
<1>1. ~Done /\ Top.pc # "body"
  BY DEF ParseReturn, InStatement, At
<1>2. \/ Advance(0) \/ Stay(1)
  BY DEF ParseReturn
<1>3. \/ Return("node", 0) \/ Return("null", -1)
  BY DEF ParseReturn
<1>4. TokenInv'
  BY <1>2, AdvanceKeepsType, StayKeepsType
<1>5. ControlInv'
  <2>1. CASE \/ Return("node", 0) \/ Return("null", -1)
    BY <1>1, <2>1, ReturnKeepsInv DEF Result
  <2>2. QED BY <1>3, <2>1
<1>6. QED BY <1>4, <1>5

LEMMA ParseVariableDeclarationKeepsInv ==
  ASSUME ControlInv, TokenInv, ParseVariableDeclaration
  PROVE  ControlInv' /\ TokenInv'
<1>1. ~Done /\ Top.pc # "body"
  BY DEF ParseVariableDeclaration, InStatement, At
<1>2. \/ Advance(0) \/ Advance(1) \/ Stay(0) \/ Stay(1)
      \/ Stay(Overflow) \/ StayWithout("operand")
  BY DEF ParseVariableDeclaration, Fail
<1>3. \/ \E pc \in {"declName", "declSize"} : GotoWith(pc, 1, 0)
      \/ \E pc \in {"declDim", "initList"} : Goto(pc, 1)
      \/ \E pc \in {"declSizeEnd", "declInit", "declValue", "declEnd", "declSkip"} : Goto(pc, 0)
      \/ Call("expr", TopLevelMin, "declGarbage", 0)
      \/ Return("empty", 0)
      \/ \E r \in {"node", "empty"} : Return(r, -1)
  BY DEF ParseVariableDeclaration, Fail
<1>4. TokenInv'
  BY <1>2, AdvanceKeepsType, StayKeepsType, StayWithoutKeepsType, OverflowType
     DEF Dropped
<1>5. {"declName", "declSize", "declDim", "initList", "declSizeEnd",
      "declInit", "declValue", "declEnd", "declSkip", "declGarbage"}
      \subseteq Place
  BY DEF Place, StatementPlace
<1>6. TopLevelMin \in Int
  BY DEF TopLevelMin
<1>7. ControlInv'
  <2>1. CASE \E pc \in {"declName", "declSize"} : GotoWith(pc, 1, 0)
    BY <1>1, <1>5, <2>1, GotoWithKeepsInv
  <2>2. CASE \/ \E pc \in {"declDim", "initList"} : Goto(pc, 1)
           \/ \E pc \in {"declSizeEnd", "declInit", "declValue", "declEnd", "declSkip"} : Goto(pc, 0)
    BY <1>1, <1>5, <2>2, GotoKeepsInv
  <2>3. CASE Call("expr", TopLevelMin, "declGarbage", 0)
    BY <1>1, <1>5, <1>6, <2>3, CallExpressionKeepsInv
  <2>4. CASE \/ Return("empty", 0)
           \/ \E r \in {"node", "empty"} : Return(r, -1)
    BY <1>1, <2>4, ReturnKeepsInv DEF Result
  <2>5. QED BY <1>3, <2>1, <2>2, <2>3, <2>4
<1>8. QED BY <1>4, <1>7

LEMMA ParseInitializerListKeepsInv ==
  ASSUME ControlInv, TokenInv, ParseInitializerList
  PROVE  ControlInv' /\ TokenInv'
<1>1. ~Done /\ Top.pc # "body"
  BY DEF ParseInitializerList, InStatement, At
<1>2. \/ Advance(0) \/ Stay(2) \/ Discard("initializer")
  BY DEF ParseInitializerList
<1>3. \/ Goto("initList", 0) \/ Goto("declEnd", -1)
  BY DEF ParseInitializerList
<1>4. TokenInv'
  BY <1>2, AdvanceKeepsType, DiscardKeepsType, StayKeepsType DEF Dropped
<1>5. {"initList", "declEnd"} \subseteq Place
  BY DEF Place, StatementPlace
<1>6. ControlInv'
  <2>1. CASE \/ Goto("initList", 0) \/ Goto("declEnd", -1)
    BY <1>1, <1>5, <2>1, GotoKeepsInv
  <2>2. QED BY <1>3, <2>1
<1>7. QED BY <1>4, <1>6

LEMMA ParseAssignmentOrExpressionKeepsInv ==
  ASSUME ControlInv, TokenInv, ParseAssignmentOrExpression
  PROVE  ControlInv' /\ TokenInv'
<1>1. ~Done /\ Top.pc # "body"
  BY DEF ParseAssignmentOrExpression, InStatement, At
<1>2. \/ Advance(0) \/ Stay(0) \/ Stay(1) \/ Advance(Overflow)
      \/ StayWithout("operand")
  BY DEF ParseAssignmentOrExpression, Fail
<1>3. \/ \E pc \in {"lhs", "assignDone", "assignSkip"} : Goto(pc, 0)
      \/ \E pc \in {"args", "assignSkip"} : Goto(pc, 1)
      \/ Call("expr", TopLevelMin, "assignEnd", 1) \/ Return("empty", 0)
      \/ \E r \in {"node", "empty"} : Return(r, -1)
  BY DEF ParseAssignmentOrExpression, Fail
<1>4. TokenInv'
  BY <1>2, AdvanceKeepsType, StayKeepsType, StayWithoutKeepsType, OverflowType
     DEF Dropped
<1>5. {"lhs", "assignDone", "assignSkip", "args", "assignEnd"} \subseteq
      Place
  BY DEF Place, StatementPlace
<1>6. TopLevelMin \in Int
  BY DEF TopLevelMin
<1>7. ControlInv'
  <2>1. CASE \/ \E pc \in {"lhs", "assignDone", "assignSkip"} : Goto(pc, 0)
           \/ \E pc \in {"args", "assignSkip"} : Goto(pc, 1)
    BY <1>1, <1>5, <2>1, GotoKeepsInv
  <2>2. CASE Call("expr", TopLevelMin, "assignEnd", 1)
    BY <1>1, <1>5, <1>6, <2>2, CallExpressionKeepsInv
  <2>3. CASE \/ Return("empty", 0)
           \/ \E r \in {"node", "empty"} : Return(r, -1)
    BY <1>1, <2>3, ReturnKeepsInv DEF Result
  <2>4. QED BY <1>3, <2>1, <2>2, <2>3
<1>8. QED BY <1>4, <1>7

LEMMA ParseLhsExpressionKeepsInv ==
  ASSUME ControlInv, TokenInv, ParseLhsExpression
  PROVE  ControlInv' /\ TokenInv'
<1>1. ~Done /\ Top.pc # "body"
  BY DEF ParseLhsExpression, InStatement, At
<1>2. \/ Advance(0) \/ Advance(1) \/ Stay(0) \/ Stay(1)
  BY DEF ParseLhsExpression
<1>3. \/ \E pc \in {"lhs", "lhsField", "equals"} : Goto(pc, 0)
      \/ GotoWith("index", 0, 0)
  BY DEF ParseLhsExpression
<1>4. TokenInv'
  BY <1>2, AdvanceKeepsType, StayKeepsType
<1>5. {"lhs", "lhsField", "equals", "index"} \subseteq Place
  BY DEF Place, StatementPlace
<1>6. ControlInv'
  <2>1. CASE \E pc \in {"lhs", "lhsField", "equals"} : Goto(pc, 0)
    BY <1>1, <1>5, <2>1, GotoKeepsInv
  <2>2. CASE GotoWith("index", 0, 0)
    BY <1>1, <1>5, <2>2, GotoWithKeepsInv
  <2>3. QED BY <1>3, <2>1, <2>2
<1>7. QED BY <1>4, <1>6

LEMMA ParseStandaloneFunctionCallKeepsInv ==
  ASSUME ControlInv, TokenInv, ParseStandaloneFunctionCall
  PROVE  ControlInv' /\ TokenInv'
<1>1. ~Done /\ Top.pc # "body"
  BY DEF ParseStandaloneFunctionCall, InStatement, At
<1>2. \/ Advance(0) \/ Stay(1)
  BY DEF ParseStandaloneFunctionCall, Fail
<1>3. \/ Goto("callEnd", 0) \/ GotoWith("callEnd", 0, -1)
      \/ Return("node", -1) \/ Return("empty", 0)
      \/ Return("empty", 1 - Top.own)
  BY DEF ParseStandaloneFunctionCall, Fail
<1>4. TokenInv'
  BY <1>2, AdvanceKeepsType, StayKeepsType
<1>5. {"callEnd"} \subseteq Place
  BY DEF Place, StatementPlace
<1>6. 1 - Top.own \in Int
  BY <1>1, TopIsFrame DEF Frame
<1>7. ControlInv'
  <2>1. CASE Goto("callEnd", 0)
    BY <1>1, <1>5, <2>1, GotoKeepsInv
  <2>2. CASE GotoWith("callEnd", 0, -1)
    BY <1>1, <1>5, <2>2, GotoWithKeepsInv
  <2>3. CASE \/ Return("node", -1) \/ Return("empty", 0)
           \/ Return("empty", 1 - Top.own)
    BY <1>1, <1>6, <2>3, ReturnKeepsInv DEF Result
  <2>4. QED BY <1>3, <2>1, <2>2, <2>3
<1>8. QED BY <1>4, <1>7

LEMMA ParseHeaderKeepsInv ==
  ASSUME ControlInv, TokenInv, ParseHeader
  PROVE  ControlInv' /\ TokenInv'
<1>1. ~Done /\ Top.pc # "body" /\ Top.kind = "stmt"
  BY DEF ParseHeader, InStatement, At
<1>2. \/ Advance(0) \/ Stay(0) \/ Stay(1) \/ Advance(Overflow)
  BY DEF ParseHeader, FailHeader
<1>3. \/ Call("expr", TopLevelMin, "condition", 0)
      \/ Goto("closeParen", 1) \/ Goto("openBrace", 0)
      \/ OpenBody(Outer + 1) \/ Return("empty", 0)
      \/ Return("empty", -1) \/ Return("node", 0 - 1)
      \/ Return("node", -1 - 1)
  BY DEF ParseHeader, FailHeader
<1>4. TokenInv'
  BY <1>2, AdvanceKeepsType, StayKeepsType, OverflowType
<1>5. {"condition", "closeParen", "openBrace"} \subseteq Place
  BY DEF Place, StatementPlace
<1>6. TopLevelMin \in Int /\ Outer + 1 \in Int
  BY DEF TopLevelMin, Outer
<1>7. ControlInv'
  <2>1. CASE Call("expr", TopLevelMin, "condition", 0)
    BY <1>1, <1>5, <1>6, <2>1, CallExpressionKeepsInv
  <2>2. CASE Goto("closeParen", 1)
    BY <1>1, <1>5, <2>2, GotoKeepsInv
  <2>3. CASE Goto("openBrace", 0)
    BY <1>1, <1>5, <2>3, GotoKeepsInv
  <2>4. CASE OpenBody(Outer + 1)
    BY <1>1, <1>6, <2>4, OpenBodyKeepsInv
  <2>5. CASE Return("empty", 0)
    BY <1>1, <2>5, ReturnKeepsInv DEF Result
  <2>6. CASE Return("empty", -1)
    BY <1>1, <2>6, ReturnKeepsInv DEF Result
  <2>7. CASE Return("node", 0 - 1)
    BY <1>1, <2>7, ReturnKeepsInv DEF Result
  <2>8. CASE Return("node", -1 - 1)
    BY <1>1, <2>8, ReturnKeepsInv DEF Result
  <2>9. QED BY <1>3, <2>1, <2>2, <2>3, <2>4, <2>5, <2>6, <2>7, <2>8
<1>8. QED BY <1>4, <1>7

LEMMA ParseIfStatementKeepsInv ==
  ASSUME ControlInv, TokenInv, ParseIfStatement
  PROVE  ControlInv' /\ TokenInv'
<1>1. ~Done /\ Top.pc # "body"
  BY DEF ParseIfStatement, InStatement, At
<1>2. \/ Advance(0) \/ Stay(1)
  BY DEF ParseIfStatement, Fail
<1>3. \/ Goto("else", 0) \/ Return("empty", -1)
  BY DEF ParseIfStatement, Fail
<1>4. TokenInv'
  BY <1>2, AdvanceKeepsType, StayKeepsType
<1>5. {"else"} \subseteq Place
  BY DEF Place, StatementPlace
<1>6. ControlInv'
  <2>1. CASE Goto("else", 0)
    BY <1>1, <1>5, <2>1, GotoKeepsInv
  <2>2. CASE Return("empty", -1)
    BY <1>1, <2>2, ReturnKeepsInv DEF Result
  <2>3. QED BY <1>3, <2>1, <2>2
<1>7. QED BY <1>4, <1>6

LEMMA ParseWhileStatementKeepsInv ==
  ASSUME ControlInv, TokenInv, ParseWhileStatement
  PROVE  ControlInv' /\ TokenInv'
<1>1. ~Done /\ Top.pc # "body"
  BY DEF ParseWhileStatement, InStatement, At
<1>2. \/ Advance(0) \/ Stay(1)
  BY DEF ParseWhileStatement, Fail
<1>3. \E r \in {"node", "empty"} : Return(r, -1)
  BY DEF ParseWhileStatement, Fail
<1>4. TokenInv'
  BY <1>2, AdvanceKeepsType, StayKeepsType
<1>5. ControlInv'
  <2>1. CASE \E r \in {"node", "empty"} : Return(r, -1)
    BY <1>1, <2>1, ReturnKeepsInv DEF Result
  <2>2. QED BY <1>3, <2>1
<1>6. QED BY <1>4, <1>5

LEMMA ParseElseBlocksKeepsInv ==
  ASSUME ControlInv, TokenInv, ParseElseBlocks
  PROVE  ControlInv' /\ TokenInv'
<1>1. ~Done /\ Top.pc # "body" /\ Top.kind = "stmt"
  BY DEF ParseElseBlocks, InStatement, At
<1>2. \/ Advance(0) \/ Stay(0) \/ Stay(1)
  BY DEF ParseElseBlocks
<1>3. \/ Goto("elseKind", 0) \/ Goto("else", -1)
      \/ Begin("elseif", "open") \/ Begin("else", "elseBody")
      \/ OpenBody(3)
      \/ \E d \in {-1, -2} : Return("node", d)
  BY DEF ParseElseBlocks
<1>4. TokenInv'
  BY <1>2, AdvanceKeepsType, StayKeepsType
<1>5. {"elseKind", "else", "open", "elseBody"} \subseteq Place
  BY DEF Place, StatementPlace
<1>6. ControlInv'
  <2>1. CASE \/ Goto("elseKind", 0) \/ Goto("else", -1)
    BY <1>1, <1>5, <2>1, GotoKeepsInv
  <2>2. CASE \/ Begin("elseif", "open") \/ Begin("else", "elseBody")
    BY <1>1, <1>5, <2>2, BeginKeepsInv DEF Construct
  <2>3. CASE OpenBody(3)
    BY <1>1, <2>3, OpenBodyKeepsInv
  <2>4. CASE \E d \in {-1, -2} : Return("node", d)
    BY <1>1, <2>4, ReturnKeepsInv DEF Result
  <2>5. QED BY <1>3, <2>1, <2>2, <2>3, <2>4
<1>7. QED BY <1>4, <1>6

LEMMA ParseForInitKeepsInv ==
  ASSUME ControlInv, TokenInv, ParseForInit
  PROVE  ControlInv' /\ TokenInv'
<1>1. ~Done /\ Top.pc # "body"
  BY DEF ParseForInit, InStatement, At
<1>2. \/ Advance(0) \/ Stay(0) \/ Stay(1) \/ Stay(Overflow)
      \/ Advance(Overflow) \/ Rewind(Overflow) \/ StayWithout("operand")
  BY DEF ParseForInit
<1>3. \/ \E pc \in {"forCondition", "forInitDone"} : Goto(pc, 0)
      \/ Goto("forCondition", Acquired) \/ Goto("forCondition", -1)
      \/ GotoLeaking("forCondition")
      \/ \E n \in {0, 1} : GotoWith("forIdent", n, 0)
      \/ Call("stmt", 0, "forDeclared", 0)
      \/ Call("expr", TopLevelMin, "forDiscarded", 0)
      \/ Call("expr", TopLevelMin, "forAssigned", 1)
  BY DEF ParseForInit
<1>4. TokenInv'
  BY <1>2, AdvanceKeepsType, RewindKeepsType, StayKeepsType, StayWithoutKeepsType, OverflowType
     DEF Dropped
<1>5. {"forCondition", "forInitDone", "forIdent", "forDeclared",
      "forDiscarded", "forAssigned"} \subseteq Place
  BY DEF Place, StatementPlace
<1>6. Acquired \in Int /\ TopLevelMin \in Int
  BY DEF Acquired, TopLevelMin
<1>7. ControlInv'
  <2>1. CASE \/ \E pc \in {"forCondition", "forInitDone"} : Goto(pc, 0)
           \/ Goto("forCondition", Acquired) \/ Goto("forCondition", -1)
    BY <1>1, <1>5, <1>6, <2>1, GotoKeepsInv
  <2>2. CASE GotoLeaking("forCondition")
    BY <1>1, <1>5, <2>2, GotoLeakingKeepsInv
  <2>3. CASE \E n \in {0, 1} : GotoWith("forIdent", n, 0)
    BY <1>1, <1>5, <2>3, GotoWithKeepsInv
  <2>4. CASE Call("stmt", 0, "forDeclared", 0)
    BY <1>1, <1>5, <2>4, CallStatementKeepsInv
  <2>5. CASE Call("expr", TopLevelMin, "forDiscarded", 0)
    BY <1>1, <1>5, <1>6, <2>5, CallExpressionKeepsInv
  <2>6. CASE Call("expr", TopLevelMin, "forAssigned", 1)
    BY <1>1, <1>5, <1>6, <2>6, CallExpressionKeepsInv
  <2>7. QED BY <1>3, <2>1, <2>2, <2>3, <2>4, <2>5, <2>6
<1>8. QED BY <1>4, <1>7

LEMMA ParseForIncrementKeepsInv ==
  ASSUME ControlInv, TokenInv, ParseForIncrement
  PROVE  ControlInv' /\ TokenInv'
<1>1. ~Done /\ Top.pc # "body"
  BY DEF ParseForIncrement, InStatement, At
<1>2. \/ Advance(0) \/ Stay(0) \/ Advance(Overflow)
      \/ StayWithout("operand")
  BY DEF ParseForIncrement
<1>3. \/ Goto("forIncrementOp", 0)
      \/ \E n \in {0, 1} : GotoWith("forParen", n, 0)
      \/ GotoWith("forParen", 1, 1)
      \/ Call("expr", TopLevelMin, "forIncremented", 1)
  BY DEF ParseForIncrement
<1>4. TokenInv'
  BY <1>2, AdvanceKeepsType, StayKeepsType, StayWithoutKeepsType, OverflowType
     DEF Dropped
<1>5. {"forIncrementOp", "forParen", "forIncremented"} \subseteq Place
  BY DEF Place, StatementPlace
<1>6. TopLevelMin \in Int
  BY DEF TopLevelMin
<1>7. ControlInv'
  <2>1. CASE Goto("forIncrementOp", 0)
    BY <1>1, <1>5, <2>1, GotoKeepsInv
  <2>2. CASE \/ \E n \in {0, 1} : GotoWith("forParen", n, 0)
           \/ GotoWith("forParen", 1, 1)
    BY <1>1, <1>5, <2>2, GotoWithKeepsInv
  <2>3. CASE Call("expr", TopLevelMin, "forIncremented", 1)
    BY <1>1, <1>5, <1>6, <2>3, CallExpressionKeepsInv
  <2>4. QED BY <1>3, <2>1, <2>2, <2>3
<1>8. QED BY <1>4, <1>7

LEMMA ParseForStatementKeepsInv ==
  ASSUME ControlInv, TokenInv, ParseForStatement
  PROVE  ControlInv' /\ TokenInv'
<1>1. ~Done /\ Top.pc # "body" /\ Top.kind = "stmt"
  BY DEF ParseForStatement, InStatement, At
<1>2. \/ Advance(0) \/ Stay(0) \/ Stay(1) \/ Stay(Overflow)
  BY DEF ParseForStatement, Fail
<1>3. \/ \E pc \in {"forInit", "forSemicolon", "forBrace"} : Goto(pc, 0)
      \/ Goto("forIncrement", Acquired)
      \/ Call("expr", TopLevelMin, "forSemicolon", 0)
      \/ OpenBody(2 + Top.n)
      \/ \E d \in {0, 1 - Top.own, -1 - Top.n} : Return("empty", d)
      \/ Return("node", -1 - Top.n)
  BY DEF ParseForStatement, Fail
<1>4. TokenInv'
  BY <1>2, AdvanceKeepsType, StayKeepsType, OverflowType
<1>5. {"forInit", "forSemicolon", "forBrace", "forIncrement"} \subseteq
      Place
  BY DEF Place, StatementPlace
<1>6. Acquired \in Int /\ 1 - Top.own \in Int /\ -1 - Top.n \in Int /\ 2 + Top.n \in Int /\ TopLevelMin \in Int
  BY <1>1, TopIsFrame DEF Frame, Acquired, TopLevelMin
<1>7. ControlInv'
  <2>1. CASE \E pc \in {"forInit", "forSemicolon", "forBrace"} : Goto(pc, 0)
    BY <1>1, <1>5, <2>1, GotoKeepsInv
  <2>2. CASE Goto("forIncrement", Acquired)
    BY <1>1, <1>5, <1>6, <2>2, GotoKeepsInv
  <2>3. CASE Call("expr", TopLevelMin, "forSemicolon", 0)
    BY <1>1, <1>5, <1>6, <2>3, CallExpressionKeepsInv
  <2>4. CASE OpenBody(2 + Top.n)
    BY <1>1, <1>6, <2>4, OpenBodyKeepsInv
  <2>5. CASE \E d \in {0, 1 - Top.own, -1 - Top.n} : Return("empty", d)
    BY <1>1, <1>6, <2>5, ReturnKeepsInv DEF Result
  <2>6. CASE Return("node", -1 - Top.n)
    BY <1>1, <1>6, <2>6, ReturnKeepsInv DEF Result
  <2>7. QED BY <1>3, <2>1, <2>2, <2>3, <2>4, <2>5, <2>6
<1>8. QED BY <1>4, <1>7

LEMMA ParseExpressionPrecKeepsInv ==
  ASSUME ControlInv, TokenInv, ParseExpressionPrec
  PROVE  ControlInv' /\ TokenInv'
<1>1. ~Done /\ Top.pc # "body"
  BY DEF ParseExpressionPrec, InExpression, At
<1>2. \/ Stay(0) \/ Stay(1) \/ Advance(Overflow)
  BY DEF ParseExpressionPrec
<1>3. \/ CallPrimary("left") \/ Goto("operators", 1)
      \/ Goto("operators", 0) \/ Return("node", 0)
      \/ \E d \in {0, -1} : Return("null", d)
      \/ Call("expr", Precedence(tok) + 1, "right", 0)
  BY DEF ParseExpressionPrec
<1>4. TokenInv'
  BY <1>2, AdvanceKeepsType, StayKeepsType, OverflowType
<1>5. {"left", "operators", "right"} \subseteq Place
  BY DEF Place, ExpressionPlace
<1>6. Precedence(tok) + 1 \in Int
  BY DEF Precedence
<1>7. ControlInv'
  <2>1. CASE CallPrimary("left")
    BY <1>1, <1>5, <2>1, CallPrimaryKeepsInv
  <2>2. CASE \/ Goto("operators", 1) \/ Goto("operators", 0)
    BY <1>1, <1>5, <2>2, GotoKeepsInv
  <2>3. CASE \/ Return("node", 0)
           \/ \E d \in {0, -1} : Return("null", d)
    BY <1>1, <2>3, ReturnKeepsInv DEF Result
  <2>4. CASE Call("expr", Precedence(tok) + 1, "right", 0)
    BY <1>1, <1>5, <1>6, <2>4, CallExpressionKeepsInv
  <2>5. QED BY <1>3, <2>1, <2>2, <2>3, <2>4
<1>8. QED BY <1>4, <1>7

LEMMA ParsePrimaryKeepsInv ==
  ASSUME ControlInv, TokenInv, ParsePrimary
  PROVE  ControlInv' /\ TokenInv'
<1>1. ~Done /\ Top.pc # "body"
  BY DEF ParsePrimary, ParseUnary, InPrimary, At
<1>2. \/ Advance(0) \/ Advance(1) \/ Stay(0) \/ Stay(1)
      \/ Advance(Overflow)
  BY DEF ParsePrimary, ParseUnary
<1>3. \/ CallPrimary("unary") \/ Call("expr", TopLevelMin, "paren", 0)
      \/ Goto("identifier", 0) \/ Return("null", 0) \/ Return("node", 1)
      \/ Return(ret, Acquired)
  BY DEF ParsePrimary, ParseUnary
<1>4. TokenInv'
  BY <1>2, AdvanceKeepsType, StayKeepsType, OverflowType
<1>5. {"unary", "paren", "identifier"} \subseteq Place
  BY DEF Place, PrimaryPlace
<1>6. ret \in Result
  BY DEF ControlInv, ControlTypes
<1>7. Acquired \in Int /\ TopLevelMin \in Int
  BY DEF Acquired, TopLevelMin
<1>8. ControlInv'
  <2>1. CASE CallPrimary("unary")
    BY <1>1, <1>5, <2>1, CallPrimaryKeepsInv
  <2>2. CASE Call("expr", TopLevelMin, "paren", 0)
    BY <1>1, <1>5, <1>7, <2>2, CallExpressionKeepsInv
  <2>3. CASE Goto("identifier", 0)
    BY <1>1, <1>5, <2>3, GotoKeepsInv
  <2>4. CASE \/ Return("null", 0) \/ Return("node", 1) \/ Return(ret, Acquired)
    BY <1>1, <1>6, <1>7, <2>4, ReturnKeepsInv DEF Result
  <2>5. QED BY <1>3, <2>1, <2>2, <2>3, <2>4
<1>9. QED BY <1>4, <1>8

LEMMA ParseIdentifierKeepsInv ==
  ASSUME ControlInv, TokenInv, ParseIdentifier
  PROVE  ControlInv' /\ TokenInv'
<1>1. ~Done /\ Top.pc # "body"
  BY DEF ParseIdentifier, InPrimary, At
<1>2. \/ Advance(0) \/ Stay(0) \/ Stay(1)
  BY DEF ParseIdentifier
<1>3. \/ Goto("args", 1)
      \/ \E pc \in {"field", "fieldName"} : Goto(pc, 0)
      \/ GotoWith("index", 0, 0) \/ Return("null", 0)
      \/ Return("node", 1)
  BY DEF ParseIdentifier
<1>4. TokenInv'
  BY <1>2, AdvanceKeepsType, StayKeepsType
<1>5. {"args", "field", "fieldName", "index"} \subseteq Place
  BY DEF Place, PrimaryPlace
<1>6. ControlInv'
  <2>1. CASE \/ Goto("args", 1)
           \/ \E pc \in {"field", "fieldName"} : Goto(pc, 0)
    BY <1>1, <1>5, <2>1, GotoKeepsInv
  <2>2. CASE GotoWith("index", 0, 0)
    BY <1>1, <1>5, <2>2, GotoWithKeepsInv
  <2>3. CASE \/ Return("null", 0) \/ Return("node", 1)
    BY <1>1, <2>3, ReturnKeepsInv DEF Result
  <2>4. QED BY <1>3, <2>1, <2>2, <2>3
<1>7. QED BY <1>4, <1>6

LEMMA ParseArrayAccessKeepsInv ==
  ASSUME ControlInv, TokenInv, ParseArrayAccess
  PROVE  ControlInv' /\ TokenInv'
<1>1. ~Done /\ Top.pc # "body"
  BY DEF ParseArrayAccess, InPrimary, At
<1>2. \/ Advance(0) \/ Advance(1) \/ Stay(1)
  BY DEF ParseArrayAccess
<1>3. \/ Return("null", 0) \/ Return("node", 1)
  BY DEF ParseArrayAccess
<1>4. TokenInv'
  BY <1>2, AdvanceKeepsType, StayKeepsType
<1>5. ControlInv'
  <2>1. CASE \/ Return("null", 0) \/ Return("node", 1)
    BY <1>1, <2>1, ReturnKeepsInv DEF Result
  <2>2. QED BY <1>3, <2>1
<1>6. QED BY <1>4, <1>5

LEMMA ParseArrayIndexKeepsInv ==
  ASSUME ControlInv, TokenInv, ParseArrayIndex
  PROVE  ControlInv' /\ TokenInv'
<1>1. ~Done /\ Top.pc # "body"
  BY DEF ParseArrayIndex, InStatement, InPrimary, At
<1>2. \/ Advance(0) \/ Stay(0)
  BY DEF ParseArrayIndex
<1>3. \/ \E pc \in {"index", "indexEnd"} : Goto(pc, 0)
      \/ GotoWith("index", 0, 0) \/ GotoWith("index", Top.n - 1, 0)
      \/ GotoWith("index", Top.n + 1, 0)
  BY DEF ParseArrayIndex
<1>4. TokenInv'
  BY <1>2, AdvanceKeepsType, StayKeepsType
<1>5. {"index", "indexEnd"} \subseteq Place
  BY DEF Place, StatementPlace, PrimaryPlace
<1>6. Top.n - 1 \in Int /\ Top.n + 1 \in Int
  BY <1>1, TopIsFrame DEF Frame
<1>7. ControlInv'
  <2>1. CASE \E pc \in {"index", "indexEnd"} : Goto(pc, 0)
    BY <1>1, <1>5, <2>1, GotoKeepsInv
  <2>2. CASE GotoWith("index", 0, 0)
    BY <1>1, <1>5, <2>2, GotoWithKeepsInv
  <2>3. CASE GotoWith("index", Top.n - 1, 0)
    BY <1>1, <1>5, <1>6, <2>3, GotoWithKeepsInv
  <2>4. CASE GotoWith("index", Top.n + 1, 0)
    BY <1>1, <1>5, <1>6, <2>4, GotoWithKeepsInv
  <2>5. QED BY <1>3, <2>1, <2>2, <2>3, <2>4
<1>8. QED BY <1>4, <1>7

LEMMA ParseFunctionCallArgsKeepsInv ==
  ASSUME ControlInv, TokenInv, ParseFunctionCallArgs
  PROVE  ControlInv' /\ TokenInv'
<1>1. ~Done /\ Top.pc # "body"
  BY DEF ParseFunctionCallArgs, InStatement, InPrimary, At
<1>2. \/ Advance(0) \/ Stay(0) \/ Stay(1) \/ Stay(Overflow)
      \/ StayWithout("operand")
  BY DEF ParseFunctionCallArgs
<1>3. \/ \E pc \in {"argsEnd", "argsMore", "args"} : Goto(pc, 0)
      \/ Call("expr", TopLevelMin, "argsComma", 0) \/ Return("node", 0)
      \/ Return("null", -1)
  BY DEF ParseFunctionCallArgs
<1>4. TokenInv'
  BY <1>2, AdvanceKeepsType, StayKeepsType, StayWithoutKeepsType, OverflowType
     DEF Dropped
<1>5. {"argsEnd", "argsMore", "args", "argsComma"} \subseteq Place
  BY DEF Place, StatementPlace, PrimaryPlace
<1>6. TopLevelMin \in Int
  BY DEF TopLevelMin
<1>7. ControlInv'
  <2>1. CASE \E pc \in {"argsEnd", "argsMore", "args"} : Goto(pc, 0)
    BY <1>1, <1>5, <2>1, GotoKeepsInv
  <2>2. CASE Call("expr", TopLevelMin, "argsComma", 0)
    BY <1>1, <1>5, <1>6, <2>2, CallExpressionKeepsInv
  <2>3. CASE \/ Return("node", 0) \/ Return("null", -1)
    BY <1>1, <2>3, ReturnKeepsInv DEF Result
  <2>4. QED BY <1>3, <2>1, <2>2, <2>3
<1>8. QED BY <1>4, <1>7

\* A jump is parsed only inside a loop; every other statement is begun or called.
LEMMA ParseStatementKeepsInv ==
  ASSUME ControlInv, TokenInv, ParseStatement
  PROVE  ControlInv' /\ TokenInv'
<1>1. ~Done /\ Top.pc # "body"
  BY DEF ParseStatement, InStatement, At
<1>2. \/ Advance(0) \/ Advance(Overflow) \/ Stay(0) \/ Stay(1)
      \/ Discard("statement")
  BY DEF ParseStatement, Fail
<1>3. \/ At("stmt", "entry") /\ loopDepth > 0 /\ Goto("jumpEnd", 0)
      \/ \E pc \in {"declStruct", "declName", "assign", "skip"} : Goto(pc, 0)
      \/ Call("expr", TopLevelMin, "returnEnd", 0)
      \/ \E c \in {"if", "while", "for"} : Begin(c, "open")
      \/ Return("empty", 0)
  BY DEF ParseStatement, Fail, InStatement
<1>4. TokenInv'
  BY <1>2, AdvanceKeepsType, DiscardKeepsType, StayKeepsType, OverflowType
     DEF Dropped
<1>5. {"declStruct", "declName", "assign", "skip", "returnEnd", "open"}
        \subseteq Place
  BY DEF Place, StatementPlace
<1>6. TopLevelMin \in Int
  BY DEF TopLevelMin
<1>7. ControlInv'
  <2>1. CASE At("stmt", "entry") /\ loopDepth > 0 /\ Goto("jumpEnd", 0)
    BY <2>1, JumpKeepsInv
  <2>2. CASE \E pc \in {"declStruct", "declName", "assign", "skip"} : Goto(pc, 0)
    BY <1>1, <1>5, <2>2, GotoKeepsInv
  <2>3. CASE Call("expr", TopLevelMin, "returnEnd", 0)
    BY <1>1, <1>5, <1>6, <2>3, CallExpressionKeepsInv
  <2>4. CASE \E c \in {"if", "while", "for"} : Begin(c, "open")
    BY <1>1, <1>5, <2>4, BeginKeepsInv DEF Construct
  <2>5. CASE Return("empty", 0)
    BY <1>1, <2>5, ReturnKeepsInv DEF Result
  <2>6. QED BY <1>3, <2>1, <2>2, <2>3, <2>4, <2>5
<1>8. QED BY <1>4, <1>7

\* A statement between braces is called from the body and comes back to it.
LEMMA ParseBodyKeepsInv ==
  ASSUME ControlInv, TokenInv, ParseBody
  PROVE  ControlInv' /\ TokenInv'
<1>1. At("stmt", "body")
  BY DEF ParseBody, InStatement
<1>2. Stay(Overflow) \/ Stay(0)
  BY DEF ParseBody
<1>3. Call("stmt", 0, "body", 0) \/ LeaveBody
  BY DEF ParseBody
<1>4. TokenInv'
  BY <1>2, StayKeepsType, OverflowType
<1>5. ~Done /\ Top.pc = "body"
  BY <1>1 DEF At
<1>6. "body" \in Place /\ "stmt" \in Guarded
  BY DEF Place, StatementPlace, Guarded
<1>7. ControlInv'
  BY <1>1, <1>3, <1>5, <1>6, CallKeepsInv, LeaveBodyKeepsInv
<1>8. QED BY <1>4, <1>7

-----------------------------------------------------------------------------
(* The inductive invariant and the theorems. *)

IInv == ControlInv /\ TokenInv

LEMMA InitEstablishesInv ==
  ASSUME Init
  PROVE  IInv
<1>1. New("program", 0) \in Frame
  BY DEF New, Frame, Kind, Construct, Place, ProgramPlace
<1>2. stack \in Seq(Frame) /\ Len(stack) = 1 /\ stack[1] = New("program", 0)
  BY <1>1 DEF Init
<1>3. DOMAIN stack = {1}
  BY <1>2
<1>4. ControlTypes
  BY <1>2 DEF Init, ControlTypes, Result
<1>5. Activations = {} /\ OpenLoops = {}
  BY <1>2, <1>3 DEF Activations, OpenLoops, OpenLoop, New, Guarded
<1>6. DepthCountsActivations /\ LoopDepthCountsOpenLoops
  BY <1>5, FS_EmptySet DEF Init, DepthCountsActivations, LoopDepthCountsOpenLoops
<1>7. JumpInsideLoop
  BY <1>2, <1>3 DEF JumpInsideLoop, New
<1>8. depth <= MaxDepth
  BY ParserAssumption DEF Init
<1>9. TokenInv
  BY ParserAssumption DEF Init, TokenInv
<1>10. QED BY <1>4, <1>6, <1>7, <1>8, <1>9 DEF IInv, ControlInv

LEMMA NextKeepsInv ==
  ASSUME IInv, [Next]_vars
  PROVE  IInv'
<1>1. ControlInv /\ TokenInv
  BY DEF IInv
<1>2. CASE ProgramStep
  BY <1>1, <1>2, ParseProgramKeepsInv, ParseStructDeclarationKeepsInv,
     ParseFunctionDeclarationKeepsInv, SkipToSyncPointKeepsInv,
     SkipToSemicolonKeepsInv, ParseFunctionParametersKeepsInv,
     ParseSingleParameterKeepsInv, ParseFunctionBodyKeepsInv,
     ParseStructKeepsInv, ParseStructFieldKeepsInv
     DEF ProgramStep, IInv
<1>3. CASE StatementStep
  BY <1>1, <1>3, ParseStatementKeepsInv, ParseJumpKeepsInv, ParseReturnKeepsInv,
     ParseVariableDeclarationKeepsInv, ParseInitializerListKeepsInv,
     ParseAssignmentOrExpressionKeepsInv, ParseLhsExpressionKeepsInv,
     ParseStandaloneFunctionCallKeepsInv, ParseHeaderKeepsInv,
     ParseBodyKeepsInv, ParseIfStatementKeepsInv, ParseWhileStatementKeepsInv,
     ParseElseBlocksKeepsInv, ParseForInitKeepsInv, ParseForIncrementKeepsInv,
     ParseForStatementKeepsInv
     DEF StatementStep, IInv
<1>4. CASE ExpressionStep
  BY <1>1, <1>4, ParseExpressionPrecKeepsInv, ParsePrimaryKeepsInv,
     ParseIdentifierKeepsInv, ParseArrayAccessKeepsInv,
     ParseArrayIndexKeepsInv, ParseFunctionCallArgsKeepsInv
     DEF ExpressionStep, IInv
<1>5. CASE UNCHANGED vars
  <2>1. ControlInv'
    BY <1>1, <1>5
       DEF ControlInv, ControlTypes, DepthCountsActivations, Activations,
           LoopDepthCountsOpenLoops, OpenLoops, OpenLoop, JumpInsideLoop, vars
  <2>2. TokenInv'
    BY <1>1, <1>5 DEF TokenInv, vars
  <2>3. QED BY <2>1, <2>2 DEF IInv
<1>6. QED BY <1>2, <1>3, <1>4, <1>5 DEF Next, Finished

\* The invariant holds in every reachable state.
THEOREM Invariance == Spec => []IInv
<1>1. Init => IInv
  BY InitEstablishesInv
<1>2. IInv /\ [Next]_vars => IInv'
  BY NextKeepsInv
<1>3. QED BY <1>1, <1>2, PTL DEF Spec

\* The counters are at least 0 because they count frames.
LEMMA CountersAreNatural ==
  ASSUME ControlInv
  PROVE  depth \in Nat /\ loopDepth \in Nat
<1>1. stack \in Seq(Frame)
  BY DEF ControlInv, ControlTypes
<1>2. Activations \in SUBSET DOMAIN stack /\ OpenLoops \in SUBSET DOMAIN stack
  BY DEF Activations, OpenLoops
<1>3. Cardinality(Activations) \in Nat /\ Cardinality(OpenLoops) \in Nat
  BY <1>1, <1>2, FramesFinite
<1>4. QED
  BY <1>3 DEF ControlInv, DepthCountsActivations, LoopDepthCountsOpenLoops

\* For every nesting limit, token alphabet and input length the variables keep
\* their types; in particular ctx->depth never leaves 0..GATES_MAX_PARSE_DEPTH.
THEOREM TypeCorrect == Spec => []TypeOK
<1>1. IInv => TypeOK
  <2>1. SUFFICES ASSUME IInv PROVE TypeOK
    OBVIOUS
  <2>2. depth \in Nat /\ loopDepth \in Nat
    BY <2>1, CountersAreNatural DEF IInv
  <2>3. depth \in 0..MaxDepth
    BY <2>1, <2>2, ParserAssumption DEF IInv, ControlInv
  <2>4. QED
    BY <2>1, <2>2, <2>3 DEF IInv, ControlInv, ControlTypes, TokenInv, TypeOK
<1>2. QED BY <1>1, Invariance, PTL

\* ctx->depth counts the parse_statement and parse_expression_prec activations
\* on the C stack at every moment: no return path misses its decrement.
THEOREM DepthIsExact == Spec => []DepthCountsActivations
<1>1. IInv => DepthCountsActivations
  BY DEF IInv, ControlInv
<1>2. QED BY <1>1, Invariance, PTL

\* s_loop_depth counts the open loop bodies at every moment.
THEOREM LoopDepthIsExact == Spec => []LoopDepthCountsOpenLoops
<1>1. IInv => LoopDepthCountsOpenLoops
  BY DEF IInv, ControlInv
<1>2. QED BY <1>1, Invariance, PTL

\* A break or continue that is accepted stands inside a loop.
THEOREM JumpsAreInLoops == Spec => []JumpInsideLoop
<1>1. IInv => JumpInsideLoop
  BY DEF IInv, ControlInv
<1>2. QED BY <1>1, Invariance, PTL

\* Whatever the input, parse_program returns with both counters at 0, so the
\* static s_loop_depth needs no reset between two parses.
CountersRestored == Done => depth = 0 /\ loopDepth = 0

\* Stated of every behaviour.
THEOREM CountersAreRestored == Spec => []CountersRestored
<1>1. IInv => CountersRestored
  <2>1. SUFFICES ASSUME IInv, Done PROVE depth = 0 /\ loopDepth = 0
    BY DEF CountersRestored
  <2>2. DOMAIN stack = {}
    BY <2>1 DEF Done
  <2>3. Activations = {} /\ OpenLoops = {}
    BY <2>2 DEF Activations, OpenLoops
  <2>4. QED
    BY <2>1, <2>3, FS_EmptySet
       DEF IInv, ControlInv, DepthCountsActivations, LoopDepthCountsOpenLoops
<1>2. QED BY <1>1, Invariance, PTL

-----------------------------------------------------------------------------
(* Nodes: the inductive invariant. *)

\* The parsers of a declaration statement, from its first token on.
Declaring == {"declStruct", "declName", "declDim", "declSize", "declSizeEnd",
              "declInit", "declValue", "declGarbage", "declSkip", "initList",
              "declEnd"}
\* The header of a for statement, and the arguments of a call.
ForHeader == {"forInit", "forDeclared", "forIdent", "forAssigned",
              "forDiscarded", "forInitDone", "forCondition", "forSemicolon",
              "forIncrement", "forIncrementOp", "forIncremented", "forParen",
              "forBrace"}
Arguments == {"args", "argsComma", "argsMore", "argsEnd"}

\* parse_program owns the program node, and the declaration it is parsing.
ProgramOwns(pc) ==
  IF pc \in {"entry", "top", "structName", "structAfterName", "structFunction",
             "sync", "semicolon", "functionName", "functionParen"} THEN 1
  ELSE IF pc = "fieldEnd" THEN 3 ELSE 2

\* A statement owns its wrapper, and what is not attached to it yet.
StatementFits(c, pc, n, own) ==
  /\ pc \in StatementPlace
  /\ pc \in {"entry", "skip", "jumpEnd", "returnEnd", "declStruct", "declName",
             "assign", "equals", "lhs", "lhsField", "index", "indexEnd",
             "forInit", "forDeclared", "forIdent", "forDiscarded"} => own = 1
  /\ pc \in {"declDim", "declSize", "declSizeEnd", "declInit", "declValue",
             "declGarbage", "declSkip", "declEnd", "assignEnd", "assignDone",
             "assignSkip", "else", "elseKind", "elseBody", "forAssigned"}
         \cup Arguments => own = 2
  /\ pc = "initList" => own = 3
  /\ pc = "callEnd" => own \in {1, 2}
  /\ pc \in {"open", "condition"} => own = IF c = "elseif" THEN 2 ELSE 1
  /\ pc \in {"closeParen", "openBrace"} => own = IF c = "elseif" THEN 3 ELSE 2
  /\ pc \in {"body", "close"} =>
       own = IF c \in {"elseif", "else"} THEN 3
             ELSE IF c = "for" THEN 2 + n ELSE 2
  /\ pc \in ForHeader => own >= 1 /\ c = "for"
  /\ pc \in {"forParen", "forBrace", "body", "close"} /\ c = "for" => n >= 0
  /\ pc = "elseBody" => c = "else"

\* A frame stands at a place of its kind and owns what it owns there.
Fits(kind, c, pc, n, own) ==
  /\ kind = "program" => pc \in ProgramPlace /\ own = ProgramOwns(pc)
  /\ kind = "stmt" => StatementFits(c, pc, n, own)
  /\ kind = "expr" => /\ pc \in ExpressionPlace
                      /\ own = IF pc \in {"operators", "right"} THEN 1 ELSE 0
  /\ kind = "prim" => /\ pc \in PrimaryPlace
                      /\ own = IF pc \in Arguments THEN 1 ELSE 0

\* The places a parser stands at while one of the kind `callee` runs.
WaitsFor(kind, pc, callee) ==
  /\ callee # "program"
  /\ callee = "stmt" => \/ kind = "program" /\ pc = "functionBody"
                        \/ kind = "stmt" /\ pc \in {"body", "forDeclared"}
  /\ callee = "expr" =>
       \/ /\ kind = "stmt"
          /\ pc \in {"returnEnd", "declGarbage", "assignEnd", "argsComma",
                     "condition", "forAssigned", "forDiscarded",
                     "forSemicolon", "forIncremented"}
       \/ kind = "expr" /\ pc = "right"
       \/ kind = "prim" /\ pc \in {"paren", "argsComma"}
  /\ callee = "prim" => \/ kind = "expr" /\ pc = "left"
                        \/ kind = "prim" /\ pc = "unary"

\* An operand parser returns an operand or nothing; a statement is begun
\* without a diagnostic, and the header of a for loop can only have got one
\* from the lexer, for the token it then stops at.
Settled(kind, c, pc, result, failed, token) ==
  /\ kind = "prim" /\ pc \in {"unary", "paren"} => result \in {"null", "node"}
  /\ kind = "stmt" /\ pc = "forDeclared" /\ result = "empty" => failed
  /\ kind = "stmt" /\ pc = "entry" => ~failed
  /\ kind = "stmt" /\ c = "for" /\ pc \in {"open", "forInit"} /\ failed =>
       token = "longid"

\* A statement at this place is, or will be, a declaration.
Declares(pc) == pc \in Declaring \/ (pc = "entry" /\ tok = "type")

\* The conjuncts of the invariant: each activation owns what its place says;
\* each is waiting for the one above it; what the innermost knows of errors; a
\* for init declares what it was entered for; nothing lost without an error.
FramesFit == \A i \in DOMAIN stack : Fits(stack[i].kind, stack[i].c,
                                          stack[i].pc, stack[i].n, stack[i].own)
CallsMatch ==
  /\ ~Done => stack[1].kind = "program"
  /\ \A i \in DOMAIN stack :
       i # Len(stack) => WaitsFor(stack[i].kind, stack[i].pc, stack[i + 1].kind)
TopSettled ==
  ~Done => Settled(Top.kind, Top.c, Top.pc, ret, HasErrors, tok)
\* The statement called for the initialization of a loop is a declaration.
ForDeclares ==
  \A i \in DOMAIN stack :
    i # Len(stack) /\ stack[i].pc = "forDeclared" =>
      \/ stack[i + 1].pc \in Declaring
      \/ i + 1 = Len(stack) /\ Declares(stack[i + 1].pc)
NothingLost == lost >= 0 /\ (~HasErrors => lost = 0)

NodeInv == FramesFit /\ CallsMatch /\ TopSettled /\ ForDeclares /\ NothingLost

-----------------------------------------------------------------------------
(* What the token operators do to the diagnostics. *)

\* Reading a token withdraws no diagnostic; without a report of the parser's own
\* only an identifier the lexer truncates adds one.
LEMMA AdvanceLogs ==
  ASSUME TokenInv
  PROVE  \A k \in 0..2 : Advance(k) =>
           /\ HasErrors => HasErrors'
           /\ k > 0 => HasErrors'
           /\ ~HasErrors /\ k = 0 /\ HasErrors' => tok' = "longid"
BY DEF Advance, AdvanceLogging, Plus, HasErrors, TokenInv

\* Passing over a token withdraws no diagnostic.
LEMMA DiscardLogs ==
  ASSUME TokenInv
  PROVE  \A what \in Dropped : Discard(what) => (HasErrors => HasErrors')
BY DEF Discard, AdvanceLogging, Plus, HasErrors, TokenInv

\* A report without a token read leaves the token, and adds what it says.
LEMMA StayLogs ==
  ASSUME TokenInv
  PROVE  \A k \in 0..2 : Stay(k) =>
           /\ tok' = tok
           /\ HasErrors => HasErrors'
           /\ k > 0 => HasErrors'
           /\ k = 0 => (HasErrors' <=> HasErrors)
BY DEF Stay, Plus, HasErrors, TokenInv

\* Ignoring input without a token read adds no diagnostic.
LEMMA StayWithoutLogs ==
  \A what \in Dropped : StayWithout(what) => (HasErrors' <=> HasErrors)
BY DEF StayWithout, HasErrors

\* The seek of a for init withdraws no diagnostic.
LEMMA RewindLogs ==
  ASSUME TokenInv
  PROVE  \A k \in 0..2 : Rewind(k) => (HasErrors => HasErrors')
BY DEF Rewind, Plus, HasErrors, TokenInv

-----------------------------------------------------------------------------
(* The control operators preserve the invariant. *)

\* What is known of the innermost frame.
LEMMA TopFits ==
  ASSUME ControlInv, NodeInv, ~Done
  PROVE  /\ Top \in Frame /\ Top.own \in Int /\ Top.n \in Int
         /\ Fits(Top.kind, Top.c, Top.pc, Top.n, Top.own)
         /\ Settled(Top.kind, Top.c, Top.pc, ret, HasErrors, tok)
<1>1. Top \in Frame /\ Len(stack) \in DOMAIN stack
  BY TopIsFrame
<1>2. QED
  BY <1>1 DEF Frame, NodeInv, FramesFit, TopSettled, Top

\* The arrival of the innermost frame at a place.
Arrives(c, pc, n, own) ==
  /\ Fits(Top.kind, c, pc, n, own)
  /\ Settled(Top.kind, c, pc, ret', HasErrors', tok')
  /\ Top.kind = "stmt" /\ Declares(Top.pc) => pc \in Declaring
  /\ HasErrors => HasErrors'

\* The innermost activation may move to a place it arrives at with what it owns.
LEMMA MoveKeepsNodes ==
  ASSUME ControlInv, NodeInv, ~Done, NEW f \in Frame, Becomes(f),
         f.kind = Top.kind, Arrives(f.c, f.pc, f.n, f.own), NothingLost'
  PROVE  NodeInv'
<1> DEFINE k == Len(stack)
<1>1. Top \in Frame /\ ControlTypes /\ stack[k] = Top /\ stack \in Seq(Frame)
  BY TopIsFrame DEF ControlInv, ControlTypes, Top
<1>3. /\ stack' \in Seq(Frame) /\ Len(stack') = k /\ DOMAIN stack' = DOMAIN stack
      /\ k \in DOMAIN stack /\ stack'[k] = f
      /\ \A i \in DOMAIN stack : i # k => stack'[i] = stack[i]
  BY <1>1, TopUpdated
<1>4. ~Done' /\ Top' = f
  BY <1>3, <1>1 DEF Done, Top
<1>5. k \in Nat /\ DOMAIN stack = 1..k
  BY <1>1
<1> HIDE DEF k
<1>6. FramesFit'
  BY <1>3 DEF NodeInv, FramesFit, Arrives
<1>7. CallsMatch'
  <2>1. \A i \in DOMAIN stack : stack'[i].kind = stack[i].kind
    BY <1>1, <1>3
  <2>2. ~Done' => stack'[1].kind = "program"
    BY <1>3, <1>5, <2>1 DEF NodeInv, CallsMatch
  <2>3. ASSUME NEW i \in DOMAIN stack, i # k
        PROVE  WaitsFor(stack'[i].kind, stack'[i].pc, stack'[i + 1].kind)
    <3>1. i + 1 \in DOMAIN stack
      BY <1>5, <2>3
    <3>2. WaitsFor(stack[i].kind, stack[i].pc, stack[i + 1].kind)
      BY <2>3 DEF NodeInv, CallsMatch, k
    <3>3. QED BY <1>3, <2>1, <2>3, <3>1, <3>2
  <2>4. QED BY <1>3, <2>2, <2>3 DEF CallsMatch, k
<1>8. TopSettled'
  BY <1>4 DEF TopSettled, Arrives
<1>9. ForDeclares'
  <2>1. SUFFICES ASSUME NEW i \in DOMAIN stack, i # k, stack'[i].pc = "forDeclared"
                 PROVE  stack'[i + 1].pc \in Declaring
    BY <1>3 DEF ForDeclares, k
  <2>2. i + 1 \in DOMAIN stack /\ stack[i] = stack'[i]
    BY <1>3, <1>5, <2>1
  <2>3. \/ stack[i + 1].pc \in Declaring
        \/ i + 1 = k /\ Declares(stack[i + 1].pc)
    BY <2>1, <2>2 DEF NodeInv, ForDeclares, k
  <2>4. CASE i + 1 # k
    BY <1>3, <2>2, <2>3, <2>4
  <2>5. CASE i + 1 = k
    <3>1. Declares(Top.pc)
      BY <1>1, <2>3, <2>5 DEF Declares, k
    <3>2. WaitsFor(stack[i].kind, "forDeclared", Top.kind)
      BY <1>1, <2>1, <2>2, <2>5 DEF NodeInv, CallsMatch, k
    <3>3. Top.kind = "stmt"
      BY <1>1, <3>2 DEF WaitsFor, Frame, Kind
    <3>4. QED BY <1>3, <2>5, <3>1, <3>3 DEF Arrives
  <2>6. QED BY <2>4, <2>5
<1>10. QED BY <1>6, <1>7, <1>8, <1>9 DEF NodeInv

\* Nothing is lost by a step that keeps the count and the diagnostics.
LEMMA LostKept ==
  ASSUME NodeInv, lost' = lost, HasErrors => HasErrors'
  PROVE  NothingLost'
BY DEF NodeInv, NothingLost

\* Goto, by MoveKeepsNodes.
LEMMA GotoKeepsNodes ==
  ASSUME ControlInv, NodeInv, ~Done
  PROVE  \A pc, d :
           /\ Goto(pc, d) /\ pc \in Place /\ d \in Int
           /\ Arrives(Top.c, pc, Top.n, Top.own + d)
           => NodeInv'
<1> SUFFICES ASSUME NEW pc \in Place, NEW d \in Int, Goto(pc, d),
                    Arrives(Top.c, pc, Top.n, Top.own + d)
             PROVE  NodeInv'
  OBVIOUS
<1>1. Top \in Frame /\ Top.own + d \in Int
  BY TopFits
<1> DEFINE f == [Top EXCEPT !.pc = pc, !.own = @ + d]
<1>2. /\ f \in Frame /\ f.kind = Top.kind /\ f.c = Top.c /\ f.pc = pc
      /\ f.n = Top.n /\ f.own = Top.own + d
  BY <1>1 DEF Frame
<1>3. Becomes(f) /\ lost' = lost
  BY DEF Goto
<1> HIDE DEF f
<1>4. NothingLost'
  BY <1>3, LostKept DEF Arrives
<1>5. QED BY <1>2, <1>3, <1>4, MoveKeepsNodes

\* GotoWith, by MoveKeepsNodes.
LEMMA GotoWithKeepsNodes ==
  ASSUME ControlInv, NodeInv, ~Done
  PROVE  \A pc, n, d :
           /\ GotoWith(pc, n, d) /\ pc \in Place /\ n \in Int /\ d \in Int
           /\ Arrives(Top.c, pc, n, Top.own + d)
           => NodeInv'
<1> SUFFICES ASSUME NEW pc \in Place, NEW n \in Int, NEW d \in Int,
                    GotoWith(pc, n, d), Arrives(Top.c, pc, n, Top.own + d)
             PROVE  NodeInv'
  OBVIOUS
<1>1. Top \in Frame /\ Top.own + d \in Int
  BY TopFits
<1> DEFINE f == [Top EXCEPT !.pc = pc, !.n = n, !.own = @ + d]
<1>2. /\ f \in Frame /\ f.kind = Top.kind /\ f.c = Top.c /\ f.pc = pc
      /\ f.n = n /\ f.own = Top.own + d
  BY <1>1 DEF Frame
<1>3. Becomes(f) /\ lost' = lost
  BY DEF GotoWith
<1> HIDE DEF f
<1>4. NothingLost'
  BY <1>3, LostKept DEF Arrives
<1>5. QED BY <1>2, <1>3, <1>4, MoveKeepsNodes

\* A node is lost on purpose only after a diagnostic.
LEMMA GotoLeakingKeepsNodes ==
  ASSUME ControlInv, NodeInv, ~Done
  PROVE  \A pc \in Place :
           GotoLeaking(pc) /\ Arrives(Top.c, pc, Top.n, Top.own) /\ HasErrors
             => NodeInv'
<1> SUFFICES ASSUME NEW pc \in Place, GotoLeaking(pc), HasErrors,
                    Arrives(Top.c, pc, Top.n, Top.own)
             PROVE  NodeInv'
  OBVIOUS
<1>1. Top \in Frame
  BY TopFits
<1> DEFINE f == [Top EXCEPT !.pc = pc]
<1>2. /\ f \in Frame /\ f.kind = Top.kind /\ f.c = Top.c /\ f.pc = pc
      /\ f.n = Top.n /\ f.own = Top.own
  BY <1>1 DEF Frame
<1>3. Becomes(f) /\ lost' = lost + 1
  BY DEF GotoLeaking
<1> HIDE DEF f
<1>4. NothingLost'
  BY <1>3 DEF Arrives, NodeInv, NothingLost, ControlInv, ControlTypes
<1>5. QED BY <1>2, <1>3, <1>4, MoveKeepsNodes

\* Begin, by MoveKeepsNodes.
LEMMA BeginKeepsNodes ==
  ASSUME ControlInv, NodeInv, ~Done
  PROVE  \A c \in Construct, pc \in Place :
           Begin(c, pc) /\ Arrives(c, pc, Top.n, Top.own) => NodeInv'
<1> SUFFICES ASSUME NEW c \in Construct, NEW pc \in Place, Begin(c, pc),
                    Arrives(c, pc, Top.n, Top.own)
             PROVE  NodeInv'
  OBVIOUS
<1>1. Top \in Frame
  BY TopFits
<1> DEFINE f == [Top EXCEPT !.pc = pc, !.c = c]
<1>2. /\ f \in Frame /\ f.kind = Top.kind /\ f.c = c /\ f.pc = pc
      /\ f.n = Top.n /\ f.own = Top.own
  BY <1>1 DEF Frame
<1>3. Becomes(f) /\ lost' = lost
  BY DEF Begin
<1> HIDE DEF f
<1>4. NothingLost'
  BY <1>3, LostKept DEF Arrives
<1>5. QED BY <1>2, <1>3, <1>4, MoveKeepsNodes

\* OpenBody, by MoveKeepsNodes.
LEMMA OpenBodyKeepsNodes ==
  ASSUME ControlInv, NodeInv, ~Done
  PROVE  \A own \in Int :
           OpenBody(own) /\ Arrives(Top.c, "body", Top.n, own) => NodeInv'
<1> SUFFICES ASSUME NEW own \in Int, OpenBody(own),
                    Arrives(Top.c, "body", Top.n, own)
             PROVE  NodeInv'
  OBVIOUS
<1>1. Top \in Frame /\ "body" \in Place
  BY TopFits DEF Place, StatementPlace
<1> DEFINE f == [Top EXCEPT !.pc = "body", !.own = own]
<1>2. /\ f \in Frame /\ f.kind = Top.kind /\ f.c = Top.c /\ f.pc = "body"
      /\ f.n = Top.n /\ f.own = own
  BY <1>1 DEF Frame
<1>3. Becomes(f) /\ lost' = lost
  BY DEF OpenBody
<1> HIDE DEF f
<1>4. NothingLost'
  BY <1>3, LostKept DEF Arrives
<1>5. QED BY <1>2, <1>3, <1>4, MoveKeepsNodes

\* LeaveBody, by MoveKeepsNodes.
LEMMA LeaveBodyKeepsNodes ==
  ASSUME ControlInv, NodeInv, ~Done, LeaveBody,
         Arrives(Top.c, "close", Top.n, Top.own)
  PROVE  NodeInv'
<1>1. Top \in Frame /\ "close" \in Place
  BY TopFits DEF Place, StatementPlace
<1> DEFINE f == [Top EXCEPT !.pc = "close"]
<1>2. /\ f \in Frame /\ f.kind = Top.kind /\ f.c = Top.c /\ f.pc = "close"
      /\ f.n = Top.n /\ f.own = Top.own
  BY <1>1 DEF Frame
<1>3. Becomes(f) /\ lost' = lost
  BY DEF LeaveBody
<1> HIDE DEF f
<1>4. NothingLost'
  BY <1>3, LostKept DEF Arrives
<1>5. QED BY <1>2, <1>3, <1>4, MoveKeepsNodes

\* A parser stays behind at pc and waits for one of the kind `callee`.
Waits(callee, pc, d) ==
  /\ Fits(Top.kind, Top.c, pc, Top.n, Top.own + d)
  /\ WaitsFor(Top.kind, pc, callee)
  /\ Top.kind = "stmt" /\ Declares(Top.pc) => pc \in Declaring
  /\ HasErrors => HasErrors'

\* A call from a place where the caller waits for that parser, with what it owns
\* there; a statement is entered only while no error is reported.
LEMMA PushKeepsNodes ==
  ASSUME ControlInv, NodeInv, ~Done, NEW kind \in Kind, NEW n \in Int,
         NEW pc \in Place, NEW d \in Int, Waits(kind, pc, d),
         stack' = Push(kind, n, pc, d), lost' = lost, kind = "stmt" => ~HasErrors',
         pc = "forDeclared" => tok' = "type"
  PROVE  NodeInv'
<1> DEFINE f == [Top EXCEPT !.pc = pc, !.own = @ + d]
           t == [stack EXCEPT ![Len(stack)] = f]
           g == New(kind, n)
           k == Len(stack)
<1>1. /\ Top \in Frame /\ Top.own + d \in Int /\ stack \in Seq(Frame)
      /\ stack # <<>> /\ stack[k] = Top
  BY TopFits DEF ControlInv, ControlTypes, Done, Top
<1>2. /\ f \in Frame /\ f.kind = Top.kind /\ f.c = Top.c /\ f.pc = pc
      /\ f.n = Top.n /\ f.own = Top.own + d
  BY <1>1 DEF Frame
<1>3. /\ g \in Frame /\ g.kind = kind /\ g.pc = "entry" /\ g.c = "-"
      /\ g.own = IF kind \in {"program", "stmt"} THEN 1 ELSE 0
  BY DEF New, Frame, Place, ExpressionPlace, Construct
<1>4. stack' = Append(t, g)
  BY DEF Push
<1> HIDE DEF f, g
<1>5. /\ t \in Seq(Frame) /\ Len(t) = k
      /\ DOMAIN t = DOMAIN stack /\ k \in DOMAIN stack
      /\ t[k] = f /\ \A i \in DOMAIN stack : i # k => t[i] = stack[i]
  BY <1>1, <1>2, ReplaceTop
<1> HIDE DEF t
<1>6. /\ stack' \in Seq(Frame) /\ Len(stack') = k + 1
      /\ k \in Nat /\ DOMAIN stack = 1..k /\ DOMAIN stack' = 1..(k + 1)
      /\ stack'[k + 1] = g /\ stack'[k] = f
      /\ \A i \in 1..k : i # k => stack'[i] = stack[i]
  <2>1. /\ Append(t, g) \in Seq(Frame)
        /\ Len(t) \in Nat /\ DOMAIN t = 1..Len(t)
        /\ DOMAIN Append(t, g) = 1..(Len(t) + 1)
        /\ Append(t, g)[Len(t) + 1] = g
        /\ \A i \in 1..Len(t) : Append(t, g)[i] = t[i]
    BY <1>3, <1>5, AddTop
  <2>2. Len(stack') = Len(t) + 1
    BY <1>3, <1>4, <1>5
  <2> HIDE DEF k
  <2>3. QED BY <1>4, <1>5, <2>1, <2>2
<1>7. ~Done' /\ Top' = g /\ k >= 1
  <2> HIDE DEF k
  <2>1. stack' # <<>> /\ k >= 1
    BY <1>5, <1>6
  <2>2. QED BY <1>6, <2>1 DEF Done, Top
<1> HIDE DEF k
<1>8. FramesFit'
  <2>1. Fits(kind, "-", "entry", g.n, g.own)
    BY <1>3 DEF Fits, ProgramOwns, StatementFits, ProgramPlace, StatementPlace,
                ExpressionPlace, PrimaryPlace, ForHeader, Arguments
  <2>2. QED BY <1>2, <1>3, <1>6, <2>1 DEF NodeInv, FramesFit, Waits
<1>9. CallsMatch'
  <2>1. \A i \in 1..k : stack'[i].kind = stack[i].kind
    BY <1>1, <1>2, <1>6
  <2>2. stack'[1].kind = "program"
    BY <1>7, <1>6, <2>1 DEF NodeInv, CallsMatch
  <2>3. ASSUME NEW i \in 1..k
        PROVE  WaitsFor(stack'[i].kind, stack'[i].pc, stack'[i + 1].kind)
    <3>1. CASE i = k
      BY <1>2, <1>3, <1>6, <3>1 DEF Waits
    <3>2. CASE i # k
      <4>1. i + 1 \in 1..k
        BY <1>6, <3>2
      <4>2. WaitsFor(stack[i].kind, stack[i].pc, stack[i + 1].kind)
        BY <1>6, <3>2 DEF NodeInv, CallsMatch, k
      <4>3. QED BY <1>6, <2>1, <3>2, <4>1, <4>2
    <3>3. QED BY <3>1, <3>2
  <2>4. QED BY <1>6, <2>2, <2>3 DEF CallsMatch
<1>10. TopSettled'
  BY <1>3, <1>7 DEF TopSettled, Settled
<1>11. ForDeclares'
  <2>1. SUFFICES ASSUME NEW i \in 1..k, stack'[i].pc = "forDeclared"
                 PROVE  \/ stack'[i + 1].pc \in Declaring
                        \/ /\ i = k /\ tok' = "type"
                           /\ stack'[i + 1].pc = "entry"
    BY <1>6 DEF ForDeclares, Declares
  <2>2. CASE i = k
    BY <1>2, <1>3, <1>6, <2>1, <2>2
  <2>3. CASE i # k
    <3>1. i + 1 \in 1..k /\ stack[i].pc = "forDeclared"
      BY <1>6, <2>1, <2>3
    <3>2. \/ stack[i + 1].pc \in Declaring
          \/ i + 1 = k /\ Declares(stack[i + 1].pc)
      BY <1>6, <2>3, <3>1 DEF NodeInv, ForDeclares, k
    <3>3. CASE i + 1 # k
      BY <1>6, <3>1, <3>2, <3>3
    <3>4. CASE i + 1 = k
      <4>1. Declares(Top.pc)
        BY <1>1, <3>2, <3>4 DEF Declares, k
      <4>2. WaitsFor(stack[i].kind, "forDeclared", Top.kind)
        BY <1>1, <1>6, <2>3, <3>1, <3>4 DEF NodeInv, CallsMatch, k
      <4>3. Top.kind = "stmt"
        BY <1>1, <4>2 DEF WaitsFor, Frame, Kind
      <4>4. QED BY <1>2, <1>6, <3>4, <4>1, <4>3 DEF Waits
    <3>5. QED BY <3>3, <3>4
  <2>4. QED BY <2>2, <2>3
<1>12. NothingLost'
  BY LostKept DEF Waits
<1>13. QED BY <1>8, <1>9, <1>10, <1>11, <1>12 DEF NodeInv

\* A guarded call, accepted or refused.
LEMMA CallKeepsNodes ==
  ASSUME ControlInv, NodeInv, ~Done
  PROVE  \A kind, n, pc, d :
           /\ Call(kind, n, pc, d)
           /\ kind \in Guarded /\ n \in Int /\ pc \in Place /\ d \in Int
           /\ Waits(kind, pc, d)
           /\ kind = "stmt" /\ ~Refused => ~HasErrors'
           /\ pc = "forDeclared" => tok' = "type"
           => NodeInv'
<1> SUFFICES ASSUME NEW kind \in Guarded, NEW n \in Int, NEW pc \in Place,
                    NEW d \in Int, Call(kind, n, pc, d), Waits(kind, pc, d),
                    kind = "stmt" /\ ~Refused => ~HasErrors',
                    pc = "forDeclared" => tok' = "type"
             PROVE  NodeInv'
  OBVIOUS
<1>1. Top \in Frame /\ Top.own + d \in Int /\ kind \in Kind /\ lost' = lost
  BY TopFits DEF Guarded, Kind, Call
<1>2. CASE ~Refused
  BY <1>1, <1>2, PushKeepsNodes DEF Call
<1>3. CASE Refused
  <2> DEFINE f == [Top EXCEPT !.pc = pc, !.own = @ + d]
  <2>1. /\ f \in Frame /\ f.kind = Top.kind /\ f.c = Top.c /\ f.pc = pc
        /\ f.n = Top.n /\ f.own = Top.own + d
    BY <1>1 DEF Frame
  <2>2. Becomes(f) /\ ret' = "null"
    BY <1>3 DEF Call
  <2> HIDE DEF f
  <2>3. Settled(Top.kind, Top.c, pc, ret', HasErrors', tok')
    <3>1. WaitsFor(Top.kind, pc, kind)
      BY DEF Waits
    <3>2. Top.kind = "stmt" => pc \notin {"entry", "open", "forInit"}
      BY <3>1 DEF WaitsFor, Guarded
    <3>3. QED BY <2>2, <3>2 DEF Settled
  <2>4. Arrives(f.c, f.pc, f.n, f.own)
    BY <2>1, <2>3 DEF Arrives, Waits
  <2>5. NothingLost'
    BY <1>1, LostKept DEF Waits
  <2>6. QED BY <2>1, <2>2, <2>4, <2>5, MoveKeepsNodes
<1>4. QED BY <1>2, <1>3

\* CallPrimary, by PushKeepsNodes.
LEMMA CallPrimaryKeepsNodes ==
  ASSUME ControlInv, NodeInv, ~Done
  PROVE  \A pc \in Place : CallPrimary(pc) /\ Waits("prim", pc, 0) => NodeInv'
<1> SUFFICES ASSUME NEW pc \in Place, CallPrimary(pc), Waits("prim", pc, 0)
             PROVE  NodeInv'
  OBVIOUS
<1>1. "prim" \in Kind /\ lost' = lost /\ stack' = Push("prim", 0, pc, 0)
  BY DEF Kind, CallPrimary
<1>2. pc # "forDeclared"
  BY DEF Waits, WaitsFor
<1>3. QED BY <1>1, <1>2, PushKeepsNodes

\* A parser may return: what it owned is attached, returned or freed, or a
\* diagnostic has been logged; and the value is one its caller expects.
Leaves(r, d) ==
  /\ HasErrors => HasErrors'
  /\ Top.own + d >= IF r = "null" THEN 0 ELSE 1
  /\ ~HasErrors' => Top.own + d = IF r = "null" THEN 0 ELSE 1
  /\ Top.kind \in {"expr", "prim"} => r \in {"null", "node"}
  /\ Top.kind = "stmt" /\ Declares(Top.pc) /\ r = "empty" => HasErrors'

\* A return, with the result its caller may see and nothing left in the locals:
\* the caller is the only activation that can have been waiting for it.
LEMMA ReturnKeepsNodes ==
  ASSUME ControlInv, NodeInv, ~Done
  PROVE  \A r, d : /\ Return(r, d) /\ r \in Result /\ d \in Int
                   /\ Leaves(r, d)
                   => NodeInv'
<1> SUFFICES ASSUME NEW r \in Result, NEW d \in Int, Return(r, d), Leaves(r, d)
             PROVE  NodeInv'
  OBVIOUS
<1> DEFINE k == Len(stack)
<1>1. /\ Top \in Frame /\ Top.own \in Int /\ stack \in Seq(Frame)
      /\ stack # <<>> /\ stack[k] = Top /\ lost \in Int
  BY TopFits DEF ControlInv, ControlTypes, Done, Top
<1>2. /\ stack' = SubSeq(stack, 1, k - 1) /\ ret' = r
      /\ lost' = lost + Top.own + d - IF r = "null" THEN 0 ELSE 1
  BY DEF Return
<1>3. /\ stack' \in Seq(Frame) /\ Len(stack') = k - 1
      /\ DOMAIN stack' = DOMAIN stack \ {k}
      /\ \A i \in DOMAIN stack' : stack'[i] = stack[i]
  BY <1>1, <1>2, RemoveTop
<1>4. k \in Nat /\ DOMAIN stack = 1..k /\ DOMAIN stack' = 1..(k - 1) /\ k >= 1
  BY <1>1, <1>3
<1>5. NothingLost'
  BY <1>1, <1>2 DEF Leaves, NodeInv, NothingLost
<1>6. \A i \in 1..k :
        i # k => WaitsFor(stack[i].kind, stack[i].pc, stack[i + 1].kind)
  BY <1>4 DEF NodeInv, CallsMatch
<1>7. FramesFit'
  BY <1>3 DEF NodeInv, FramesFit
<1> HIDE DEF k
<1>8. Done' <=> k = 1
  BY <1>3, <1>4 DEF Done
<1>9. CallsMatch'
  <2>1. ~Done' => stack'[1].kind = "program"
    BY <1>3, <1>4, <1>8 DEF NodeInv, CallsMatch, Done
  <2>2. ASSUME NEW i \in 1..(k - 1), i # k - 1
        PROVE  WaitsFor(stack'[i].kind, stack'[i].pc, stack'[i + 1].kind)
    <3>1. i \in 1..k /\ i # k /\ i + 1 \in 1..(k - 1)
      BY <1>4, <2>2
    <3>2. stack'[i] = stack[i] /\ stack'[i + 1] = stack[i + 1]
      BY <1>3, <1>4, <3>1
    <3>3. QED BY <1>6, <3>1, <3>2
  <2>3. QED BY <1>3, <1>4, <2>1, <2>2 DEF CallsMatch
<1>10. TopSettled'
  <2> DEFINE t == stack[k - 1]
  <2>1. SUFFICES ASSUME k # 1
                 PROVE  Settled(Top'.kind, Top'.c, Top'.pc, ret', HasErrors', tok')
    BY <1>8 DEF TopSettled
  <2>2. Top' = t /\ k - 1 \in 1..k /\ k - 1 # k /\ k - 1 + 1 = k /\ t \in Frame
    BY <1>1, <1>3, <1>4, <2>1 DEF Top
  <2>3. WaitsFor(t.kind, t.pc, Top.kind)
    BY <1>1, <1>6, <2>2
  <2>4. t.pc = "forDeclared" => Top.kind = "stmt" /\ Declares(Top.pc)
    <3>1. t.pc = "forDeclared" => Declares(Top.pc)
      BY <1>1, <1>4, <2>2 DEF NodeInv, ForDeclares, Declares, k
    <3>2. QED BY <1>1, <2>3, <3>1 DEF WaitsFor, Frame, Kind
  <2> HIDE DEF t
  <2>5. /\ t.kind = "prim" /\ t.pc \in {"unary", "paren"} => r \in {"null", "node"}
        /\ t.kind = "stmt" => t.pc \notin {"entry", "open", "forInit"}
    BY <1>1, <2>3 DEF WaitsFor, Frame, Kind, Leaves
  <2>6. t.pc = "forDeclared" /\ r = "empty" => HasErrors'
    BY <2>4 DEF Leaves
  <2>7. QED BY <1>2, <2>2, <2>5, <2>6 DEF Settled
<1>11. ForDeclares'
  <2>1. SUFFICES ASSUME NEW i \in 1..(k - 1), i # k - 1, stack[i].pc = "forDeclared"
                 PROVE  stack'[i + 1].pc \in Declaring
    BY <1>3, <1>4 DEF ForDeclares
  <2>2. i \in 1..k /\ i # k /\ i + 1 \in 1..(k - 1) /\ i + 1 # k
    BY <1>4, <2>1
  <2>3. stack[i + 1].pc \in Declaring
    BY <1>4, <2>1, <2>2 DEF NodeInv, ForDeclares, k
  <2>4. QED BY <1>3, <1>4, <2>2, <2>3
<1>12. QED BY <1>5, <1>7, <1>9, <1>10, <1>11 DEF NodeInv

-----------------------------------------------------------------------------
(* The same for each kind of parser: what it knows of itself, and where its *)
(* steps may lead.                                                          *)

\* The statement loops stop at the first error.
LEMMA MoreStatementsUntilError ==
  MoreStatements => ~HasErrors
BY DEF MoreStatements

\* A parser of declarations steps to a place where it owns what it should.
LEMMA ProgramSteps ==
  ASSUME ControlInv, NodeInv, ~Done, Top.kind = "program", HasErrors => HasErrors'
  PROVE  /\ Top.own = ProgramOwns(Top.pc) /\ Top.n \in Int
         /\ \A pc, d :
              /\ Goto(pc, d) /\ pc \in ProgramPlace /\ d \in Int
              /\ Top.own + d = ProgramOwns(pc)
              => NodeInv'
         /\ \A pc, n, d :
              /\ GotoWith(pc, n, d) /\ pc \in ProgramPlace
              /\ n \in Int /\ d \in Int /\ Top.own + d = ProgramOwns(pc)
              => NodeInv'
<1>1. \A c, pc, n, own :
        pc \in ProgramPlace /\ own = ProgramOwns(pc) => Arrives(c, pc, n, own)
  BY DEF Arrives, Fits, Settled
<1>2. ProgramPlace \subseteq Place
  BY DEF Place
<1>3. Fits(Top.kind, Top.c, Top.pc, Top.n, Top.own) /\ Top.n \in Int
  BY TopFits
<1>4. Top.own = ProgramOwns(Top.pc)
  BY <1>3 DEF Fits
<1>5. QED BY <1>1, <1>2, <1>3, <1>4, GotoKeepsNodes, GotoWithKeepsNodes

\* What a statement owns at its place.
LEMMA StatementAt ==
  ASSUME ControlInv, NodeInv, ~Done, Top.kind = "stmt"
  PROVE  /\ StatementFits(Top.c, Top.pc, Top.n, Top.own)
         /\ Top.own \in Int /\ Top.n \in Int
BY TopFits DEF Fits

\* A statement steps to a place where it owns what it should; a declaration
\* stays one.
LEMMA StatementGoto ==
  ASSUME ControlInv, NodeInv, ~Done, Top.kind = "stmt", HasErrors => HasErrors'
  PROVE  \A pc, d :
           /\ Goto(pc, d) /\ d \in Int /\ pc \in StatementPlace
           /\ pc \notin {"entry", "open", "forInit", "forDeclared"}
           /\ StatementFits(Top.c, pc, Top.n, Top.own + d)
           /\ Declares(Top.pc) => pc \in Declaring
           => NodeInv'
<1> SUFFICES ASSUME NEW pc \in StatementPlace, NEW d \in Int, Goto(pc, d),
                    pc \notin {"entry", "open", "forInit", "forDeclared"},
                    StatementFits(Top.c, pc, Top.n, Top.own + d),
                    Declares(Top.pc) => pc \in Declaring
             PROVE  NodeInv'
  OBVIOUS
<1>1. pc \in Place
  BY DEF Place
<1>2. Arrives(Top.c, pc, Top.n, Top.own + d)
  BY DEF Arrives, Fits, Settled
<1>3. QED BY <1>1, <1>2, GotoKeepsNodes

\* The same with a change of the counter.
LEMMA StatementGotoWith ==
  ASSUME ControlInv, NodeInv, ~Done, Top.kind = "stmt", HasErrors => HasErrors'
  PROVE  \A pc, n, d :
           /\ GotoWith(pc, n, d) /\ d \in Int /\ n \in Int /\ pc \in StatementPlace
           /\ pc \notin {"entry", "open", "forInit", "forDeclared"}
           /\ StatementFits(Top.c, pc, n, Top.own + d)
           /\ Declares(Top.pc) => pc \in Declaring
           => NodeInv'
<1> SUFFICES ASSUME NEW pc \in StatementPlace, NEW n \in Int, NEW d \in Int,
                    GotoWith(pc, n, d),
                    pc \notin {"entry", "open", "forInit", "forDeclared"},
                    StatementFits(Top.c, pc, n, Top.own + d),
                    Declares(Top.pc) => pc \in Declaring
             PROVE  NodeInv'
  OBVIOUS
<1>1. pc \in Place
  BY DEF Place
<1>2. Arrives(Top.c, pc, n, Top.own + d)
  BY DEF Arrives, Fits, Settled
<1>3. QED BY <1>1, <1>2, GotoWithKeepsNodes

\* A statement calls for an expression.
LEMMA StatementCall ==
  ASSUME ControlInv, NodeInv, ~Done, Top.kind = "stmt", HasErrors => HasErrors'
  PROVE  \A pc, d :
           /\ Call("expr", TopLevelMin, pc, d) /\ pc \in StatementPlace /\ d \in Int
           /\ WaitsFor("stmt", pc, "expr")
           /\ StatementFits(Top.c, pc, Top.n, Top.own + d)
           /\ Declares(Top.pc) => pc \in Declaring
           => NodeInv'
<1> SUFFICES ASSUME NEW pc \in StatementPlace, NEW d \in Int,
                    Call("expr", TopLevelMin, pc, d),
                    WaitsFor("stmt", pc, "expr"),
                    StatementFits(Top.c, pc, Top.n, Top.own + d),
                    Declares(Top.pc) => pc \in Declaring
             PROVE  NodeInv'
  OBVIOUS
<1>1. pc \in Place /\ "expr" \in Guarded /\ TopLevelMin \in Int
  BY DEF Place, Guarded, TopLevelMin
<1>2. Waits("expr", pc, d)
  BY DEF Waits, Fits
<1>3. pc # "forDeclared"
  BY DEF WaitsFor
<1>4. QED BY <1>1, <1>2, <1>3, CallKeepsNodes

\* A statement returns its wrapper and has attached everything else; after a
\* diagnostic it may leave something unattached.
LEMMA StatementReturn ==
  ASSUME ControlInv, TokenInv, NodeInv, ~Done, Top.kind = "stmt",
         HasErrors => HasErrors'
  PROVE  /\ \A r, d :
              /\ Return(r, d) /\ r \in {"empty", "node", "null"} /\ d \in Int
              /\ \/ /\ Top.own + d = IF r = "null" THEN 0 ELSE 1
                    /\ r = "empty" => HasErrors' \/ ~Declares(Top.pc)
                 \/ HasErrors' /\ Top.own + d >= 1 /\ r # "null"
              => NodeInv'
         /\ \A d : Fail(d) /\ d \in Int /\ Top.own + d = 1 => NodeInv'
<1>1. ASSUME NEW r \in {"empty", "node", "null"}, NEW d \in Int, Return(r, d),
             \/ /\ Top.own + d = IF r = "null" THEN 0 ELSE 1
                /\ r = "empty" => HasErrors' \/ ~Declares(Top.pc)
             \/ HasErrors' /\ Top.own + d >= 1 /\ r # "null"
      PROVE  NodeInv'
  <2>1. Leaves(r, d)
    BY <1>1, StatementAt DEF Leaves
  <2>2. r \in Result
    BY DEF Result
  <2>3. QED BY <1>1, <2>1, <2>2, ReturnKeepsNodes
<1>2. ASSUME NEW d \in Int, Fail(d), Top.own + d = 1
      PROVE  NodeInv'
  <2>1. Return("empty", d) /\ HasErrors'
    BY <1>2, StayLogs DEF Fail
  <2>2. QED BY <1>1, <1>2, <2>1
<1>3. \A r, d :
        /\ Return(r, d) /\ r \in {"empty", "node", "null"} /\ d \in Int
        /\ \/ /\ Top.own + d = IF r = "null" THEN 0 ELSE 1
              /\ r = "empty" => HasErrors' \/ ~Declares(Top.pc)
           \/ HasErrors' /\ Top.own + d >= 1 /\ r # "null"
        => NodeInv'
  BY <1>1
<1>4. \A d : Fail(d) /\ d \in Int /\ Top.own + d = 1 => NodeInv'
  BY <1>2
<1>5. QED BY <1>3, <1>4

\* The precedence climber owns its left operand, or nothing.
LEMMA ExpressionSteps ==
  ASSUME ControlInv, NodeInv, ~Done, Top.kind = "expr", HasErrors => HasErrors'
  PROVE  /\ Top.own = IF Top.pc \in {"operators", "right"} THEN 1 ELSE 0
         /\ \A d \in Int :
              Goto("operators", d) /\ Top.own + d = 1 => NodeInv'
         /\ \A r, d :
              /\ Return(r, d) /\ r \in {"null", "node"} /\ d \in Int
              /\ Top.own + d = IF r = "null" THEN 0 ELSE 1
              => NodeInv'
         /\ \A n \in Int :
              Call("expr", n, "right", 0) /\ Top.own = 1 => NodeInv'
         /\ CallPrimary("left") /\ Top.own = 0 => NodeInv'
<1>1. /\ Fits(Top.kind, Top.c, Top.pc, Top.n, Top.own) /\ Top.own \in Int
  BY TopFits
<1>2. \A d \in Int :
        Top.own + d = 1 => Arrives(Top.c, "operators", Top.n, Top.own + d)
  BY DEF Arrives, Fits, Settled, ExpressionPlace
<1>3. \A r \in {"null", "node"}, d \in Int :
        Top.own + d = (IF r = "null" THEN 0 ELSE 1) => Leaves(r, d)
  BY <1>1 DEF Leaves
<1>4. /\ Top.own = 1 => Waits("expr", "right", 0)
      /\ Top.own = 0 => Waits("prim", "left", 0)
  BY DEF Waits, Fits, WaitsFor, ExpressionPlace
<1>5. {"operators", "right", "left"} \subseteq Place /\ "expr" \in Guarded
  BY DEF Place, ExpressionPlace, Guarded
<1>6. {"null", "node"} \subseteq Result
  BY DEF Result
<1>7. Top.own = IF Top.pc \in {"operators", "right"} THEN 1 ELSE 0
  BY <1>1 DEF Fits
<1>8. QED
  BY <1>1, <1>2, <1>3, <1>4, <1>5, <1>6, <1>7, GotoKeepsNodes, ReturnKeepsNodes,
     CallKeepsNodes, CallPrimaryKeepsNodes

\* What an operand parser owns.
PrimaryOwns(pc) == IF pc \in Arguments THEN 1 ELSE 0

\* An operand parser owns the call whose arguments it reads, or nothing.
LEMMA PrimarySteps ==
  ASSUME ControlInv, NodeInv, ~Done, Top.kind = "prim", HasErrors => HasErrors'
  PROVE  /\ Top.own = PrimaryOwns(Top.pc) /\ Top.n \in Int
         /\ Top.pc \in {"unary", "paren"} => ret \in {"null", "node"}
         /\ \A pc, d :
              /\ Goto(pc, d) /\ d \in Int
              /\ pc \in PrimaryPlace \ {"unary", "paren"}
              /\ Top.own + d = PrimaryOwns(pc)
              => NodeInv'
         /\ \A pc, n, d :
              /\ GotoWith(pc, n, d) /\ n \in Int /\ d \in Int
              /\ pc \in PrimaryPlace \ {"unary", "paren"}
              /\ Top.own + d = PrimaryOwns(pc)
              => NodeInv'
         /\ \A r, d :
              /\ Return(r, d) /\ r \in {"null", "node"} /\ d \in Int
              /\ Top.own + d = IF r = "null" THEN 0 ELSE 1
              => NodeInv'
         /\ \A pc \in {"paren", "argsComma"} :
              /\ Call("expr", TopLevelMin, pc, 0) /\ Top.own = PrimaryOwns(pc)
              => NodeInv'
         /\ CallPrimary("unary") /\ Top.own = 0 => NodeInv'
<1>1. /\ Fits(Top.kind, Top.c, Top.pc, Top.n, Top.own)
      /\ Settled(Top.kind, Top.c, Top.pc, ret, HasErrors, tok)
      /\ Top.own \in Int /\ Top.n \in Int
  BY TopFits
<1>2. \A c, pc, n, own :
        /\ pc \in PrimaryPlace \ {"unary", "paren"} /\ own = PrimaryOwns(pc)
        => Arrives(c, pc, n, own)
  BY DEF Arrives, Fits, Settled, PrimaryOwns
<1>3. \A r \in {"null", "node"}, d \in Int :
        Top.own + d = (IF r = "null" THEN 0 ELSE 1) => Leaves(r, d)
  BY <1>1 DEF Leaves
<1>4. /\ \A pc \in {"paren", "argsComma"} :
           Top.own = PrimaryOwns(pc) => Waits("expr", pc, 0)
      /\ Top.own = 0 => Waits("prim", "unary", 0)
  BY <1>1 DEF Waits, Fits, WaitsFor, PrimaryPlace, PrimaryOwns, Arguments
<1>5. /\ PrimaryPlace \subseteq Place /\ {"paren", "argsComma"} \subseteq Place
      /\ "unary" \in Place /\ "expr" \in Guarded /\ TopLevelMin \in Int
  BY DEF Place, PrimaryPlace, Guarded, TopLevelMin
<1>6. {"null", "node"} \subseteq Result
  BY DEF Result
<1>7. /\ Top.own = PrimaryOwns(Top.pc)
      /\ Top.pc \in {"unary", "paren"} => ret \in {"null", "node"}
  BY <1>1 DEF Fits, Settled, PrimaryOwns
<1>8. QED
  BY <1>1, <1>2, <1>3, <1>4, <1>5, <1>6, <1>7, GotoKeepsNodes, GotoWithKeepsNodes,
     ReturnKeepsNodes, CallKeepsNodes, CallPrimaryKeepsNodes

-----------------------------------------------------------------------------
(* Every action preserves the invariant. *)

\* Every branch of ParseProgram arrives with what it owns.
LEMMA ParseProgramKeepsNodes ==
  ASSUME ControlInv, TokenInv, NodeInv, ParseProgram
  PROVE  NodeInv'
<1>1. ~Done /\ Top.kind = "program"
  BY DEF ParseProgram, InProgram, At
<1>2. HasErrors => HasErrors'
  BY AdvanceLogs, StayLogs
     DEF ParseProgram
<1>3. QED
  BY <1>1, <1>2, ProgramSteps, ReturnKeepsNodes
     DEF ParseProgram, InProgram, At, ProgramOwns, ProgramPlace, Leaves, Result

\* Every branch of ParseStructDeclaration arrives with what it owns.
LEMMA ParseStructDeclarationKeepsNodes ==
  ASSUME ControlInv, TokenInv, NodeInv, ParseStructDeclaration
  PROVE  NodeInv'
<1>1. ~Done /\ Top.kind = "program"
  BY DEF ParseStructDeclaration, InProgram, At
<1>2. \/ /\ InProgram("structName")
         /\ \/ tok \in Ident /\ Advance(0) /\ Goto("structAfterName", 0)
            \/ tok \notin Ident /\ Stay(1) /\ GotoWith("sync", 0, 0)
      \/ /\ InProgram("structAfterName")
         /\ \/ Advance(0) /\ Goto("register", 1)
            \/ tok \in Ident /\ Advance(0) /\ Goto("structFunction", 0)
            \/ Stay(1) /\ GotoWith("sync", 0, 0)
      \/ /\ InProgram("structFunction")
         /\ \/ tok = "(" /\ Advance(0) /\ Goto("params", 1)
            \/ tok # "(" /\ Stay(1) /\ GotoWith("sync", 0, 0)
  BY DEF ParseStructDeclaration
<1>3. HasErrors => HasErrors'
  BY <1>2, AdvanceLogs, StayLogs
<1>4. QED
  BY <1>1, <1>2, <1>3, ProgramSteps
     DEF InProgram, At, ProgramOwns, ProgramPlace

\* Every branch of ParseFunctionDeclaration arrives with what it owns.
LEMMA ParseFunctionDeclarationKeepsNodes ==
  ASSUME ControlInv, TokenInv, NodeInv, ParseFunctionDeclaration
  PROVE  NodeInv'
<1>1. ~Done /\ Top.kind = "program"
  BY DEF ParseFunctionDeclaration, InProgram, At
<1>2. HasErrors => HasErrors'
  BY AdvanceLogs, StayLogs
     DEF ParseFunctionDeclaration
<1>3. QED
  BY <1>1, <1>2, ProgramSteps
     DEF ParseFunctionDeclaration, InProgram, At, ProgramOwns, ProgramPlace

\* Every branch of SkipToSyncPoint arrives with what it owns.
LEMMA SkipToSyncPointKeepsNodes ==
  ASSUME ControlInv, TokenInv, NodeInv, SkipToSyncPoint
  PROVE  NodeInv'
<1>1. ~Done /\ Top.kind = "program"
  BY DEF SkipToSyncPoint, InProgram, At
<1>2. /\ InProgram("sync")
      /\ \/ tok = "eof" /\ Stay(0) /\ Goto("top", 0)
         \/ Advance(0) /\ GotoWith("sync", Top.n + 1, 0)
         \/ Top.n > 0 /\ Advance(0) /\ GotoWith("sync", Top.n - 1, 0)
         \/ Top.n = 0 /\ Advance(0) /\ Goto("top", 0)
         \/ /\ Advance(0) /\ Goto("sync", 0)
  BY DEF SkipToSyncPoint
<1>3. HasErrors => HasErrors'
  BY <1>2, AdvanceLogs, StayLogs
<1>4. QED
  BY <1>1, <1>2, <1>3, ProgramSteps
     DEF InProgram, At, ProgramOwns, ProgramPlace

\* Every branch of SkipToSemicolon arrives with what it owns.
LEMMA SkipToSemicolonKeepsNodes ==
  ASSUME ControlInv, TokenInv, NodeInv, SkipToSemicolon
  PROVE  NodeInv'
<1>1. ~Done /\ Top.kind = "program"
  BY DEF SkipToSemicolon, InProgram, At
<1>2. /\ InProgram("semicolon")
      /\ \/ Advance(0) /\ Goto("top", 0)
         \/ tok = "eof" /\ Stay(0) /\ Goto("top", 0)
         \/ Advance(0) /\ Goto("semicolon", 0)
  BY DEF SkipToSemicolon
<1>3. HasErrors => HasErrors'
  BY <1>2, AdvanceLogs, StayLogs
<1>4. QED
  BY <1>1, <1>2, <1>3, ProgramSteps
     DEF InProgram, At, ProgramOwns, ProgramPlace

\* Every branch of ParseFunctionParameters arrives with what it owns.
LEMMA ParseFunctionParametersKeepsNodes ==
  ASSUME ControlInv, TokenInv, NodeInv, ParseFunctionParameters
  PROVE  NodeInv'
<1>1. ~Done /\ Top.kind = "program"
  BY DEF ParseFunctionParameters, InProgram, At
<1>2. HasErrors => HasErrors'
  BY AdvanceLogs, DiscardLogs, StayLogs
     DEF ParseFunctionParameters, Dropped
<1>3. QED
  BY <1>1, <1>2, ProgramSteps
     DEF ParseFunctionParameters, InProgram, At, ProgramOwns, ProgramPlace

\* Every branch of ParseSingleParameter arrives with what it owns.
LEMMA ParseSingleParameterKeepsNodes ==
  ASSUME ControlInv, TokenInv, NodeInv, ParseSingleParameter
  PROVE  NodeInv'
<1>1. ~Done /\ Top.kind = "program"
  BY DEF ParseSingleParameter, InProgram, At
<1>2. \/ /\ InProgram("paramStruct")
         /\ \/ tok \in Ident /\ Advance(0) /\ Goto("paramName", 0)
            \/ tok \notin Ident /\ Stay(1) /\ Goto("paramsClose", 0)
      \/ /\ InProgram("paramName")
         /\ \/ tok \in Ident /\ Advance(0) /\ Goto("paramComma", 0)
            \/ tok \notin Ident /\ Stay(1) /\ Goto("paramsClose", 0)
      \/ /\ InProgram("paramComma")
         /\ \/ Advance(0) /\ Goto("params", 0)
            \/ Stay(0) /\ Goto("params", 0)
  BY DEF ParseSingleParameter
<1>3. HasErrors => HasErrors'
  BY <1>2, AdvanceLogs, StayLogs
<1>4. QED
  BY <1>1, <1>2, <1>3, ProgramSteps
     DEF InProgram, At, ProgramOwns, ProgramPlace

\* Every branch of ParseFunctionBody arrives with what it owns.
LEMMA ParseFunctionBodyKeepsNodes ==
  ASSUME ControlInv, TokenInv, NodeInv, ParseFunctionBody
  PROVE  NodeInv'
<1>1. ~Done /\ Top.kind = "program"
  BY DEF ParseFunctionBody, InProgram, At
<1>2. \/ /\ InProgram("functionOpen")
         /\ \/ Advance(0) /\ Goto("functionBody", 0)
            \/ Stay(1) /\ Goto("top", -1)
      \/ /\ InProgram("functionBody")
         /\ \/ MoreStatements /\ Stay(Overflow) /\ Call("stmt", 0, "functionBody", 0)
            \/ ~MoreStatements /\ Stay(0) /\ Goto("functionClose", 0)
      \/ /\ InProgram("functionClose")
         /\ \/ Advance(0) /\ Goto("top", -1)
            \/ Stay(1) /\ Goto("top", -1)
  BY DEF ParseFunctionBody
<1>3. HasErrors => HasErrors'
  BY <1>2, AdvanceLogs, StayLogs, OverflowType
<1>4. QED
  BY <1>1, <1>2, <1>3, ProgramSteps, CallKeepsNodes, StayLogs, OverflowType,
     MoreStatementsUntilError
     DEF InProgram, At, ProgramOwns, ProgramPlace, Waits, Fits, WaitsFor,
         Guarded, Place, Overflow, StatementPlace

\* Every branch of ParseStruct arrives with what it owns.
LEMMA ParseStructKeepsNodes ==
  ASSUME ControlInv, TokenInv, NodeInv, ParseStruct
  PROVE  NodeInv'
<1>1. ~Done /\ Top.kind = "program"
  BY DEF ParseStruct, InProgram, At
<1>2. \/ /\ InProgram("register")
         /\ \/ Stay(0) /\ Goto("fields", 0)
            \/ Stay(2) /\ Goto("top", -1)
      \/ /\ InProgram("fields")
         /\ \/ Stay(0) /\ Goto("structClose", 0)
            \/ /\ ~HasErrors
               /\ \/ tok \in Keyword /\ Advance(0) /\ Goto("fieldName", 0)
                  \/ tok \notin Keyword /\ Discard("field") /\ Goto("fields", 0)
      \/ /\ InProgram("structClose")
         /\ \/ Advance(0) /\ Goto("structEnd", 0)
            \/ Stay(1) /\ Goto("structEnd", 0)
      \/ /\ InProgram("structEnd")
         /\ \/ Advance(0) /\ Goto("top", -1)
            \/ Stay(1) /\ Goto("top", -1)
  BY DEF ParseStruct
<1>3. HasErrors => HasErrors'
  BY <1>2, AdvanceLogs, DiscardLogs, StayLogs
     DEF Dropped
<1>4. QED
  BY <1>1, <1>2, <1>3, ProgramSteps
     DEF InProgram, At, ProgramOwns, ProgramPlace

\* Every branch of ParseStructField arrives with what it owns.
LEMMA ParseStructFieldKeepsNodes ==
  ASSUME ControlInv, TokenInv, NodeInv, ParseStructField
  PROVE  NodeInv'
<1>1. ~Done /\ Top.kind = "program"
  BY DEF ParseStructField, InProgram, At
<1>2. \/ /\ InProgram("fieldName")
         /\ \/ \E full \in {0, 1} : tok \in Ident /\ Advance(full) /\ Goto("fieldEnd", 1)
            \/ tok \notin Ident /\ Advance(1) /\ Goto("fields", 0)
      \/ /\ InProgram("fieldEnd")
         /\ \/ Advance(0) /\ Goto("fields", -1)
            \/ Advance(1) /\ Goto("fields", -1)
  BY DEF ParseStructField
<1>3. HasErrors => HasErrors'
  BY <1>2, AdvanceLogs
<1>4. QED
  BY <1>1, <1>2, <1>3, ProgramSteps
     DEF InProgram, At, ProgramOwns, ProgramPlace

\* Every branch of ParseStatement arrives with what it owns.
LEMMA ParseStatementKeepsNodes ==
  ASSUME ControlInv, TokenInv, NodeInv, ParseStatement
  PROVE  NodeInv'
<1>1. ~Done /\ Top.kind = "stmt"
  BY DEF ParseStatement, InStatement, At
<1>2. \/ /\ InStatement("entry")
         /\ \/ tok = "struct" /\ Advance(0) /\ Goto("declStruct", 0)
            \/ tok = "type" /\ Advance(0) /\ Goto("declName", 0)
            \/ tok \in Ident /\ Advance(0) /\ Goto("assign", 0)
            \/ tok = "return" /\ Advance(Overflow) /\ Call("expr", TopLevelMin, "returnEnd", 0)
            \/ tok \in {"if", "while", "for"} /\ Advance(0) /\ Begin(tok, "open")
            \/ /\ tok \in {"break", "continue"}
               /\ \/ loopDepth <= 0 /\ Fail(0)
                  \/ loopDepth > 0 /\ Advance(0) /\ Goto("jumpEnd", 0)
            \/ /\ tok \notin Ident \cup {"struct", "type", "return", "if", "while",
                                         "for", "break", "continue"}
               /\ Stay(0) /\ Goto("skip", 0)
      \/ /\ InStatement("skip")
         /\ \/ Advance(0) /\ Return("empty", 0)
            \/ Stay(0) /\ Return("empty", 0)
            \/ Discard("statement") /\ Goto("skip", 0)
  BY DEF ParseStatement
<1>3. HasErrors => HasErrors'
  BY <1>2, AdvanceLogs, DiscardLogs, StayLogs, OverflowType
     DEF Fail, Dropped
<1> USE DEF InStatement, At, StatementFits, StatementPlace, Declares,
        Declaring, ForHeader, Arguments
<1>4. CASE InStatement("entry")
  <2>1. /\ Top.pc = "entry" /\ Top.own = 1 /\ Top.n \in Int /\ ~HasErrors
        /\ Declares(Top.pc) <=> tok = "type"
    BY <1>1, <1>4, TopFits DEF Fits, Settled
  <2>2. CASE tok \in {"if", "while", "for"} /\ Advance(0) /\ Begin(tok, "open")
    <3>1. HasErrors' => tok' = "longid"
      BY <2>1, <2>2, AdvanceLogs
    <3>2. Arrives(tok, "open", Top.n, Top.own)
      BY <1>1, <1>3, <2>1, <2>2, <3>1 DEF Arrives, Fits, Settled
    <3>3. tok \in Construct /\ "open" \in Place
      BY <2>2 DEF Construct, Place
    <3>4. QED BY <1>1, <2>2, <3>2, <3>3, BeginKeepsNodes
  <2>3. CASE \/ tok = "struct" /\ Goto("declStruct", 0)
             \/ tok = "type" /\ Goto("declName", 0)
    BY <1>1, <1>3, <2>1, <2>3, StatementGoto
  <2>4. CASE tok # "type" /\ \E pc \in {"assign", "jumpEnd", "skip"} : Goto(pc, 0)
    BY <1>1, <1>3, <2>1, <2>4, StatementGoto
  <2>5. CASE tok # "type" /\ (Fail(0) \/ Call("expr", TopLevelMin, "returnEnd", 0))
    BY <1>1, <1>3, <2>1, <2>5, StatementCall, StatementReturn DEF WaitsFor
  <2>6. QED BY <1>2, <2>1, <2>2, <2>3, <2>4, <2>5 DEF Ident
<1>5. CASE InStatement("skip")
  BY <1>1, <1>2, <1>3, <1>5, StatementAt, StatementGoto, StatementReturn
<1>6. QED
  BY <1>2, <1>4, <1>5

\* Every branch of ParseJump arrives with what it owns.
LEMMA ParseJumpKeepsNodes ==
  ASSUME ControlInv, TokenInv, NodeInv, ParseJump
  PROVE  NodeInv'
<1>1. ~Done /\ Top.kind = "stmt"
  BY DEF ParseJump, InStatement, At
<1>2. /\ InStatement("jumpEnd")
      /\ \/ Advance(0) /\ Return("node", 0)
         \/ Fail(0)
  BY DEF ParseJump
<1>3. HasErrors => HasErrors'
  BY <1>2, AdvanceLogs, StayLogs
     DEF Fail
<1>4. QED
  BY <1>1, <1>2, <1>3, StatementAt, StatementReturn
     DEF InStatement, At, StatementFits, StatementPlace, Declares, Declaring,
         ForHeader, Arguments

\* Every branch of ParseReturn arrives with what it owns.
LEMMA ParseReturnKeepsNodes ==
  ASSUME ControlInv, TokenInv, NodeInv, ParseReturn
  PROVE  NodeInv'
<1>1. ~Done /\ Top.kind = "stmt"
  BY DEF ParseReturn, InStatement, At
<1>2. /\ InStatement("returnEnd")
      /\ \/ Advance(0) /\ Return("node", 0)
         \/ Stay(1) /\ Return("null", -1)
  BY DEF ParseReturn
<1>3. HasErrors => HasErrors'
  BY <1>2, AdvanceLogs, StayLogs
<1>4. QED
  BY <1>1, <1>2, <1>3, StatementAt, StatementReturn
     DEF InStatement, At, StatementFits, StatementPlace, Declares, Declaring,
         ForHeader, Arguments

\* Every branch of ParseVariableDeclaration arrives with what it owns.
LEMMA ParseVariableDeclarationKeepsNodes ==
  ASSUME ControlInv, TokenInv, NodeInv, ParseVariableDeclaration
  PROVE  NodeInv'
<1>1. ~Done /\ Top.kind = "stmt"
  BY DEF ParseVariableDeclaration, InStatement, At
<1>2. \/ /\ InStatement("declStruct")
         /\ \/ tok \in Ident /\ Advance(0) /\ GotoWith("declName", 1, 0)
            \/ tok \notin Ident /\ Fail(0)
      \/ /\ InStatement("declName")
         /\ \/ tok \in Ident /\ Advance(0) /\ Goto("declDim", 1)
            \/ tok \notin Ident /\ Fail(0)
      \/ /\ InStatement("declDim")
         /\ \/ tok = "[" /\ Advance(0) /\ GotoWith("declSize", 1, 0)
            \/ tok # "[" /\ Stay(0) /\ Goto("declInit", 0)
      \/ /\ InStatement("declSize")
         /\ \/ tok = "num" /\ Advance(0) /\ Goto("declSizeEnd", 0)
            \/ tok = "num" /\ Advance(1) /\ Return("empty", -1)
            \/ tok = "num" /\ Advance(1) /\ Goto("declSizeEnd", 0)
            \/ tok # "num" /\ Fail(-1)
      \/ /\ InStatement("declSizeEnd")
         /\ \/ tok = "]" /\ Advance(0) /\ Goto("declInit", 0)
            \/ tok # "]" /\ Fail(-1)
      \/ /\ InStatement("declInit")
         /\ \/ tok = "=" /\ Advance(0) /\ Goto("declValue", 0)
            \/ tok # "=" /\ Stay(0) /\ Goto("declEnd", 0)
      \/ /\ InStatement("declValue")
         /\ \/ Top.n = 1 /\ Advance(0) /\ Goto("initList", 1)
            \/ /\ Stay(Overflow) /\ Call("expr", TopLevelMin, "declGarbage", 0)
      \/ /\ InStatement("declGarbage")
         /\ \/ StayWithout("operand") /\ Goto("declEnd", 0)
            \/ Stay(1) /\ Goto("declSkip", 0)
      \/ /\ InStatement("declSkip")
         /\ \/ Stay(0) /\ Goto("declEnd", 0)
            \/ Advance(0) /\ Goto("declSkip", 0)
      \/ /\ InStatement("declEnd")
         /\ \/ Advance(0) /\ Return("node", -1)
            \/ Fail(-1)
  BY DEF ParseVariableDeclaration
<1>3. HasErrors => HasErrors'
  BY <1>2, AdvanceLogs, StayWithoutLogs, StayLogs, OverflowType
     DEF Fail, Dropped
<1> USE DEF InStatement, At, StatementFits, StatementPlace, Declares,
        Declaring, ForHeader, Arguments
<1>4. CASE InStatement("declStruct")
  BY <1>1, <1>2, <1>3, <1>4, StatementAt, StatementGotoWith, StatementReturn
<1>5. CASE InStatement("declName")
  BY <1>1, <1>2, <1>3, <1>5, StatementAt, StatementGoto, StatementReturn
<1>6. CASE InStatement("declDim")
  BY <1>1, <1>2, <1>3, <1>6, StatementAt, StatementGoto, StatementGotoWith
<1>7. CASE InStatement("declSize")
  BY <1>1, <1>2, <1>3, <1>7, StatementAt, StatementGoto, StatementReturn,
     AdvanceLogs
<1>8. CASE InStatement("declSizeEnd")
  BY <1>1, <1>2, <1>3, <1>8, StatementAt, StatementGoto, StatementReturn
<1>9. CASE InStatement("declInit")
  BY <1>1, <1>2, <1>3, <1>9, StatementAt, StatementGoto
<1>10. CASE InStatement("declValue")
  BY <1>1, <1>2, <1>3, <1>10, StatementAt, StatementGoto, StatementCall
     DEF WaitsFor
<1>11. CASE InStatement("declGarbage")
  BY <1>1, <1>2, <1>3, <1>11, StatementAt, StatementGoto
<1>12. CASE InStatement("declSkip")
  BY <1>1, <1>2, <1>3, <1>12, StatementAt, StatementGoto
<1>13. CASE InStatement("declEnd")
  BY <1>1, <1>2, <1>3, <1>13, StatementAt, StatementReturn
<1>14. QED
  BY <1>2, <1>4, <1>5, <1>6, <1>7, <1>8, <1>9, <1>10, <1>11, <1>12, <1>13

\* Every branch of ParseInitializerList arrives with what it owns.
LEMMA ParseInitializerListKeepsNodes ==
  ASSUME ControlInv, TokenInv, NodeInv, ParseInitializerList
  PROVE  NodeInv'
<1>1. ~Done /\ Top.kind = "stmt"
  BY DEF ParseInitializerList, InStatement, At
<1>2. /\ InStatement("initList")
      /\ \/ /\ ~HasErrors
            /\ \/ Advance(0)
               \/ Discard("initializer")
            /\ Goto("initList", 0)
         \/ Advance(0) /\ Goto("declEnd", -1)
         \/ tok = "eof" /\ Stay(2) /\ Goto("declEnd", -1)
         \/ HasErrors /\ Stay(2) /\ Goto("declEnd", -1)
  BY DEF ParseInitializerList
<1>3. HasErrors => HasErrors'
  BY <1>2, AdvanceLogs, DiscardLogs, StayLogs
     DEF Dropped
<1>4. QED
  BY <1>1, <1>2, <1>3, StatementAt, StatementGoto
     DEF InStatement, At, StatementFits, StatementPlace, Declares, Declaring,
         ForHeader, Arguments

\* Every branch of ParseAssignmentOrExpression arrives with what it owns.
LEMMA ParseAssignmentOrExpressionKeepsNodes ==
  ASSUME ControlInv, TokenInv, NodeInv, ParseAssignmentOrExpression
  PROVE  NodeInv'
<1>1. ~Done /\ Top.kind = "stmt"
  BY DEF ParseAssignmentOrExpression, InStatement, At
<1>2. \/ /\ InStatement("assign")
         /\ \/ tok = "(" /\ Advance(0) /\ Goto("args", 1)
            \/ tok # "(" /\ Stay(0) /\ Goto("lhs", 0)
      \/ /\ InStatement("equals")
         /\ \/ HasErrors /\ Stay(0) /\ Return("empty", 0)
            \/ ~HasErrors /\ tok = "=" /\ Advance(Overflow)
                 /\ Call("expr", TopLevelMin, "assignEnd", 1)
            \/ ~HasErrors /\ tok # "=" /\ Stay(1) /\ Goto("assignSkip", 1)
      \/ /\ InStatement("assignEnd")
         /\ \/ StayWithout("operand") /\ Goto("assignDone", 0)
            \/ Fail(-1)
      \/ InStatement("assignDone") /\ Advance(0) /\ Return("node", -1)
      \/ /\ InStatement("assignSkip")
         /\ \/ Advance(0) /\ Return("empty", -1)
            \/ tok = "eof" /\ Stay(0) /\ Return("empty", -1)
            \/ Advance(0) /\ Goto("assignSkip", 0)
  BY DEF ParseAssignmentOrExpression
<1>3. HasErrors => HasErrors'
  BY <1>2, AdvanceLogs, StayWithoutLogs, StayLogs, OverflowType
     DEF Fail, Dropped
<1> USE DEF InStatement, At, StatementFits, StatementPlace, Declares,
        Declaring, ForHeader, Arguments
<1>4. CASE InStatement("assign")
  BY <1>1, <1>2, <1>3, <1>4, StatementAt, StatementGoto
<1>5. CASE InStatement("equals")
  BY <1>1, <1>2, <1>3, <1>5, StatementAt, StatementGoto, StatementCall,
     StatementReturn
     DEF WaitsFor
<1>6. CASE InStatement("assignEnd")
  BY <1>1, <1>2, <1>3, <1>6, StatementAt, StatementGoto, StatementReturn
<1>7. CASE InStatement("assignDone")
  BY <1>1, <1>2, <1>3, <1>7, StatementAt, StatementReturn
<1>8. CASE InStatement("assignSkip")
  BY <1>1, <1>2, <1>3, <1>8, StatementAt, StatementGoto, StatementReturn
<1>9. QED
  BY <1>2, <1>4, <1>5, <1>6, <1>7, <1>8

\* Every branch of ParseLhsExpression arrives with what it owns.
LEMMA ParseLhsExpressionKeepsNodes ==
  ASSUME ControlInv, TokenInv, NodeInv, ParseLhsExpression
  PROVE  NodeInv'
<1>1. ~Done /\ Top.kind = "stmt"
  BY DEF ParseLhsExpression, InStatement, At
<1>2. HasErrors => HasErrors'
  BY AdvanceLogs, StayLogs
     DEF ParseLhsExpression
<1> USE DEF ParseLhsExpression, InStatement, At, StatementFits, StatementPlace,
        Declares, Declaring, ForHeader, Arguments
<1>3. CASE InStatement("lhs")
  BY <1>1, <1>2, <1>3, StatementAt, StatementGoto, StatementGotoWith
<1>4. CASE InStatement("lhsField")
  BY <1>1, <1>2, <1>4, StatementAt, StatementGoto
<1>5. CASE InStatement("indexEnd")
  BY <1>1, <1>2, <1>5, StatementAt, StatementGoto
<1>6. QED
  BY <1>3, <1>4, <1>5

\* Every branch of ParseStandaloneFunctionCall arrives with what it owns.
LEMMA ParseStandaloneFunctionCallKeepsNodes ==
  ASSUME ControlInv, TokenInv, NodeInv, ParseStandaloneFunctionCall
  PROVE  NodeInv'
<1>1. ~Done /\ Top.kind = "stmt"
  BY DEF ParseStandaloneFunctionCall, InStatement, At
<1>2. \/ /\ InStatement("argsEnd")
         /\ \/ tok = ")" /\ Advance(0) /\ Goto("callEnd", 0)
            \/ tok # ")" /\ Stay(1) /\ GotoWith("callEnd", 0, -1)
      \/ /\ InStatement("callEnd")
         /\ \/ Top.own = 2 /\ Advance(0) /\ Return("node", -1)
            \/ Top.own = 1 /\ Advance(0) /\ Return("empty", 0)
            \/ Fail(1 - Top.own)
  BY DEF ParseStandaloneFunctionCall
<1>3. HasErrors => HasErrors'
  BY <1>2, AdvanceLogs, StayLogs
     DEF Fail
<1> USE DEF InStatement, At, StatementFits, StatementPlace, Declares,
        Declaring, ForHeader, Arguments
<1>4. CASE InStatement("argsEnd")
  BY <1>1, <1>2, <1>3, <1>4, StatementAt, StatementGoto, StatementGotoWith
<1>5. CASE InStatement("callEnd")
  BY <1>1, <1>2, <1>3, <1>5, StatementAt, StatementReturn
<1>6. QED
  BY <1>2, <1>4, <1>5

\* Every branch of ParseHeader arrives with what it owns.
LEMMA ParseHeaderKeepsNodes ==
  ASSUME ControlInv, TokenInv, NodeInv, ParseHeader
  PROVE  NodeInv'
<1>1. ~Done /\ Top.kind = "stmt"
  BY DEF ParseHeader, InStatement, At
<1>2. /\ ~Done /\ Top.c \in Conditional
      /\ \/ /\ InStatement("open")
            /\ \/ tok = "(" /\ Advance(Overflow) /\ Call("expr", TopLevelMin, "condition", 0)
               \/ tok # "(" /\ FailHeader(0)
         \/ /\ InStatement("condition")
            /\ \/ ret = "node" /\ Stay(0) /\ Goto("closeParen", 1)
               \/ ret = "null" /\ FailHeader(0)
         \/ /\ InStatement("closeParen")
            /\ \/ tok = ")" /\ Advance(0) /\ Goto("openBrace", 0)
               \/ tok # ")" /\ FailHeader(-1)
         \/ /\ InStatement("openBrace")
            /\ \/ Advance(0) /\ OpenBody(Outer + 1)
               \/ Top.c # "elseif" /\ FailHeader(-1)
               \/ Top.c = "elseif" /\ FailHeader(0)
  BY DEF ParseHeader
<1>3. HasErrors => HasErrors'
  BY <1>2, AdvanceLogs, StayLogs, OverflowType
     DEF FailHeader
<1> USE DEF InStatement, At, StatementFits, StatementPlace, Declares,
        Declaring, ForHeader, Arguments
<1>4. CASE InStatement("open")
  BY <1>1, <1>2, <1>3, <1>4, StatementAt, StatementCall, StatementReturn,
     StayLogs
     DEF WaitsFor, FailHeader, Conditional
<1>5. CASE InStatement("condition")
  BY <1>1, <1>2, <1>3, <1>5, StatementAt, StatementGoto, StatementReturn,
     StayLogs
     DEF FailHeader, Conditional
<1>6. CASE InStatement("closeParen")
  BY <1>1, <1>2, <1>3, <1>6, StatementAt, StatementGoto, StatementReturn,
     StayLogs
     DEF FailHeader, Conditional
<1>7. CASE InStatement("openBrace")
  BY <1>1, <1>2, <1>3, <1>7, StatementAt, StatementReturn, StayLogs,
     OpenBodyKeepsNodes
     DEF FailHeader, Arrives, Fits, Settled, Outer, Conditional
<1>8. QED
  BY <1>2, <1>4, <1>5, <1>6, <1>7

\* Every branch of ParseBody arrives with what it owns.
LEMMA ParseBodyKeepsNodes ==
  ASSUME ControlInv, TokenInv, NodeInv, ParseBody
  PROVE  NodeInv'
<1>1. ~Done /\ Top.kind = "stmt"
  BY DEF ParseBody, InStatement, At
<1>2. HasErrors => HasErrors'
  BY StayLogs, OverflowType
     DEF ParseBody
<1>3. QED
  BY <1>1, <1>2, StatementAt, StatementCall, LeaveBodyKeepsNodes,
     CallKeepsNodes, StayLogs, OverflowType, MoreStatementsUntilError
     DEF ParseBody, InStatement, At, StatementFits, StatementPlace, Declares,
         Declaring, ForHeader, Arguments, WaitsFor, Arrives, Fits, Settled,
         Waits, Guarded, Place, Overflow

\* Every branch of ParseIfStatement arrives with what it owns.
LEMMA ParseIfStatementKeepsNodes ==
  ASSUME ControlInv, TokenInv, NodeInv, ParseIfStatement
  PROVE  NodeInv'
<1>1. ~Done /\ Top.kind = "stmt"
  BY DEF ParseIfStatement, InStatement, At
<1>2. /\ InStatement("close") /\ Top.c = "if"
      /\ \/ Advance(0) /\ Goto("else", 0)
         \/ Fail(-1)
  BY DEF ParseIfStatement
<1>3. HasErrors => HasErrors'
  BY <1>2, AdvanceLogs, StayLogs
     DEF Fail
<1>4. QED
  BY <1>1, <1>2, <1>3, StatementAt, StatementGoto, StatementReturn
     DEF InStatement, At, StatementFits, StatementPlace, Declares, Declaring,
         ForHeader, Arguments

\* Every branch of ParseWhileStatement arrives with what it owns.
LEMMA ParseWhileStatementKeepsNodes ==
  ASSUME ControlInv, TokenInv, NodeInv, ParseWhileStatement
  PROVE  NodeInv'
<1>1. ~Done /\ Top.kind = "stmt"
  BY DEF ParseWhileStatement, InStatement, At
<1>2. /\ InStatement("close") /\ Top.c = "while"
      /\ \/ Advance(0) /\ Return("node", -1)
         \/ Fail(-1)
  BY DEF ParseWhileStatement
<1>3. HasErrors => HasErrors'
  BY <1>2, AdvanceLogs, StayLogs
     DEF Fail
<1>4. QED
  BY <1>1, <1>2, <1>3, StatementAt, StatementReturn
     DEF InStatement, At, StatementFits, StatementPlace, Declares, Declaring,
         ForHeader, Arguments

\* Every branch of ParseElseBlocks arrives with what it owns.
LEMMA ParseElseBlocksKeepsNodes ==
  ASSUME ControlInv, TokenInv, NodeInv, ParseElseBlocks
  PROVE  NodeInv'
<1>1. ~Done /\ Top.kind = "stmt"
  BY DEF ParseElseBlocks, InStatement, At
<1>2. \/ /\ InStatement("else")
         /\ \/ tok = "else" /\ ~HasErrors /\ Advance(0) /\ Goto("elseKind", 0)
            \/ tok # "else" /\ Stay(0) /\ Return("node", -1)
            \/ HasErrors /\ Stay(0) /\ Return("node", -1)
      \/ /\ InStatement("elseKind")
         /\ \/ tok = "if" /\ Advance(0) /\ Begin("elseif", "open")
            \/ Advance(0) /\ Begin("else", "elseBody")
            \/ Stay(1) /\ Return("node", -1)
      \/ InStatement("elseBody") /\ Stay(0) /\ OpenBody(3)
      \/ /\ InStatement("close") /\ Top.c = "elseif"
         /\ \/ Advance(0) /\ Goto("else", -1)
            \/ Stay(1) /\ Return("node", -2)
      \/ /\ InStatement("close") /\ Top.c = "else"
         /\ \/ Advance(0) /\ Return("node", -2)
            \/ Stay(1) /\ Return("node", -2)
  BY DEF ParseElseBlocks
<1>3. HasErrors => HasErrors'
  BY <1>2, AdvanceLogs, StayLogs
<1> USE DEF InStatement, At, StatementFits, StatementPlace, Declares,
        Declaring, ForHeader, Arguments
<1>4. CASE InStatement("else")
  BY <1>1, <1>2, <1>3, <1>4, StatementAt, StatementGoto, StatementReturn
<1>5. CASE InStatement("elseKind")
  BY <1>1, <1>2, <1>3, <1>5, StatementAt, StatementReturn, BeginKeepsNodes
     DEF Arrives, Fits, Settled, Construct, Place
<1>6. CASE InStatement("elseBody")
  BY <1>1, <1>2, <1>3, <1>6, StatementAt, OpenBodyKeepsNodes
     DEF Arrives, Fits, Settled
<1>7. CASE InStatement("close") /\ Top.c = "elseif"
  BY <1>1, <1>2, <1>3, <1>7, StatementAt, StatementGoto, StatementReturn
<1>8. CASE InStatement("close") /\ Top.c = "else"
  BY <1>1, <1>2, <1>3, <1>8, StatementAt, StatementReturn
<1>9. QED
  BY <1>2, <1>4, <1>5, <1>6, <1>7, <1>8

\* Every branch of ParseForInit arrives with what it owns.
LEMMA ParseForInitKeepsNodes ==
  ASSUME ControlInv, TokenInv, NodeInv, ParseForInit
  PROVE  NodeInv'
<1>1. ~Done /\ Top.kind = "stmt"
  BY DEF ParseForInit, InStatement, At
<1>2. \/ /\ InStatement("forInit")
         /\ \/ Advance(0) /\ Goto("forCondition", 0)
            \/ tok = "type" /\ Stay(Overflow) /\ Call("stmt", 0, "forDeclared", 0)
            \/ /\ tok \in Ident /\ Advance(0)
               /\ GotoWith("forIdent", IF tok = "longid" THEN 1 ELSE 0, 0)
            \/ Stay(0) /\ Goto("forCondition", 0)
      \/ /\ InStatement("forDeclared") /\ Stay(0)
         /\ \/ ret # "empty" /\ Goto("forCondition", Acquired)
            \/ ret = "empty" /\ GotoLeaking("forCondition")
      \/ /\ InStatement("forIdent")
         /\ \/ tok = "=" /\ Advance(Overflow) /\ Call("expr", TopLevelMin, "forAssigned", 1)
            \/ tok # "=" /\ Rewind(Overflow) /\ Call("expr", TopLevelMin, "forDiscarded", 0)
      \/ /\ InStatement("forAssigned")
         /\ \/ StayWithout("operand") /\ Goto("forInitDone", 0)
            \/ Stay(1) /\ Goto("forCondition", -1)
      \/ /\ InStatement("forDiscarded")
         /\ \/ Stay(0) /\ Goto("forInitDone", 0)
            \/ Stay(1) /\ Goto("forCondition", 0)
      \/ InStatement("forInitDone") /\ Advance(0) /\ Goto("forCondition", 0)
  BY DEF ParseForInit
<1>3. HasErrors => HasErrors'
  BY <1>2, AdvanceLogs, StayWithoutLogs, RewindLogs, StayLogs, OverflowType
     DEF Dropped
<1> USE DEF InStatement, At, StatementFits, StatementPlace, Declares,
        Declaring, ForHeader, Arguments
<1>4. CASE InStatement("forInit")
  <2>1. /\ Top.pc = "forInit" /\ Top.own = 1 /\ Top.n \in Int /\ Top.c = "for"
        /\ HasErrors => tok = "longid"
    BY <1>1, <1>4, TopFits DEF Fits, Settled
  <2>2. CASE tok = "type" /\ Stay(Overflow) /\ Call("stmt", 0, "forDeclared", 0)
    <3>1. Waits("stmt", "forDeclared", 0)
      BY <1>1, <1>3, <2>1 DEF Waits, Fits, WaitsFor
    <3>2. ~Refused => ~HasErrors'
      BY <2>1, <2>2, StayLogs DEF Overflow
    <3>3. tok' = "type"
      BY <2>2, StayLogs, OverflowType
    <3>4. "stmt" \in Guarded /\ "forDeclared" \in Place
      BY DEF Guarded, Place
    <3>5. QED BY <1>1, <2>2, <3>1, <3>2, <3>3, <3>4, CallKeepsNodes
  <2>3. CASE ~(tok = "type" /\ Stay(Overflow) /\ Call("stmt", 0, "forDeclared", 0))
    BY <1>1, <1>2, <1>3, <2>1, <2>3, StatementGoto, StatementGotoWith
  <2>4. QED BY <2>2, <2>3
<1>5. CASE InStatement("forDeclared")
  <2>1. /\ Top.pc = "forDeclared" /\ Top.own = 1 /\ Top.n \in Int /\ Top.c = "for"
        /\ ret = "empty" => HasErrors
    BY <1>1, <1>5, TopFits DEF Fits, Settled
  <2>2. CASE ret = "empty" /\ GotoLeaking("forCondition")
    <3>1. Arrives(Top.c, "forCondition", Top.n, Top.own) /\ "forCondition" \in Place
      BY <1>1, <1>3, <2>1 DEF Arrives, Fits, Settled, Place
    <3>2. QED BY <1>1, <2>1, <2>2, <3>1, GotoLeakingKeepsNodes
  <2>3. CASE ret # "empty" /\ Goto("forCondition", Acquired)
    BY <1>1, <1>3, <2>1, <2>3, StatementGoto DEF Acquired
  <2>4. QED BY <1>2, <1>5, <2>2, <2>3
<1>6. CASE InStatement("forIdent")
  BY <1>1, <1>2, <1>3, <1>6, StatementAt, StatementCall
     DEF WaitsFor
<1>7. CASE InStatement("forAssigned")
  BY <1>1, <1>2, <1>3, <1>7, StatementAt, StatementGoto
<1>8. CASE InStatement("forDiscarded")
  BY <1>1, <1>2, <1>3, <1>8, StatementAt, StatementGoto
<1>9. CASE InStatement("forInitDone")
  BY <1>1, <1>2, <1>3, <1>9, StatementAt, StatementGoto
<1>10. QED
  BY <1>2, <1>4, <1>5, <1>6, <1>7, <1>8, <1>9

\* Every branch of ParseForIncrement arrives with what it owns.
LEMMA ParseForIncrementKeepsNodes ==
  ASSUME ControlInv, TokenInv, NodeInv, ParseForIncrement
  PROVE  NodeInv'
<1>1. ~Done /\ Top.kind = "stmt"
  BY DEF ParseForIncrement, InStatement, At
<1>2. HasErrors => HasErrors'
  BY AdvanceLogs, StayWithoutLogs, StayLogs, OverflowType
     DEF ParseForIncrement, Dropped
<1> USE DEF ParseForIncrement, InStatement, At, StatementFits, StatementPlace,
        Declares, Declaring, ForHeader, Arguments
<1>3. CASE InStatement("forIncrement")
  BY <1>1, <1>2, <1>3, StatementAt, StatementGoto, StatementGotoWith
<1>4. CASE InStatement("forIncrementOp")
  BY <1>1, <1>2, <1>4, StatementAt, StatementGotoWith, StatementCall
     DEF WaitsFor
<1>5. CASE InStatement("forIncremented")
  BY <1>1, <1>2, <1>5, StatementAt, StatementGotoWith
<1>6. QED
  BY <1>3, <1>4, <1>5

\* Every branch of ParseForStatement arrives with what it owns.
LEMMA ParseForStatementKeepsNodes ==
  ASSUME ControlInv, TokenInv, NodeInv, ParseForStatement
  PROVE  NodeInv'
<1>1. ~Done /\ Top.kind = "stmt"
  BY DEF ParseForStatement, InStatement, At
<1>2. \/ /\ InStatement("open") /\ Top.c = "for"
         /\ \/ tok = "(" /\ Advance(0) /\ Goto("forInit", 0)
            \/ tok # "(" /\ Fail(0)
      \/ /\ InStatement("forCondition")
         /\ \/ Stay(0) /\ Goto("forSemicolon", 0)
            \/ Stay(Overflow) /\ Call("expr", TopLevelMin, "forSemicolon", 0)
      \/ /\ InStatement("forSemicolon")
         /\ \/ Advance(0) /\ Goto("forIncrement", Acquired)
            \/ Fail(1 - Top.own)
      \/ /\ InStatement("forParen")
         /\ \/ tok = ")" /\ Advance(0) /\ Goto("forBrace", 0)
            \/ tok # ")" /\ Fail(1 - Top.own)
      \/ /\ InStatement("forBrace")
         /\ \/ Advance(0) /\ OpenBody(2 + Top.n)
            \/ Fail(1 - Top.own)
      \/ /\ InStatement("close") /\ Top.c = "for"
         /\ \/ Advance(0) /\ Return("node", -1 - Top.n)
            \/ Fail(-1 - Top.n)
  BY DEF ParseForStatement
<1>3. HasErrors => HasErrors'
  BY <1>2, AdvanceLogs, StayLogs, OverflowType
     DEF Fail
<1> USE DEF InStatement, At, StatementFits, StatementPlace, Declares,
        Declaring, ForHeader, Arguments
<1>4. CASE InStatement("open") /\ Top.c = "for"
  <2>1. Top.own = 1 /\ Top.n \in Int /\ (HasErrors => tok = "longid")
    BY <1>1, <1>4, TopFits DEF Fits, Settled
  <2>2. CASE tok = "(" /\ Advance(0) /\ Goto("forInit", 0)
    <3>1. HasErrors' => tok' = "longid"
      BY <2>1, <2>2, AdvanceLogs
    <3>2. Arrives(Top.c, "forInit", Top.n, Top.own + 0) /\ "forInit" \in Place
      BY <1>1, <1>3, <1>4, <2>1, <3>1 DEF Arrives, Fits, Settled, Place
    <3>3. QED BY <1>1, <2>2, <3>2, GotoKeepsNodes
  <2>3. CASE Fail(0)
    BY <1>1, <1>3, <2>1, <2>3, StatementReturn
  <2>4. QED BY <1>2, <1>4, <2>2, <2>3
<1>5. CASE InStatement("forCondition")
  BY <1>1, <1>2, <1>3, <1>5, StatementAt, StatementGoto, StatementCall
     DEF WaitsFor
<1>6. CASE InStatement("forSemicolon")
  BY <1>1, <1>2, <1>3, <1>6, StatementAt, StatementGoto, StatementReturn
     DEF Acquired
<1>7. CASE InStatement("forParen")
  BY <1>1, <1>2, <1>3, <1>7, StatementAt, StatementGoto, StatementReturn
<1>8. CASE InStatement("forBrace")
  BY <1>1, <1>2, <1>3, <1>8, StatementAt, StatementReturn, OpenBodyKeepsNodes
     DEF Arrives, Fits, Settled
<1>9. CASE InStatement("close") /\ Top.c = "for"
  BY <1>1, <1>2, <1>3, <1>9, StatementAt, StatementReturn
<1>10. QED
  BY <1>2, <1>4, <1>5, <1>6, <1>7, <1>8, <1>9

\* Every branch of ParseExpressionPrec arrives with what it owns.
LEMMA ParseExpressionPrecKeepsNodes ==
  ASSUME ControlInv, TokenInv, NodeInv, ParseExpressionPrec
  PROVE  NodeInv'
<1>1. ~Done /\ Top.kind = "expr"
  BY DEF ParseExpressionPrec, InExpression, At
<1>2. HasErrors => HasErrors'
  BY AdvanceLogs, StayLogs, OverflowType
     DEF ParseExpressionPrec
<1>3. QED
  BY <1>1, <1>2, ExpressionSteps
     DEF ParseExpressionPrec, InExpression, At, Precedence

\* Every branch of ParsePrimary arrives with what it owns.
LEMMA ParsePrimaryKeepsNodes ==
  ASSUME ControlInv, TokenInv, NodeInv, ParsePrimary
  PROVE  NodeInv'
<1>1. ~Done /\ Top.kind = "prim"
  BY DEF ParsePrimary, ParseUnary, InPrimary, At
<1>2. HasErrors => HasErrors'
  BY AdvanceLogs, StayLogs, OverflowType
     DEF ParsePrimary, ParseUnary
<1>3. QED
  BY <1>1, <1>2, PrimarySteps
     DEF ParsePrimary, ParseUnary, InPrimary, At, PrimaryOwns, PrimaryPlace,
         Arguments, Acquired

\* Every branch of ParseIdentifier arrives with what it owns.
LEMMA ParseIdentifierKeepsNodes ==
  ASSUME ControlInv, TokenInv, NodeInv, ParseIdentifier
  PROVE  NodeInv'
<1>1. ~Done /\ Top.kind = "prim"
  BY DEF ParseIdentifier, InPrimary, At
<1>2. HasErrors => HasErrors'
  BY AdvanceLogs, StayLogs
     DEF ParseIdentifier
<1>3. QED
  BY <1>1, <1>2, PrimarySteps
     DEF ParseIdentifier, InPrimary, At, PrimaryOwns, PrimaryPlace, Arguments

\* Every branch of ParseArrayAccess arrives with what it owns.
LEMMA ParseArrayAccessKeepsNodes ==
  ASSUME ControlInv, TokenInv, NodeInv, ParseArrayAccess
  PROVE  NodeInv'
<1>1. ~Done /\ Top.kind = "prim"
  BY DEF ParseArrayAccess, InPrimary, At
<1>2. HasErrors => HasErrors'
  BY AdvanceLogs, StayLogs
     DEF ParseArrayAccess
<1>3. QED
  BY <1>1, <1>2, PrimarySteps
     DEF ParseArrayAccess, InPrimary, At, PrimaryOwns, PrimaryPlace, Arguments

\* Every branch of ParseArrayIndex arrives with what it owns.
LEMMA ParseArrayIndexKeepsNodes ==
  ASSUME ControlInv, TokenInv, NodeInv, ParseArrayIndex
  PROVE  NodeInv'
<1>1. ~Done /\ (Top.kind = "stmt" \/ Top.kind = "prim")
  BY DEF ParseArrayIndex, InStatement, InPrimary, At
<1>2. HasErrors => HasErrors'
  BY AdvanceLogs, StayLogs
     DEF ParseArrayIndex
<1> USE DEF ParseArrayIndex, InStatement, InPrimary, At, StatementFits,
        StatementPlace, Declares, Declaring, ForHeader, Arguments, PrimaryOwns,
        PrimaryPlace
<1>3. CASE InStatement("index")
  BY <1>1, <1>2, <1>3, StatementAt, StatementGoto, StatementGotoWith
<1>4. CASE InPrimary("index")
  BY <1>1, <1>2, <1>4, PrimarySteps
<1>5. QED
  BY <1>3, <1>4

\* Every branch of ParseFunctionCallArgs arrives with what it owns.
LEMMA ParseFunctionCallArgsKeepsNodes ==
  ASSUME ControlInv, TokenInv, NodeInv, ParseFunctionCallArgs
  PROVE  NodeInv'
<1>1. ~Done /\ (Top.kind = "stmt" \/ Top.kind = "prim")
  BY DEF ParseFunctionCallArgs, InStatement, InPrimary, At
<1>2. \/ /\ InStatement("args") \/ InPrimary("args")
         /\ \/ tok \in {")", "eof"} /\ Stay(0) /\ Goto("argsEnd", 0)
            \/ /\ tok \notin {")", "eof"}
               /\ Stay(Overflow) /\ Call("expr", TopLevelMin, "argsComma", 0)
      \/ /\ InStatement("argsComma") \/ InPrimary("argsComma")
         /\ StayWithout("operand") /\ Goto("argsMore", 0)
      \/ /\ InStatement("argsMore") \/ InPrimary("argsMore")
         /\ \/ Advance(0) /\ Goto("args", 0)
            \/ Stay(0) /\ Goto("argsEnd", 0)
      \/ /\ InPrimary("argsEnd")
         /\ \/ tok = ")" /\ Advance(0) /\ Return("node", 0)
            \/ tok # ")" /\ Stay(1) /\ Return("null", -1)
  BY DEF ParseFunctionCallArgs
<1>3. HasErrors => HasErrors'
  BY <1>2, AdvanceLogs, StayWithoutLogs, StayLogs, OverflowType
     DEF Dropped
<1> USE DEF InStatement, InPrimary, At, StatementFits, StatementPlace,
        Declares, Declaring, ForHeader, Arguments, PrimaryOwns, PrimaryPlace
<1>4. CASE InStatement("args")
  BY <1>1, <1>2, <1>3, <1>4, StatementAt, StatementGoto, StatementCall
     DEF WaitsFor
<1>5. CASE InPrimary("args")
  BY <1>1, <1>2, <1>3, <1>5, PrimarySteps
<1>6. CASE InStatement("argsComma")
  BY <1>1, <1>2, <1>3, <1>6, StatementAt, StatementGoto
<1>7. CASE InPrimary("argsComma")
  BY <1>1, <1>2, <1>3, <1>7, PrimarySteps
<1>8. CASE InStatement("argsMore")
  BY <1>1, <1>2, <1>3, <1>8, StatementAt, StatementGoto
<1>9. CASE InPrimary("argsMore")
  BY <1>1, <1>2, <1>3, <1>9, PrimarySteps
<1>10. CASE InPrimary("argsEnd")
  BY <1>1, <1>2, <1>3, <1>10, PrimarySteps
<1>11. QED
  BY <1>2, <1>4, <1>5, <1>6, <1>7, <1>8, <1>9, <1>10

-----------------------------------------------------------------------------
(* The invariant and what follows from it. *)

\* The invariant holds when parse_program is entered.
LEMMA InitEstablishesNodes ==
  ASSUME Init
  PROVE  NodeInv
<1>1. New("program", 0) \in Frame
  BY DEF New, Frame, Kind, Construct, Place, ProgramPlace
<1>2. /\ stack \in Seq(Frame) /\ Len(stack) = 1 /\ stack[1] = New("program", 0)
      /\ DOMAIN stack = {1}
  BY <1>1 DEF Init
<1>3. Top = New("program", 0)
  BY <1>2 DEF Top
<1>4. /\ New("program", 0).kind = "program" /\ New("program", 0).c = "-"
      /\ New("program", 0).pc = "entry" /\ New("program", 0).n = 0
      /\ New("program", 0).own = 1
  BY DEF New
<1>5. Fits("program", "-", "entry", 0, 1)
  BY DEF Fits, ProgramOwns, ProgramPlace
<1>6. FramesFit /\ CallsMatch /\ ForDeclares
  BY <1>2, <1>4, <1>5 DEF FramesFit, CallsMatch, ForDeclares
<1>7. TopSettled
  BY <1>3, <1>4 DEF TopSettled, Settled
<1>8. NothingLost
  BY DEF Init, NothingLost
<1>9. QED BY <1>6, <1>7, <1>8 DEF NodeInv

\* Every step keeps it, by the lemma of its action.
LEMMA NextKeepsNodes ==
  ASSUME IInv, NodeInv, [Next]_vars
  PROVE  NodeInv'
<1>1. ControlInv /\ TokenInv
  BY DEF IInv
<1>2. CASE ProgramStep
  BY <1>1, <1>2, ParseProgramKeepsNodes, ParseStructDeclarationKeepsNodes,
     ParseFunctionDeclarationKeepsNodes, SkipToSyncPointKeepsNodes,
     SkipToSemicolonKeepsNodes, ParseFunctionParametersKeepsNodes,
     ParseSingleParameterKeepsNodes, ParseFunctionBodyKeepsNodes,
     ParseStructKeepsNodes, ParseStructFieldKeepsNodes
     DEF ProgramStep
<1>3. CASE StatementStep
  BY <1>1, <1>3, ParseStatementKeepsNodes, ParseJumpKeepsNodes,
     ParseReturnKeepsNodes, ParseVariableDeclarationKeepsNodes,
     ParseInitializerListKeepsNodes, ParseAssignmentOrExpressionKeepsNodes,
     ParseLhsExpressionKeepsNodes, ParseStandaloneFunctionCallKeepsNodes,
     ParseHeaderKeepsNodes, ParseBodyKeepsNodes, ParseIfStatementKeepsNodes,
     ParseWhileStatementKeepsNodes, ParseElseBlocksKeepsNodes,
     ParseForInitKeepsNodes, ParseForIncrementKeepsNodes,
     ParseForStatementKeepsNodes
     DEF StatementStep
<1>4. CASE ExpressionStep
  BY <1>1, <1>4, ParseExpressionPrecKeepsNodes, ParsePrimaryKeepsNodes,
     ParseIdentifierKeepsNodes, ParseArrayAccessKeepsNodes,
     ParseArrayIndexKeepsNodes, ParseFunctionCallArgsKeepsNodes
     DEF ExpressionStep
<1>5. CASE UNCHANGED vars
  BY <1>5 DEF vars, NodeInv, FramesFit, CallsMatch, TopSettled, ForDeclares,
              NothingLost, Declares, Done, Top, HasErrors
<1>6. QED BY <1>2, <1>3, <1>4, <1>5 DEF Next, Finished

\* Every activation owns what it should own at its place, in every state.
THEOREM NodeInvariance == Spec => [](IInv /\ NodeInv)
<1>1. Init => IInv /\ NodeInv
  BY InitEstablishesInv, InitEstablishesNodes
<1>2. (IInv /\ NodeInv) /\ [Next]_vars => (IInv /\ NodeInv)'
  BY NextKeepsInv, NextKeepsNodes
<1>3. QED BY <1>1, <1>2, PTL DEF Spec

\* What a parser's local variables own is never a negative number of subtrees.
LEMMA FramesOwn ==
  ASSUME ControlInv, NodeInv
  PROVE  \A i \in DOMAIN stack : stack[i].own >= 0
<1> SUFFICES ASSUME NEW i \in DOMAIN stack
             PROVE  stack[i].own >= 0
  OBVIOUS
<1>1. stack[i] \in Frame
  BY DEF ControlInv, ControlTypes
<1>2. Fits(stack[i].kind, stack[i].c, stack[i].pc, stack[i].n, stack[i].own)
  BY DEF NodeInv, FramesFit
<1>3. CASE stack[i].kind = "stmt"
  BY <1>1, <1>2, <1>3
     DEF Fits, StatementFits, StatementPlace, ForHeader, Arguments, Frame
<1>4. CASE stack[i].kind # "stmt"
  BY <1>1, <1>2, <1>4 DEF Fits, ProgramOwns, Frame, Kind
<1>5. QED BY <1>3, <1>4

\* On every path of every parser, for every input and nesting limit, a node is
\* freed or attached at most once, and none is lost before the first diagnostic.
THEOREM NodesAreOwned == Spec => []NodeOwnership
<1>1. IInv /\ NodeInv => NodeOwnership
  BY FramesOwn DEF IInv, NodeInv, NothingLost, NodeOwnership
<1>2. QED BY <1>1, NodeInvariance, PTL

-----------------------------------------------------------------------------
(* What a step of the parser is made of: one operator on the diagnostics    *)
(* and one on the call stack.                                               *)

\* Every operator on the tokens keeps the diagnostics.
LEMMA TokenOperatorsLog ==
  ASSUME TokenInv
  PROVE  LET Kept == HasErrors => HasErrors' IN
         /\ Advance(0) => Kept
         /\ Advance(1) => Kept
         /\ Advance(Overflow) => Kept
         /\ Stay(0) => Kept
         /\ Stay(1) => Kept
         /\ Stay(2) => Kept
         /\ Stay(Overflow) => Kept
         /\ Rewind(Overflow) => Kept
         /\ \A k \in {0, 1} : Advance(k) => Kept
         /\ \A what : StayWithout(what) => Kept
         /\ \A what : Discard(what) => Kept
BY OverflowType
   DEF Advance, Stay, Rewind, StayWithout, Discard, AdvanceLogging, Plus,
       HasErrors, TokenInv

\* A diagnostic is never withdrawn.
LEMMA DiagnosticsKept ==
  ASSUME TokenInv, [Next]_vars
  PROVE  HasErrors => HasErrors'
<1>1. CASE ProgramStep
  BY <1>1, TokenOperatorsLog
     DEF ProgramStep, ParseProgram, ParseStructDeclaration,
         ParseFunctionDeclaration, SkipToSyncPoint, SkipToSemicolon,
         ParseFunctionParameters, ParseSingleParameter, ParseFunctionBody,
         ParseStruct, ParseStructField
<1>2. CASE StatementStep
  BY <1>2, TokenOperatorsLog
     DEF StatementStep, ParseStatement, ParseJump, ParseReturn,
         ParseVariableDeclaration, ParseInitializerList,
         ParseAssignmentOrExpression, ParseLhsExpression,
         ParseStandaloneFunctionCall, ParseHeader, ParseBody,
         ParseIfStatement, ParseWhileStatement, ParseElseBlocks,
         ParseForInit, ParseForIncrement, ParseForStatement, Fail, FailHeader
<1>3. CASE ExpressionStep
  BY <1>3, TokenOperatorsLog
     DEF ExpressionStep, ParseExpressionPrec, ParsePrimary, ParseUnary,
         ParseIdentifier, ParseArrayAccess, ParseArrayIndex,
         ParseFunctionCallArgs
<1>4. CASE UNCHANGED vars
  BY <1>4 DEF vars, HasErrors
<1>5. QED BY <1>1, <1>2, <1>3, <1>4 DEF Next, Finished

\* The call stack changes in one of these ways.
Steps == \/ \E pc, d : Goto(pc, d)
         \/ \E pc, n, d : GotoWith(pc, n, d)
         \/ \E pc : GotoLeaking(pc)
         \/ \E c, pc : Begin(c, pc)
         \/ \E own : OpenBody(own)
         \/ LeaveBody
         \/ \E n, pc, d : Call("expr", n, pc, d)
         \/ \E pc : CallPrimary(pc)
Returns == \E r, d : Return(r, d)
CallsStatement == \E pc, d : Call("stmt", 0, pc, d)

\* parse_program begins a statement in its body loop only, which stops at an
\* error, and returns from its declaration loop only.
LEMMA ProgramStepShape ==
  ASSUME ProgramStep
  PROVE  \/ Steps
         \/ MoreStatements /\ CallsStatement
         \/ InProgram("top") /\ ~MoreDeclarations /\ Stay(0) /\ Returns
BY DEF ProgramStep, ParseProgram, ParseStructDeclaration,
       ParseFunctionDeclaration, SkipToSyncPoint, SkipToSemicolon,
       ParseFunctionParameters, ParseSingleParameter, ParseFunctionBody,
       ParseStruct, ParseStructField, Steps, Returns, CallsStatement

\* A statement begins one in a body loop, or for the declaration of a for init.
LEMMA StatementStepShape ==
  ASSUME StatementStep
  PROVE  \/ Steps
         \/ Returns
         \/ MoreStatements /\ CallsStatement
         \/ InStatement("forInit") /\ tok = "type" /\ CallsStatement
BY DEF StatementStep, ParseStatement, ParseJump, ParseReturn,
       ParseVariableDeclaration, ParseInitializerList,
       ParseAssignmentOrExpression, ParseLhsExpression,
       ParseStandaloneFunctionCall, ParseHeader, ParseBody,
       ParseIfStatement, ParseWhileStatement, ParseElseBlocks,
       ParseForInit, ParseForIncrement, ParseForStatement, Fail, FailHeader,
       Steps, Returns, CallsStatement

\* An expression begins no statement.
LEMMA ExpressionStepShape ==
  ASSUME ExpressionStep
  PROVE  Steps \/ Returns
BY DEF ExpressionStep, ParseExpressionPrec, ParsePrimary, ParseUnary,
       ParseIdentifier, ParseArrayAccess, ParseArrayIndex,
       ParseFunctionCallArgs, Steps, Returns

\* A step is one of the innermost activation's parser.
LEMMA StepsRun ==
  /\ ProgramStep => ~Done /\ Top.kind = "program"
  /\ StatementStep => ~Done /\ Top.kind = "stmt"
  /\ ExpressionStep => ~Done /\ Top.kind \in {"stmt", "expr", "prim"}
<1>1. ProgramStep => \E pc : InProgram(pc)
  BY DEF ProgramStep, ParseProgram, ParseStructDeclaration,
         ParseFunctionDeclaration, SkipToSyncPoint, SkipToSemicolon,
         ParseFunctionParameters, ParseSingleParameter, ParseFunctionBody,
         ParseStruct, ParseStructField
<1>2. StatementStep => \E pc : InStatement(pc)
  BY DEF StatementStep, ParseStatement, ParseJump, ParseReturn,
         ParseVariableDeclaration, ParseInitializerList,
         ParseAssignmentOrExpression, ParseLhsExpression,
         ParseStandaloneFunctionCall, ParseHeader, ParseBody,
         ParseIfStatement, ParseWhileStatement, ParseElseBlocks,
         ParseForInit, ParseForIncrement, ParseForStatement
<1>3. ExpressionStep => \E pc : InStatement(pc) \/ InExpression(pc) \/ InPrimary(pc)
  BY DEF ExpressionStep, ParseExpressionPrec, ParsePrimary, ParseUnary,
         ParseIdentifier, ParseArrayAccess, ParseArrayIndex,
         ParseFunctionCallArgs
<1>4. QED
  BY <1>1, <1>2, <1>3 DEF InProgram, InStatement, InExpression, InPrimary, At

\* A step that is neither a return nor a call of parse_statement begins no
\* statement and leaves parse_program on the call stack.
LEMMA StepsKeepStatements ==
  ASSUME ControlInv, ~Done, Steps
  PROVE  Statements' \subseteq Statements /\ ~Done'
<1> DEFINE k == Len(stack)
<1>1. Top \in Frame /\ stack \in Seq(Frame) /\ k \in DOMAIN stack /\ stack[k] = Top
  BY TopIsFrame DEF ControlInv, ControlTypes, Top
<1>2. ASSUME NEW f, Becomes(f), f.kind = Top.kind
      PROVE  Statements' \subseteq Statements /\ ~Done'
  <2>1. stack' = [stack EXCEPT ![k] = f] /\ DOMAIN stack' = DOMAIN stack
    BY <1>1, <1>2 DEF Becomes
  <2>2. \A i \in DOMAIN stack : stack'[i].kind = stack[i].kind
    BY <1>1, <1>2, <2>1
  <2>3. QED BY <1>1, <2>1, <2>2 DEF Statements, Done
<1>3. ASSUME NEW kind, NEW n, NEW pc, NEW d, kind # "stmt",
             stack' = Push(kind, n, pc, d)
      PROVE  Statements' \subseteq Statements /\ ~Done'
  <2> DEFINE f == [Top EXCEPT !.pc = pc, !.own = @ + d]
             t == [stack EXCEPT ![k] = f]
             g == New(kind, n)
  <2>1. f.kind = Top.kind /\ g.kind = kind
    BY <1>1 DEF Frame, New
  <2>2. stack' = Append(t, g)
    BY <1>3 DEF Push
  <2> HIDE DEF f, g
  <2>3. /\ Len(t) = k /\ DOMAIN t = 1..k /\ k \in Nat /\ DOMAIN stack = 1..k
        /\ t[k] = f /\ \A i \in 1..k : i # k => t[i] = stack[i]
    BY <1>1
  <2> HIDE DEF t, k
  <2>4. /\ DOMAIN stack' = 1..(k + 1) /\ stack'[k + 1] = g
        /\ \A i \in 1..k : stack'[i] = t[i]
    BY <2>2, <2>3
  <2>5. \A i \in 1..k : stack'[i].kind = stack[i].kind
    BY <1>1, <2>1, <2>3, <2>4
  <2>6. Statements' \subseteq Statements
    BY <1>3, <2>1, <2>3, <2>4, <2>5 DEF Statements
  <2>7. QED BY <2>3, <2>4, <2>6 DEF Done
<1>4. \A kind, n, pc, d : Call(kind, n, pc, d) =>
        \/ stack' = Push(kind, n, pc, d)
        \/ Becomes([Top EXCEPT !.pc = pc, !.own = @ + d])
  BY DEF Call
<1>5. /\ \A pc, own : /\ [Top EXCEPT !.pc = pc].kind = Top.kind
                      /\ [Top EXCEPT !.pc = pc, !.own = own].kind = Top.kind
      /\ \A pc, d : [Top EXCEPT !.pc = pc, !.own = @ + d].kind = Top.kind
      /\ \A pc, n, d : [Top EXCEPT !.pc = pc, !.n = n, !.own = @ + d].kind = Top.kind
      /\ \A c, pc : [Top EXCEPT !.pc = pc, !.c = c].kind = Top.kind
  BY <1>1 DEF Frame
<1>6. CASE \E pc, d : Goto(pc, d)
  BY <1>2, <1>5, <1>6 DEF Goto
<1>7. CASE \E pc, n, d : GotoWith(pc, n, d)
  <2>1. PICK pc, n, d : GotoWith(pc, n, d)
    BY <1>7
  <2>2. [Top EXCEPT !.pc = pc, !.n = n, !.own = @ + d].kind = Top.kind
    BY <1>5
  <2>3. QED BY <1>2, <2>1, <2>2 DEF GotoWith
<1>8. CASE (\E pc : GotoLeaking(pc)) \/ LeaveBody
  BY <1>2, <1>5, <1>8 DEF GotoLeaking, LeaveBody
<1>9. CASE (\E c, pc : Begin(c, pc)) \/ \E own : OpenBody(own)
  BY <1>2, <1>5, <1>9 DEF Begin, OpenBody
<1>10. CASE \E n, pc, d : Call("expr", n, pc, d)
  BY <1>2, <1>3, <1>4, <1>5, <1>10
<1>11. CASE \E pc : CallPrimary(pc)
  BY <1>3, <1>11 DEF CallPrimary
<1>12. QED BY <1>6, <1>7, <1>8, <1>9, <1>10, <1>11 DEF Steps

\* Nor does a return.
LEMMA ReturnKeepsStatements ==
  ASSUME ControlInv, ~Done, Returns
  PROVE  Statements' \subseteq Statements
<1>1. stack \in Seq(Frame) /\ stack # <<>>
  BY DEF ControlInv, ControlTypes, Done
<1>2. stack' = SubSeq(stack, 1, Len(stack) - 1)
  BY DEF Returns, Return
<1>3. QED BY <1>1, <1>2, RemoveTop DEF Statements

\* The first diagnostic ends the parsing of statements: whatever the input, the
\* set of statements being parsed only shrinks from then on.
THEOREM NoStatementIsBegunAfterAnError == Spec => NoStatementAfterError
<1>1. IInv /\ NodeInv /\ [Next]_vars =>
        [HasErrors => Statements' \subseteq Statements]_vars
  <2>1. SUFFICES ASSUME ControlInv, TokenInv, NodeInv, Next, HasErrors
                 PROVE  Statements' \subseteq Statements
    BY DEF IInv
  <2>2. CASE ProgramStep
    BY <2>1, <2>2, StepsRun, ProgramStepShape, StepsKeepStatements,
       ReturnKeepsStatements, MoreStatementsUntilError
  <2>3. CASE StatementStep
    <3>1. InStatement("forInit") => tok = "longid"
      BY <2>1, TopFits
         DEF InStatement, At, Fits, StatementFits, Settled, ForHeader
    <3>2. QED
      BY <2>1, <2>3, <3>1, StepsRun, StatementStepShape, StepsKeepStatements,
         ReturnKeepsStatements, MoreStatementsUntilError
  <2>4. CASE ExpressionStep
    BY <2>1, <2>4, StepsRun, ExpressionStepShape, StepsKeepStatements,
       ReturnKeepsStatements
  <2>5. CASE Finished
    BY <2>5 DEF Finished, vars, Statements
  <2>6. QED BY <2>1, <2>2, <2>3, <2>4, <2>5 DEF Next
<1>2. QED BY <1>1, NodeInvariance, PTL DEF Spec, NoStatementAfterError

-----------------------------------------------------------------------------
(* parse_program keeps its promise to main: the safety part of ParseContract. *)

\* The last activation on the call stack is parse_program's: it alone can
\* end the parse, and only without a diagnostic at the end of the input.
LEMMA LastReturn ==
  ASSUME ControlInv, TokenInv, NodeInv, Next, ~Done, Done'
  PROVE  /\ InProgram("top") /\ ~MoreDeclarations /\ Stay(0)
<1>1. stack \in Seq(Frame) /\ stack # <<>> /\ ~Steps
  BY StepsKeepStatements DEF ControlInv, ControlTypes, Done
<1>2. ~CallsStatement
  <2>1. ASSUME NEW pc, NEW d, Call("stmt", 0, pc, d)
        PROVE  stack' # <<>>
    BY <1>1, <2>1 DEF Call, Becomes, Push
  <2>2. QED BY <2>1 DEF CallsStatement, Done
<1>3. Returns => Len(stack) = 1
  BY <1>1, RemoveTop DEF Returns, Return, Done
<1>4. Returns => Top.kind = "program"
  BY <1>3 DEF NodeInv, CallsMatch, Top
<1>5. CASE ProgramStep
  BY <1>1, <1>2, <1>5, ProgramStepShape
<1>6. CASE StatementStep
  BY <1>1, <1>2, <1>4, <1>6, StepsRun, StatementStepShape
<1>7. CASE ExpressionStep
  BY <1>1, <1>4, <1>7, StepsRun, ExpressionStepShape
<1>8. QED BY <1>5, <1>6, <1>7 DEF Next, Finished

\* parse_program keeps every diagnostic, and when it returns without one the
\* current token is the end of the file (that it returns is left to TLC).
THEOREM ContractIsSafe == Spec => Contract!Spec
<1>1. Init => Contract!Init
  <2>1. SUFFICES ASSUME Init PROVE Contract!Init
    OBVIOUS
  <2>2. ~Done /\ ~HasErrors
    BY <2>1 DEF Init, Done, HasErrors
  <2>3. QED BY <2>2 DEF Contract!Init
<1>2. IInv /\ NodeInv /\ [Next]_vars => [Contract!Next]_(Contract!vars)
  <2>1. SUFFICES ASSUME ControlInv, TokenInv, NodeInv, [Next]_vars
                 PROVE  [Contract!Next]_(Contract!vars)
    BY DEF IInv
  <2>2. HasErrors => HasErrors'
    BY <2>1, DiagnosticsKept
  <2>3. CASE UNCHANGED vars \/ Done
    <3>1. UNCHANGED vars
      BY <2>1, <2>3, StepsRun DEF Next, Finished
    <3>2. QED BY <3>1 DEF vars, Contract!vars, Done, HasErrors
  <2>4. CASE ~Done /\ ~Done'
    <3>1. (errors > 0)' \in {errors > 0, TRUE}
      <4>1. (errors > 0) => (errors > 0)'
        BY <2>2 DEF HasErrors
      <4>2. (errors > 0) \in BOOLEAN /\ (errors > 0)' \in BOOLEAN
        OBVIOUS
      <4>3. QED BY <4>1, <4>2, Zenon
    <3>2. QED BY <2>4, <3>1 DEF Contract!Next, Contract!Work, HasErrors
  <2>5. CASE ~Done /\ Done' /\ Next
    <3>1. InProgram("top") /\ ~MoreDeclarations /\ Stay(0)
      BY <2>1, <2>5, LastReturn
    <3>2. tok' = tok /\ (HasErrors' <=> HasErrors)
      BY <2>1, <3>1, StayLogs
    <3>3. HasErrors \/ tok = "eof"
      BY <3>1 DEF MoreDeclarations
    <3>4. QED BY <2>5, <3>2, <3>3 DEF Contract!Next, Contract!Return
  <2>6. QED BY <2>1, <2>3, <2>4, <2>5
<1>3. QED BY <1>1, <1>2, NodeInvariance, PTL DEF Spec, Contract!Spec

-----------------------------------------------------------------------------
(* The depth guard bounds the C call stack but for unary operators.         *)

\* The activations that neither count for the depth nor wait for the operand
\* of a unary operator: parse_program, and operand parsers.
Unguarded == DOMAIN stack \ (Waiting \cup Activations)

\* Each of them, but the innermost, waits for the guarded activation above it;
\* the third activation is guarded, and called by the statement below it.
LEMMA UnguardedAreFew ==
  ASSUME ControlInv, NodeInv, Activations # {}
  PROVE  Cardinality(Unguarded) <= Cardinality(Activations)
<1> DEFINE k == Len(stack)
           g == [i \in Unguarded |->
                   IF i # k THEN i + 1 ELSE IF k = 1 THEN 1 ELSE 3]
<1>1. /\ stack \in Seq(Frame) /\ k \in Nat /\ DOMAIN stack = 1..k
      /\ \A i \in 1..k : stack[i] \in Frame
  BY DEF ControlInv, ControlTypes
<1>2. stack # <<>> /\ stack[1].kind = "program" /\ k >= 1
  <2>1. stack # <<>>
    BY DEF Activations
  <2>2. QED BY <1>1, <2>1 DEF NodeInv, CallsMatch, Done
<1>3. \A i \in 1..k :
        i # k => WaitsFor(stack[i].kind, stack[i].pc, stack[i + 1].kind)
  BY <1>1 DEF NodeInv, CallsMatch
<1> HIDE DEF k
<1>4. \A i \in 1..k : stack[i].kind = "program" => i = 1
  <2>1. SUFFICES ASSUME NEW i \in 1..k, stack[i].kind = "program", i # 1
                 PROVE  FALSE
    OBVIOUS
  <2>2. i - 1 \in 1..k /\ i - 1 # k /\ (i - 1) + 1 = i
    BY <1>1, <2>1
  <2>3. WaitsFor(stack[i - 1].kind, stack[i - 1].pc, stack[i].kind)
    BY <1>3, <2>2
  <2>4. QED BY <2>1, <2>3 DEF WaitsFor
<1>5. k # 1 /\ stack[2].kind = "stmt"
  <2>1. k # 1
    BY <1>1, <1>2 DEF Activations, Guarded
  <2>2. WaitsFor("program", stack[1].pc, stack[2].kind) /\ stack[2] \in Frame
    BY <1>1, <1>2, <1>3, <2>1
  <2>3. QED BY <2>1, <2>2 DEF WaitsFor, Frame, Kind
<1>6. k >= 3 => stack[3].kind \in Guarded
  <2>1. SUFFICES ASSUME k >= 3 PROVE stack[3].kind \in Guarded
    OBVIOUS
  <2>2. WaitsFor("stmt", stack[2].pc, stack[3].kind) /\ stack[3] \in Frame
    BY <1>1, <1>3, <1>5, <2>1
  <2>3. QED BY <2>2 DEF WaitsFor, Frame, Kind, Guarded
<1>7. \A i \in Unguarded :
        /\ i \in 1..k /\ i # 2
        /\ i # 1 => stack[i].kind = "prim" /\ stack[i].pc # "unary"
  <2>1. SUFFICES ASSUME NEW i \in Unguarded
                 PROVE  /\ i \in 1..k /\ i # 2
                        /\ i # 1 => stack[i].kind = "prim" /\ stack[i].pc # "unary"
    OBVIOUS
  <2>2. /\ i \in 1..k /\ i \notin Activations /\ i \notin Waiting
        /\ stack[i] \in Frame
    BY <1>1 DEF Unguarded
  <2>3. stack[i].kind \in {"program", "prim"}
    BY <1>1, <2>2 DEF Activations, Guarded, Frame, Kind
  <2>4. stack[i].kind = "prim" => stack[i].pc # "unary"
    BY <1>1, <2>2 DEF Waiting
  <2>5. i # 2
    BY <1>5, <2>3
  <2>6. stack[i].kind = "program" => i = 1
    BY <1>4, <2>2
  <2>7. QED BY <2>2, <2>3, <2>4, <2>5, <2>6
<1>8. \A i \in Unguarded : i # k => stack[i + 1].kind \in Guarded
  <2>1. SUFFICES ASSUME NEW i \in Unguarded, i # k
                 PROVE  stack[i + 1].kind \in Guarded
    OBVIOUS
  <2>2. /\ WaitsFor(stack[i].kind, stack[i].pc, stack[i + 1].kind)
        /\ stack[i + 1] \in Frame
    BY <1>1, <1>3, <1>7, <2>1
  <2>3. CASE i = 1
    BY <1>5, <2>3 DEF Guarded
  <2>4. CASE i # 1
    BY <1>7, <2>1, <2>2, <2>4 DEF WaitsFor, Frame, Kind, Guarded
  <2>5. QED BY <2>3, <2>4
<1>9. \A i \in Unguarded : i = k => k >= 3
  BY <1>1, <1>5, <1>7
<1>10. \A i \in Unguarded : g[i] \in Activations
  BY <1>1, <1>5, <1>6, <1>7, <1>8, <1>9 DEF Activations
<1>11. \A i, j \in Unguarded : g[i] = g[j] => i = j
  BY <1>1, <1>5, <1>7, <1>9
<1>12. g \in Injection(Unguarded, Activations)
  <2>1. g \in [Unguarded -> Activations]
    BY <1>10
  <2>2. \A i, j \in DOMAIN g : g[i] = g[j] => i = j
    BY <1>11
  <2> HIDE DEF g
  <2>3. QED BY <2>1, <2>2 DEF Injection, IsInjective
<1>13. IsFiniteSet(Activations)
  BY <1>1, FramesFinite DEF Activations
<1> HIDE DEF g
<1>14. QED BY <1>12, <1>13, FS_Injection

\* For every GATES_MAX_PARSE_DEPTH the C call stack holds at most twice as many
\* activations, not counting those that wait for the operand of an operator.
THEOREM StackIsBounded == Spec => []StackBoundedButForUnary
<1>1. IInv /\ NodeInv => StackBoundedButForUnary
  <2>1. SUFFICES ASSUME ControlInv, NodeInv
                 PROVE  Cardinality(DOMAIN stack \ Waiting) <= 2 * MaxDepth
    BY DEF IInv, StackBoundedButForUnary
  <2>2. /\ stack \in Seq(Frame) /\ MaxDepth \in Nat \ {0}
        /\ Cardinality(Activations) <= MaxDepth
    <3>1. depth = Cardinality(Activations) /\ depth <= MaxDepth
      BY <2>1 DEF ControlInv, DepthCountsActivations
    <3>2. stack \in Seq(Frame)
      BY <2>1 DEF ControlInv, ControlTypes
    <3>3. QED BY <3>1, <3>2, ParserAssumption
  <2>3. /\ IsFiniteSet(Activations) /\ Cardinality(Activations) \in Nat
        /\ IsFiniteSet(Unguarded) /\ Cardinality(Unguarded) \in Nat
        /\ IsFiniteSet(DOMAIN stack \ Waiting)
        /\ Cardinality(DOMAIN stack \ Waiting) \in Nat
    BY <2>2, FramesFinite DEF Activations, Unguarded
  <2>4. CASE Activations # {}
    <3>1. Cardinality(Unguarded) <= Cardinality(Activations)
      BY <2>1, <2>4, UnguardedAreFew
    <3>2. /\ IsFiniteSet(Unguarded \cup Activations)
          /\ Cardinality(Unguarded \cup Activations)
               = Cardinality(Unguarded) + Cardinality(Activations)
                   - Cardinality(Unguarded \cap Activations)
      BY <2>3, FS_Union
    <3>3. Unguarded \cap Activations = {}
      BY DEF Unguarded
    <3>4. DOMAIN stack \ Waiting \in SUBSET (Unguarded \cup Activations)
      BY DEF Unguarded
    <3>5. Cardinality(DOMAIN stack \ Waiting)
            <= Cardinality(Unguarded \cup Activations)
      BY <3>2, <3>4, FS_Subset
    <3>6. Cardinality(Unguarded \cap Activations) = 0
      BY <3>3, FS_EmptySet, Zenon
    <3>7. QED BY <2>2, <2>3, <3>1, <3>2, <3>5, <3>6
  <2>5. CASE Activations = {}
    <3>1. Len(stack) \in Nat /\ DOMAIN stack = 1..Len(stack)
      BY <2>2
    <3>2. Len(stack) <= 1
      <4>1. SUFFICES ASSUME Len(stack) > 1 PROVE FALSE
        BY <3>1
      <4>2. /\ WaitsFor("program", stack[1].pc, stack[2].kind)
            /\ stack[2] \in Frame /\ 2 \in DOMAIN stack
        BY <2>1, <2>2, <3>1, <4>1 DEF NodeInv, CallsMatch, Done
      <4>3. stack[2].kind \in Guarded
        BY <4>2 DEF WaitsFor, Frame, Kind, Guarded
      <4>4. QED BY <2>5, <4>2, <4>3 DEF Activations
    <3>3. DOMAIN stack \ Waiting \in SUBSET {1}
      BY <3>1, <3>2
    <3>4. IsFiniteSet({1}) /\ Cardinality({1}) = 1
      BY FS_Singleton
    <3>5. Cardinality(DOMAIN stack \ Waiting) <= 1
      BY <3>3, <3>4, FS_Subset
    <3>6. QED BY <2>2, <2>3, <3>5
  <2>6. QED BY <2>4, <2>5
<1>2. QED BY <1>1, NodeInvariance, PTL

===============================================================================
