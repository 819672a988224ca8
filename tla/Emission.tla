------------------------------- MODULE Emission -------------------------------
(***************************************************************************)
(* The generation of statements (src/codegen/codegen_vhdl_statements.c,    *)
(* generate_node in codegen_vhdl_main.c): a walk over the tree of a        *)
(* function that writes the lines of its process.                          *)
(*                                                                         *)
(* `stack` is the C call stack, a frame being an activation or the loop    *)
(* over a branch inside one.  A step handles the next child of the frame   *)
(* on top: it writes a line, calls, or passes over it.  Expressions are    *)
(* leaves with a name; an EXPRESSION stands for those that are emitted as  *)
(* one value, a BINARY_EXPR for those that are boolean.  generate_node     *)
(* writes an expression inside a line; as a statement it is passed over.   *)
(* What assigns a struct field by field, or an array element, is one       *)
(* assignment here.                                                        *)
(***************************************************************************)
EXTENDS ProcessText

CONSTANTS
  Outside,  \* the nodes that are not in the body of a loop
  Inside    \* those that are

Nodes == Outside \cup Inside
Types == {"FUNCTION_DECL", "STATEMENT", "VAR_DECL", "ASSIGNMENT", "IF",
          "ELSE_IF", "ELSE", "WHILE", "FOR", "BREAK", "CONTINUE", "EXPRESSION",
          "BINARY_EXPR"}
Loops == {"WHILE", "FOR"}

ChildrenOf(nodes) == UNION {Range(n.children) : n \in nodes}

\* The trees that the parser builds: nodes whose children are nodes, with
\* break and continue in loops only (parse_break_statement,
\* parse_continue_statement), and else as the last branch (parse_else_blocks).
ASSUME TreeAssumption ==
  /\ Nodes \subseteq [type : Types, value : Names, children : Seq(Nodes)]
  /\ {"", "result"} \subseteq Names
  /\ \A n \in Outside : n.type \notin {"BREAK", "CONTINUE"}
  /\ ChildrenOf({n \in Outside : n.type \notin Loops}) \subseteq Outside
  /\ ChildrenOf({n \in Outside : n.type \in Loops} \cup Inside) \subseteq Inside
  /\ \A n \in Nodes : n.type = "IF" =>
       \A i \in DOMAIN n.children :
         n.children[i].type = "ELSE" => i = Len(n.children)

VARIABLES
  stack,   \* frames: a node and the number of its next child
  indent   \* g_indent of the emitter, the exact depth: printing clamps it

vars == <<text, open, stack, indent>>

Frame(node, next) == [node |-> node, next |-> next]
Top   == Last(stack)
Child == Top.node.children[Top.next]
At(types) ==
  stack # <<>> /\ Top.node.type \in types /\ Top.next \in DOMAIN Top.node.children
Ended(types) ==
  stack # <<>> /\ Top.node.type \in types /\ Top.next > Len(Top.node.children)

-----------------------------------------------------------------------------
(* The emitter, and what a step does to the activation on top. *)

Decremented == IF indent > 0 THEN indent - 1 ELSE indent

EmitLine(op, name)   == Put(op, name, indent) /\ indent' = indent
EmitBegin(op, name)  == Put(op, name, indent) /\ indent' = indent + 1
EmitBranch(op, name) == Put(op, name, Decremented) /\ indent' = Decremented + 1
EmitEnd(op)          == Put(op, "", Decremented) /\ indent' = Decremented
EmitNothing          == UNCHANGED <<text, open, indent>>

Advanced == [stack EXCEPT ![Len(stack)].next = @ + 1]
ToNext         == stack' = Advanced
Call(node, at)  == stack' = Append(Advanced, Frame(node, at))
Leave          == stack' = Front(stack)

-----------------------------------------------------------------------------
(* Single statements. *)

EmitVariableAssignment(node) ==
  IF Len(node.children) = 2 THEN EmitLine("assign", node.children[1].value)
  ELSE EmitNothing
EmitVariableInitializer(node) ==
  IF node.children = <<>> THEN EmitNothing ELSE EmitLine("assign", node.value)

GenerateBreakStatement == EmitLine("exit", "")
GenerateContinueStatement == EmitLine("next", "")

GenerateNode(node) ==
  CASE node.type \in {"STATEMENT", "WHILE", "FOR", "IF"} ->
         Call(node, 1) /\ EmitNothing
    [] node.type = "BREAK"    -> GenerateBreakStatement /\ ToNext
    [] node.type = "CONTINUE" -> GenerateContinueStatement /\ ToNext
    [] OTHER                  -> EmitNothing /\ ToNext

\* emit_expression_as_return, for a boolean: result is set in an if.
EmitBooleanAsReturn ==
  /\ stack # <<>> /\ Top.node.type = "BINARY_EXPR"
  /\ CASE Top.next = 1       -> EmitBegin("if", Top.node.value)
       [] Top.next \in {2, 4} -> EmitLine("assign", "result")
       [] Top.next = 3       -> EmitBranch("else", "")
       [] Top.next = 5       -> EmitEnd("end if")
  /\ IF Top.next = 5 THEN Leave ELSE ToNext

EmitExpressionAsReturn(node) ==
  IF node.type = "BINARY_EXPR" THEN Call(node, 1) /\ EmitNothing
  ELSE EmitLine("assign", "result") /\ ToNext

GenerateStatementBlock ==
  /\ At({"STATEMENT"})
  /\ CASE Child.type = "VAR_DECL" -> EmitVariableInitializer(Child) /\ ToNext
       [] Child.type = "ASSIGNMENT" -> EmitVariableAssignment(Child) /\ ToNext
       [] Child.type \in {"IF", "WHILE", "FOR", "BREAK", "CONTINUE"} ->
            GenerateNode(Child)
       [] Child.type \in {"EXPRESSION", "BINARY_EXPR"} ->
            EmitExpressionAsReturn(Child)
       [] OTHER -> EmitNothing /\ ToNext

-----------------------------------------------------------------------------
(* Loops and branches. *)

Unwrapped(node) ==
  IF /\ node.type = "STATEMENT" /\ Len(node.children) = 1
     /\ node.children[1].type \in {"VAR_DECL", "ASSIGNMENT"}
  THEN node.children[1] ELSE node

\* The place of the condition among the children: behind a for loop's init.
HasInit(node) ==
  /\ node.type = "FOR" /\ node.children # <<>>
  /\ Unwrapped(node.children[1]).type \in {"ASSIGNMENT", "VAR_DECL"}
ConditionIndex(node) == IF HasInit(node) THEN 2 ELSE 1

\* Has the activation written the line that opens its block?
HasOpened(frame) ==
  /\ frame.node.type \in Loops \cup {"IF", "BINARY_EXPR"}
  /\ frame.next > ConditionIndex(frame.node)

GenerateWhileLoop ==
  /\ At({"WHILE"})
  /\ IF Top.next = 1 THEN EmitBegin("while", Child.value) /\ ToNext
     ELSE GenerateNode(Child)

\* A while loop behind the init clause.  The increment is the last child, so
\* the end of the body is its place among the children, too.
IsIncrement(node, i) ==
  /\ i = Len(node.children) /\ i # ConditionIndex(node)
  /\ node.children[i].type = "ASSIGNMENT"

GenerateForInit(node) ==
  IF node.type = "ASSIGNMENT" THEN EmitVariableAssignment(node)
  ELSE EmitVariableInitializer(node)

\* Fault: the increment is taken for an expression, and passed over.
NoIncrement(node)           == EmitNothing
GenerateForIncrement(node)  == EmitVariableAssignment(node)

GenerateForLoop ==
  /\ At({"FOR"})
  /\ \/ /\ Top.next < ConditionIndex(Top.node)
        /\ GenerateForInit(Unwrapped(Child)) /\ ToNext
     \/ /\ Top.next = ConditionIndex(Top.node)
        /\ EmitBegin("while", Child.value) /\ ToNext
     \/ /\ Top.next > ConditionIndex(Top.node)
        /\ IF IsIncrement(Top.node, Top.next)
           THEN GenerateForIncrement(Child) /\ ToNext
           ELSE GenerateNode(Child)

\* A loop without a condition returned before it wrote anything.
EndLoop ==
  /\ Ended(Loops) /\ Leave
  /\ IF HasOpened(Top) THEN EmitEnd("end loop") ELSE EmitNothing

\* Fault: an else branch is a level of its own.
ElseIsDeeper    == EmitBegin("else", "")
GenerateElse    == EmitBranch("else", "")

\* The branches of an if are children among its statements.
GenerateIfStatement ==
  /\ At({"IF"})
  /\ \/ /\ Top.next = 1
        /\ EmitBegin("if", Child.value) /\ ToNext
     \/ /\ Top.next > 1 /\ Child.type = "ELSE_IF"
        /\ IF Child.children = <<>> THEN EmitNothing /\ ToNext
           ELSE EmitBranch("elsif", Child.children[1].value) /\ Call(Child, 2)
     \/ /\ Top.next > 1 /\ Child.type = "ELSE"
        /\ GenerateElse /\ Call(Child, 1)
     \/ /\ Top.next > 1 /\ Child.type \notin {"ELSE_IF", "ELSE"}
        /\ GenerateNode(Child)

GenerateBranch == At({"ELSE_IF", "ELSE"}) /\ GenerateNode(Child)

\* Fault: the end is forgotten when the last branch is an else.
EndIfUnlessElse ==
  /\ Ended({"IF"}) /\ Leave
  /\ IF HasOpened(Top) /\ Last(Top.node.children).type # "ELSE"
     THEN EmitEnd("end if") ELSE EmitNothing
EndIf ==
  /\ Ended({"IF"}) /\ Leave
  /\ IF HasOpened(Top) THEN EmitEnd("end if") ELSE EmitNothing

\* emit_architecture: the statements among a function's children.
GenerateFunctionBody ==
  /\ At({"FUNCTION_DECL"})
  /\ IF Child.type = "STATEMENT" THEN GenerateNode(Child)
     ELSE EmitNothing /\ ToNext

EndBlock ==
  /\ Ended({"FUNCTION_DECL", "STATEMENT", "ELSE_IF", "ELSE"})
  /\ Leave /\ EmitNothing

-----------------------------------------------------------------------------

\* emit_architecture, behind the reset.
Begin(function) == TextInit /\ stack = <<Frame(function, 1)>> /\ indent = BodyIndent

Generate ==
  \/ GenerateFunctionBody \/ GenerateStatementBlock \/ EmitBooleanAsReturn
  \/ GenerateWhileLoop \/ GenerateForLoop \/ EndLoop
  \/ GenerateIfStatement \/ GenerateBranch \/ EndIf \/ EndBlock

Init == \E function \in Outside :
  function.type = "FUNCTION_DECL" /\ Begin(function)
Next == Generate
Spec == Init /\ [][Next]_vars

-----------------------------------------------------------------------------
(* Properties. *)

\* The type invariant: the frames are of the tree, and every line is one of
\* VHDL's sequential statements.
TypeOK ==
  /\ text \in Seq([op : Operations, name : Names, indent : Nat])
  /\ open \in Seq([kind : {"while", "if", "else"}, line : Nat])
  /\ stack \in Seq([node : Nodes, next : Nat \ {0}])
  /\ indent \in Nat

\* Every line is one that VHDL's grammar allows behind the lines before it, and
\* is indented by the blocks that are open: the recursion over the tree keeps
\* the blocks it opens, the branches and ends it writes, the jumps the parser
\* admitted, and the emitter's one global counter in step.
WritesProcess == TextSpec

\* When generation is over, every block has been closed and the indentation is
\* back where it began, for the lines of the process that follow.
EndsBalanced == stack = <<>> => Closed /\ open = <<>> /\ indent = BodyIndent

\* At every moment the lines nest as VHDL asks, and at the end nothing is open:
\* what the recursion over the tree begins, it ends, on every path through it.
LinesNest == WellNested /\ EndsBalanced

===============================================================================
