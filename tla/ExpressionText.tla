---------------------------- MODULE ExpressionText ----------------------------
(***************************************************************************)
(* The VHDL generated for an expression in an assignment, a condition or a *)
(* return statement (src/codegen/codegen_vhdl_expressions.c and            *)
(* _helpers.c): a walk over the tree, generate_node being called for the   *)
(* operands of a node before its own text is complete.                     *)
(*                                                                         *)
(* Every function that emits text returns its meaning (NumericStd).  Names *)
(* are legal in VHDL; calls, which are not wired                           *)
(* (docs/source/known_issues.rst), are left out.                           *)
(***************************************************************************)
EXTENDS NumericStd, Sequences, SequencesExt

CONSTANTS
  Trees,        \* the expressions' nodes
  Environments  \* the values of the variables

Comparisons == {"==", "!=", "<", "<=", ">", ">="}
Gates       == {"&&", "||"}
BitOperators == {"&", "|", "^", "<<", ">>"}
Arithmetics == {"+", "-", "*", "/"}

\* What the parser builds: leaves, and operators with as many operands as they
\* take (parse_primary, parse_expression_prec_inner).
ASSUME TreesAssumption ==
  /\ \A e \in Trees :
       \/ e.node = "EXPRESSION" /\ e.minus \in Nat
       \/ /\ e.node = "BINARY_EXPR" /\ DOMAIN e.operands = {1, 2}
          /\ e.op \in Comparisons \cup Gates \cup BitOperators \cup Arithmetics
       \/ e.node = "BINARY_OP" /\ DOMAIN e.operands = {1} /\ e.op \in {"!", "~"}
  /\ UNION {Range(e.operands) : e \in {f \in Trees : f.node # "EXPRESSION"}}
       \subseteq Trees

VARIABLES
  env,     \* the values of the variables when the expression is evaluated
  tree,    \* its root
  calls,   \* the nodes whose generation has begun, the innermost last
  texts,   \* what has been generated, by node
  context, \* where it stands: "assignment", "condition" or "return"
  outcome  \* what is assigned or tested there; <<>> until it is complete

vars == <<env, tree, calls, texts, context, outcome>>

-----------------------------------------------------------------------------
(* Leaves. *)

IsLeaf(e)            == e.node = "EXPRESSION"
IsLiteral(e)         == IsLeaf(e) /\ e.kind = "number"
IsNumericLiteral(e)  == IsLiteral(e) /\ e.minus = 0
IsNegativeLiteral(e) == IsLiteral(e) /\ e.minus = 1

\* emit_variable_reference is for names: a minus sign or a bracket in front of
\* or behind the name makes it another one, which is not declared.
VariableReference(e) ==
  IF e.kind = "name" /\ e.minus = 0 THEN IntVector(env[e.name]) ELSE Bad

\* generate_expression: a leaf in value position.
GenerateExpression(e) ==
  IF e.kind = "element" THEN IF e.minus = 0 THEN IntVector(env[e.name]) ELSE Bad
  ELSE IF IsNegativeLiteral(e) THEN StdLogicVector(ToSigned(-e.number))
  ELSE IF e.minus = 1 THEN StdLogicVector(ToUnsigned(-env[e.name]))
  ELSE IF IsNumericLiteral(e) THEN StdLogicVector(ToUnsigned(e.number))
  ELSE VariableReference(e)

-----------------------------------------------------------------------------
(* Operators. *)

\* What generate_node has made of a node.
GenerateNode(e) == IF IsLeaf(e) THEN GenerateExpression(e) ELSE texts[e]

IsBooleanComparisonOperator(op) == op \in Comparisons \cup Gates
IsNodeBooleanExpression(e) ==
  \/ e.node = "BINARY_EXPR" /\ IsBooleanComparisonOperator(e.op)
  \/ e.node = "BINARY_OP" /\ e.op = "!"

EmitTypedOperand(e) ==
  IF ~IsLeaf(e) THEN Unsigned(GenerateNode(e))
  ELSE IF IsNegativeLiteral(e) THEN ToSigned(-e.number)
  ELSE IF IsNumericLiteral(e) THEN ToUnsigned(e.number)
  ELSE Unsigned(VariableReference(e))

\* Fault: a boolean operand is compared with zero like the others.
BooleanOperandUngated(e) == NotZero(GenerateNode(e))
EmitBooleanOperand(e) ==
  IF IsNodeBooleanExpression(e) THEN GenerateNode(e) ELSE NotZero(GenerateNode(e))

GenerateBinaryExpression(op, left, right) ==
  LET l == GenerateNode(left)  r == GenerateNode(right) IN
  CASE op = "&&" -> Gate("and", EmitBooleanOperand(left), EmitBooleanOperand(right))
    [] op = "||" -> Gate("or", EmitBooleanOperand(left), EmitBooleanOperand(right))
    [] op \in Comparisons ->
         Relation(CASE op = "==" -> "=" [] op = "!=" -> "/=" [] OTHER -> op,
                  EmitTypedOperand(left), EmitTypedOperand(right))
    [] op = "&"  -> StdLogicVector(Logic("and", Unsigned(l), Unsigned(r)))
    [] op = "|"  -> StdLogicVector(Logic("or", Unsigned(l), Unsigned(r)))
    [] op = "^"  -> StdLogicVector(Logic("xor", Unsigned(l), Unsigned(r)))
    [] op = "<<" -> StdLogicVector(Shift("shift_left", Unsigned(l), Unsigned(r)))
    [] op = ">>" -> StdLogicVector(Shift("shift_right", Unsigned(l), Unsigned(r)))
    [] OTHER -> StdLogicVector(Arithmetic(op, EmitTypedOperand(left),
                                          EmitTypedOperand(right)))

GenerateUnaryOperation(op, inner) ==
  CASE op = "!" -> IF IsNodeBooleanExpression(inner) THEN Negated(GenerateNode(inner))
                   ELSE EqualsZero(Unsigned(GenerateNode(inner)))
    [] op = "~" -> StdLogicVector(Invert(Unsigned(GenerateNode(inner))))

-----------------------------------------------------------------------------
(* Places. *)

\* emit_conditional_expression: a NODE_BINARY_OP is taken as it is.
EmitConditionalExpression(e) ==
  CASE e.node = "BINARY_EXPR" /\ IsBooleanComparisonOperator(e.op) -> GenerateNode(e)
    [] e.node = "BINARY_OP"  -> GenerateNode(e)
    [] IsNumericLiteral(e)   -> Negated(EqualsZero(ToUnsigned(e.number)))
    [] OTHER                 -> NotZero(GenerateNode(e))

\* emit_expression_as_return: what is assigned to the port.
ResultOf(v) == IF IsBoolean(v) THEN StdLogicVector(ToUnsigned(v.bits)) ELSE Bad
EmitExpressionAsReturn(e) ==
  IF IsNodeBooleanExpression(e) THEN ResultOf(EmitConditionalExpression(e))
  ELSE IF IsNegativeLiteral(e) THEN ToSigned(-e.number)
  ELSE GenerateNode(e)

-----------------------------------------------------------------------------
(* The steps. *)

Calls(e) == IF IsLeaf(e) THEN <<>> ELSE <<e>>
Pending(e, i) == ~IsLeaf(e.operands[i]) /\ e.operands[i] \notin DOMAIN texts

\* An expression may meet any values.
Begin(root) ==
  /\ tree = root /\ env \in Environments
  /\ calls = Calls(root) /\ texts = <<>> /\ outcome = <<>> /\ context = "unknown"

\* The next operand that is not a leaf.
CallOperand ==
  /\ calls # <<>>
  /\ \E i \in DOMAIN Last(calls).operands :
       /\ Pending(Last(calls), i)
       /\ \A j \in 1..(i - 1) : ~Pending(Last(calls), j)
       /\ calls' = Append(calls, Last(calls).operands[i])
  /\ UNCHANGED <<env, tree, texts, context, outcome>>

TextOf(e) ==
  IF e.node = "BINARY_EXPR"
  THEN GenerateBinaryExpression(e.op, e.operands[1], e.operands[2])
  ELSE GenerateUnaryOperation(e.op, e.operands[1])

Return ==
  /\ calls # <<>>
  /\ \A i \in DOMAIN Last(calls).operands : ~Pending(Last(calls), i)
  /\ texts' = [e \in DOMAIN texts \cup {Last(calls)} |->
                 IF e = Last(calls) THEN TextOf(e) ELSE texts[e]]
  /\ calls' = Front(calls)
  /\ UNCHANGED <<env, tree, context, outcome>>

\* In every place generate_node is called for the root as for an operand, if it
\* is not a leaf: the same expression may stand anywhere.
Complete(place, emitted) ==
  /\ calls = <<>> /\ outcome = <<>>
  /\ context' = place /\ outcome' = emitted
  /\ UNCHANGED <<env, tree, calls, texts>>

GenerateAssignment == Complete("assignment", GenerateNode(tree))
GenerateCondition  == Complete("condition", EmitConditionalExpression(tree))
GenerateReturn     == Complete("return", EmitExpressionAsReturn(tree))

Init == \E root \in Trees : Begin(root)
Next == \/ CallOperand \/ Return
        \/ GenerateAssignment \/ GenerateCondition \/ GenerateReturn
Spec == Init /\ [][Next]_vars

-----------------------------------------------------------------------------
(* Properties. *)

\* The expressions the translation is for.  A truth value is used as a truth
\* value; a sign stands before a name or a number that is not an operand of
\* arithmetic or of a comparison; array elements are not such operands either;
\* and products, which are twice as wide as their operands, are compared only.
IsProduct(e) == e.node = "BINARY_EXPR" /\ e.op = "*"
IsTruth(e)   == IsNodeBooleanExpression(e)
IsValue(e)   ==
  /\ ~IsTruth(e) /\ ~IsProduct(e)
  /\ IsLeaf(e) => /\ e.kind \in {"name", "number", "element"}
                  /\ e.minus <= (IF e.kind = "element" THEN 0 ELSE 1)
IsOperand(e) ==
  IsValue(e) /\ (IsLeaf(e) => e.kind \in {"name", "number"} /\ e.minus = 0)

\* What the operands of an operator may be.
Suits(op, e) ==
  CASE op \in Gates \cup {"!"}  -> IsTruth(e) \/ IsValue(e)
    [] op \in Comparisons       -> IsOperand(e) \/ IsProduct(e)
    [] op \in Arithmetics       -> IsOperand(e)
    [] op \in BitOperators \cup {"~"} -> IsValue(e)
OperandsSuit(e) == \A i \in DOMAIN e.operands : Suits(e.op, e.operands[i])

Supported ==
  /\ \A e \in DOMAIN texts : OperandsSuit(e)
  /\ CASE context = "assignment" -> IsValue(tree)
       [] context = "condition" ->
            IsTruth(tree) \/ (IsValue(tree) /\ tree.node # "BINARY_OP")
       [] context = "return" ->
            (IsTruth(tree) \/ IsValue(tree)) /\ ~IsNegativeLiteral(tree)

\* What is generated for such an expression has the type its place asks for:
\* a vector of int's width or, as a condition, a truth value.  No cast is
\* applied to a truth value, and no gate to a vector.
Fits(v, type, width) == v.type = type /\ v.width = width
WellTyped ==
  outcome # <<>> /\ Supported =>
    IF context = "condition" THEN Fits(outcome, "boolean", 0)
    ELSE Fits(outcome, "std_logic_vector", BitWidth)

===============================================================================
