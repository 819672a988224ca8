---------------------------- MODULE ExpressionTrees ----------------------------
(***************************************************************************)
(* The trees the parser builds of expressions: the precedence climbing of  *)
(* src/parser/parse_expression.c.  Expressions are those of CExpression.   *)
(***************************************************************************)
EXTENDS Integers, Sequences

\* A NODE_EXPRESSION is its string: the minus signs in front, and the rest.
Leaf(minus, kind, value) ==
  [node |-> "EXPRESSION", minus |-> minus, kind |-> kind,
   name   |-> IF kind = "number" THEN "" ELSE value,
   number |-> IF kind = "number" THEN value ELSE 0]
BinaryExpr(op, l, r) == [node |-> "BINARY_EXPR", op |-> op, operands |-> <<l, r>>]
BinaryOp(op, e)      == [node |-> "BINARY_OP", op |-> op, operands |-> <<e>>]

GetPrecedence(op) ==
  CASE op \in {"*", "/"}             -> 7
    [] op \in {"+", "-"}             -> 6
    [] op \in {"<<", ">>"}           -> 5
    [] op \in {"<", "<=", ">", ">="} -> 4
    [] op \in {"==", "!="}           -> 3
    [] op = "&"  -> 2
    [] op = "^"  -> 1
    [] op = "|"  -> 0
    [] op = "&&" -> -1
    [] op = "||" -> -2
TopLevelMin == -2

\* parse_unary_minus folds the sign into a leaf.
ParseUnaryMinus(operand) ==
  IF operand.node = "EXPRESSION"
  THEN [operand EXCEPT !.minus = @ + 1]
  ELSE BinaryExpr("-", Leaf(0, "number", 0), operand)
ParseUnary(op, operand) ==
  IF op = "-" THEN ParseUnaryMinus(operand) ELSE BinaryOp(op, operand)

RECURSIVE ParsePrec(_, _, _), ParsePrimary(_)

ParsePrimary(p) ==
  IF p.prefix # <<>>
  THEN ParseUnary(Head(p.prefix), ParsePrimary([p EXCEPT !.prefix = Tail(@)]))
  ELSE IF p.kind = "parenthesized"
  THEN ParsePrec(ParsePrimary(p.value.first), p.value.rest, TopLevelMin).tree
  ELSE Leaf(0, p.kind, p.value)

\* parse_expression_prec_inner: the loop over the operators that bind at least
\* as tightly as min.
\* Fault: an operator of the same level goes to the right operand.
OperandMinToTheRight(op) == GetPrecedence(op)
OperandMin(op)           == GetPrecedence(op) + 1

ParsePrec(left, rest, min) ==
  IF rest = <<>> \/ GetPrecedence(Head(rest).op) < min
  THEN [tree |-> left, rest |-> rest]
  ELSE LET op    == Head(rest).op
           right == ParsePrec(ParsePrimary(Head(rest).operand), Tail(rest),
                              OperandMin(op))
       IN  ParsePrec(BinaryExpr(op, left, right.tree), right.rest, min)

Parsed(e) == ParsePrec(ParsePrimary(e.first), e.rest, TopLevelMin).tree

===============================================================================
