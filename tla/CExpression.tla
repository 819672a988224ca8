------------------------------ MODULE CExpression ------------------------------
(***************************************************************************)
(* C expressions as they are written, and their values in C: the grammar   *)
(* and the arithmetic of int that the translation is held to.              *)
(*                                                                         *)
(* An expression is a first primary and the operators and primaries that   *)
(* follow it; a primary is a name, a number, an array element or an        *)
(* expression in parentheses, behind a sequence of unary operators.        *)
(***************************************************************************)
EXTENDS Integers, Sequences, FiniteSets, Bitwise

CONSTANT BitWidth  \* of int

Primary(prefix, kind, value) == [prefix |-> prefix, kind |-> kind, value |-> value]
Name(x)         == Primary(<<>>, "name", x)
Number(n)       == Primary(<<>>, "number", n)
Element(a)      == Primary(<<>>, "element", a)
Parenthesized(e) == Primary(<<>>, "parenthesized", e)
Behind(op, p)   == [p EXCEPT !.prefix = <<op>> \o @]
Expression(first, rest) == [first |-> first, rest |-> rest]
Then(op, p)     == [op |-> op, operand |-> p]

\* The levels of C's grammar, the one that binds least first.
Levels == <<{"||"}, {"&&"}, {"|"}, {"^"}, {"&"}, {"==", "!="},
            {"<", "<=", ">", ">="}, {"<<", ">>"}, {"+", "-"}, {"*", "/"}>>
LevelOf(op) == CHOOSE l \in DOMAIN Levels : op \in Levels[l]

\* All of these associate to the left: the last operator of the lowest level
\* is applied last.
LastApplied(e) ==
  CHOOSE k \in DOMAIN e.rest : \A j \in DOMAIN e.rest :
    LevelOf(e.rest[k].op) < LevelOf(e.rest[j].op)
    \/ (LevelOf(e.rest[k].op) = LevelOf(e.rest[j].op) /\ j <= k)

-----------------------------------------------------------------------------
(* Values.  NoPromise is the value of what C leaves undefined, and of what  *)
(* vectors compute as numbers without a sign: the comparison, product,      *)
(* quotient or shift of a negative number (codegen.rst of the docs).        *)

Modulus   == 2^BitWidth
NoPromise == Modulus  \* outside of int
InRange(n) == IF n >= -(Modulus \div 2) /\ n < Modulus \div 2 THEN n ELSE NoPromise
Bits(n)   == n % Modulus
Signed(b) == IF b < Modulus \div 2 THEN b ELSE b - Modulus
Bit(b)    == IF b THEN 1 ELSE 0
Natural(a, b) == a >= 0 /\ b >= 0

Unary(op, a) ==
  IF a = NoPromise THEN a
  ELSE CASE op = "!" -> Bit(a = 0)
         [] op = "~" -> -a - 1
         [] op = "-" -> InRange(-a)

Compare(op, a, b) ==
  CASE op = "<" -> a < b [] op = "<=" -> a <= b
    [] op = ">" -> a > b [] op = ">=" -> a >= b

Binary(op, a, b) ==
  IF a = NoPromise \/ b = NoPromise THEN NoPromise
  ELSE CASE op = "||" -> Bit(a # 0 \/ b # 0)
         [] op = "&&" -> Bit(a # 0 /\ b # 0)
         [] op = "|"  -> Signed(Bits(a) | Bits(b))
         [] op = "^"  -> Signed(Bits(a) ^^ Bits(b))
         [] op = "&"  -> Signed(Bits(a) & Bits(b))
         [] op = "==" -> Bit(a = b)
         [] op = "!=" -> Bit(a # b)
         [] op = "+"  -> InRange(a + b)
         [] op = "-"  -> InRange(a - b)
         [] OTHER ->
              IF ~Natural(a, b) THEN NoPromise
              ELSE CASE op \in {"<", "<=", ">", ">="} -> Bit(Compare(op, a, b))
                     [] op = "*" -> InRange(a * b)
                     [] op = "/" -> IF b = 0 THEN NoPromise ELSE a \div b
                     [] op = "<<" -> IF b >= BitWidth THEN NoPromise ELSE InRange(a * 2^b)
                     [] op = ">>" -> IF b >= BitWidth THEN NoPromise ELSE a \div 2^b

RECURSIVE ValueOf(_, _), PrimaryValue(_, _)

\* The value of an expression when the variables have the values of env.
ValueOf(e, env) ==
  IF e.rest = <<>> THEN PrimaryValue(e.first, env)
  ELSE LET k == LastApplied(e) IN
       Binary(e.rest[k].op,
              ValueOf(Expression(e.first, SubSeq(e.rest, 1, k - 1)), env),
              ValueOf(Expression(e.rest[k].operand,
                                 SubSeq(e.rest, k + 1, Len(e.rest))), env))

PrimaryValue(p, env) ==
  IF p.prefix # <<>>
  THEN Unary(Head(p.prefix), PrimaryValue([p EXCEPT !.prefix = Tail(@)], env))
  ELSE CASE p.kind = "number" -> p.value
         [] p.kind = "parenthesized" -> ValueOf(p.value, env)
         [] OTHER -> env[p.value]

===============================================================================
