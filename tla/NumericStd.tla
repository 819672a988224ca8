------------------------------ MODULE NumericStd ------------------------------
(***************************************************************************)
(* The VHDL that generated expressions are made of (std_logic_1164 and     *)
(* numeric_std).  A text is represented by its meaning: the type, the      *)
(* width and the value that a VHDL analyser gives it, or Bad where it has  *)
(* none.                                                                   *)
(***************************************************************************)
EXTENDS Integers, FiniteSetsExt

CONSTANT BitWidth  \* of int: GATES_VHDL_BIT_WIDTH

ASSUME BitWidthAssumption == BitWidth \in Nat \ {0, 1}

Bad == [type |-> "none", width |-> 0, bits |-> 0]
Vector(type, width, n) == [type |-> type, width |-> width, bits |-> n % 2^width]
Truth(b) == [type |-> "boolean", width |-> 0, bits |-> IF b THEN 1 ELSE 0]
IntVector(n) == Vector("std_logic_vector", BitWidth, n)

ToUnsigned(n) == Vector("unsigned", BitWidth, n)
ToSigned(n)   == Vector("signed", BitWidth, n)
VectorTypes   == {"std_logic_vector", "unsigned", "signed"}
Cast(type, v) == IF v.type \in VectorTypes THEN Vector(type, v.width, v.bits) ELSE Bad
StdLogicVector(v) == Cast("std_logic_vector", v)
Unsigned(v)       == Cast("unsigned", v)

Num(v) == IF v.type = "signed" /\ v.bits >= 2^(v.width - 1)
          THEN v.bits - 2^v.width ELSE v.bits
Alike(a, b) == a.type = b.type /\ a.type \in {"unsigned", "signed"}

\* A division by zero has a type, and stops the simulation.
Quotient(m, n) == IF n = 0 THEN 0 ELSE m \div n
Arithmetic(op, a, b) ==
  IF ~Alike(a, b) THEN Bad
  ELSE LET width == Max({a.width, b.width}) IN
       CASE op = "+" -> Vector(a.type, width, Num(a) + Num(b))
         [] op = "-" -> Vector(a.type, width, Num(a) - Num(b))
         [] op = "*" -> Vector(a.type, a.width + b.width, Num(a) * Num(b))
         [] op = "/" -> Vector(a.type, a.width, Quotient(Num(a), Num(b)))

Holds(op, m, n) ==
  CASE op = "=" -> m = n [] op = "/=" -> m # n
    [] op = "<" -> m < n [] op = "<=" -> m <= n
    [] op = ">" -> m > n [] op = ">=" -> m >= n
Relation(op, a, b) ==
  IF ~Alike(a, b) THEN Bad ELSE Truth(Holds(op, Num(a), Num(b)))

BitAt(v, i) == (v.bits \div 2^i) % 2
Joined(op, x, y) ==
  CASE op = "and" -> x * y [] op = "or" -> Max({x, y}) [] op = "xor" -> (x + y) % 2
JoinedBits(op, a, b) ==
  MapThenSumSet(LAMBDA i : Joined(op, BitAt(a, i), BitAt(b, i)) * 2^i,
                0..(a.width - 1))
Logic(op, a, b) ==
  IF ~Alike(a, b) \/ a.width # b.width THEN Bad
  ELSE Vector(a.type, a.width, JoinedBits(op, a, b))

Invert(a) ==
  IF a.type = "unsigned" THEN Vector("unsigned", a.width, -1 - a.bits) ELSE Bad
Shift(op, a, by) ==
  IF ~Alike(a, by) THEN Bad
  ELSE Vector(a.type, a.width, CASE by.bits >= a.width   -> 0
                                 [] op = "shift_left"  -> a.bits * 2^by.bits
                                 [] op = "shift_right" -> a.bits \div 2^by.bits)

EqualsZero(a) == IF a.type = "unsigned" THEN Truth(a.bits = 0) ELSE Bad
IsBoolean(v)  == v.type = "boolean"
Negated(v)    == IF IsBoolean(v) THEN Truth(v.bits = 0) ELSE Bad
NotZero(v)    == Negated(EqualsZero(Unsigned(v)))
Gate(op, a, b) ==
  IF ~IsBoolean(a) \/ ~IsBoolean(b) THEN Bad
  ELSE Truth(IF op = "and" THEN a.bits = 1 /\ b.bits = 1 ELSE a.bits = 1 \/ b.bits = 1)

===============================================================================
