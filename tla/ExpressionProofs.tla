--------------------------- MODULE ExpressionProofs ---------------------------
(***************************************************************************)
(* The types of generated expressions, for every tree, every width of int  *)
(* and all values of the variables.                                        *)
(***************************************************************************)
EXTENDS ExpressionText, TLAPS

-----------------------------------------------------------------------------
(* What the operators of VHDL make of the types they get. *)

LEMMA VectorFits ==
  ASSUME NEW type, NEW width, NEW n
  PROVE  Fits(Vector(type, width, n), type, width)
BY DEF Vector, Fits

LEMMA TruthFits == ASSUME NEW b PROVE Fits(Truth(b), "boolean", 0)
BY DEF Truth, Fits

LEMMA CastFits ==
  ASSUME NEW v, NEW width, NEW from \in VectorTypes, Fits(v, from, width)
  PROVE  /\ Fits(StdLogicVector(v), "std_logic_vector", width)
         /\ Fits(Unsigned(v), "unsigned", width)
<1>1. v.type \in VectorTypes /\ v.width = width
  BY DEF Fits
<1> QED BY <1>1, VectorFits DEF StdLogicVector, Unsigned, Cast

LEMMA LiteralFits ==
  ASSUME NEW n
  PROVE  /\ Fits(ToUnsigned(n), "unsigned", BitWidth)
         /\ Fits(ToSigned(n), "signed", BitWidth)
         /\ Fits(IntVector(n), "std_logic_vector", BitWidth)
         /\ Fits(StdLogicVector(ToUnsigned(n)), "std_logic_vector", BitWidth)
         /\ Fits(StdLogicVector(ToSigned(n)), "std_logic_vector", BitWidth)
<1>1. /\ Fits(ToUnsigned(n), "unsigned", BitWidth)
      /\ Fits(ToSigned(n), "signed", BitWidth)
      /\ Fits(IntVector(n), "std_logic_vector", BitWidth)
  BY VectorFits DEF ToUnsigned, ToSigned, IntVector
<1>2. "unsigned" \in VectorTypes /\ "signed" \in VectorTypes
  BY DEF VectorTypes
<1> QED BY <1>1, <1>2, CastFits

\* The operators on vectors without a sign.
LEMMA UnsignedOperators ==
  ASSUME NEW a, NEW b, NEW width, NEW other,
         Fits(a, "unsigned", width), Fits(b, "unsigned", other)
  PROVE  /\ Fits(EqualsZero(a), "boolean", 0)
         /\ Fits(Invert(a), "unsigned", width)
         /\ \A op : Fits(Shift(op, a, b), "unsigned", width)
         /\ \A op : Fits(Relation(op, a, b), "boolean", 0)
         /\ width = other => \A op : Fits(Logic(op, a, b), "unsigned", width)
<1>1. a.type = "unsigned" /\ a.width = width /\ b.type = "unsigned" /\ b.width = other
  BY DEF Fits
<1>2. Alike(a, b)
  BY <1>1 DEF Alike
<1>3. Fits(EqualsZero(a), "boolean", 0)
  BY <1>1, TruthFits DEF EqualsZero
<1>4. Fits(Invert(a), "unsigned", width)
  BY <1>1, VectorFits DEF Invert
<1>5. ASSUME NEW op PROVE Fits(Shift(op, a, b), "unsigned", width)
  BY <1>1, <1>2, VectorFits DEF Shift
<1>6. ASSUME NEW op PROVE Fits(Relation(op, a, b), "boolean", 0)
  BY <1>2, TruthFits DEF Relation
<1>7. ASSUME NEW op, width = other PROVE Fits(Logic(op, a, b), "unsigned", width)
  BY <1>1, <1>2, <1>7, VectorFits DEF Logic
<1> QED BY <1>3, <1>4, <1>5, <1>6, <1>7

LEMMA TruthOperators ==
  ASSUME NEW a, NEW b, Fits(a, "boolean", 0), Fits(b, "boolean", 0)
  PROVE  /\ Fits(Negated(a), "boolean", 0)
         /\ \A op : Fits(Gate(op, a, b), "boolean", 0)
<1>1. IsBoolean(a) /\ IsBoolean(b)
  BY DEF Fits, IsBoolean
<1> QED BY <1>1, TruthFits DEF Negated, Gate

\* Products are as wide as both operands, everything else as the wider one.
LEMMA ArithmeticFits ==
  ASSUME NEW a, NEW b, NEW op \in Arithmetics,
         Fits(a, "unsigned", BitWidth), Fits(b, "unsigned", BitWidth)
  PROVE  Fits(Arithmetic(op, a, b), "unsigned",
              IF op = "*" THEN BitWidth + BitWidth ELSE BitWidth)
<1>1. /\ a.type = "unsigned" /\ a.width = BitWidth
      /\ b.type = "unsigned" /\ b.width = BitWidth
  BY DEF Fits
<1>2. Alike(a, b)
  BY <1>1 DEF Alike
<1>3. Max({a.width, b.width}) = BitWidth
  BY <1>1, BitWidthAssumption DEF Max
<1>4. CASE op = "+"
  BY <1>1, <1>2, <1>3, <1>4, VectorFits DEF Arithmetic
<1>5. CASE op = "-"
  BY <1>1, <1>2, <1>3, <1>5, VectorFits DEF Arithmetic
<1>6. CASE op = "*"
  BY <1>1, <1>2, <1>6, VectorFits DEF Arithmetic
<1>7. CASE op = "/"
  BY <1>1, <1>2, <1>7, VectorFits DEF Arithmetic
<1> QED BY <1>4, <1>5, <1>6, <1>7 DEF Arithmetics

LEMMA NotZeroFits ==
  ASSUME NEW v, NEW width, Fits(v, "std_logic_vector", width)
  PROVE  Fits(NotZero(v), "boolean", 0)
<1>1. Fits(Unsigned(v), "unsigned", width)
  BY CastFits DEF VectorTypes
<1>2. Fits(EqualsZero(Unsigned(v)), "boolean", 0)
  BY <1>1, UnsignedOperators
<1> QED BY <1>2, TruthOperators DEF NotZero

-----------------------------------------------------------------------------
(* What code generation makes of typed operands. *)

WidthOf(e) == IF IsProduct(e) THEN BitWidth + BitWidth ELSE BitWidth
HasType(e, v) ==
  IF IsTruth(e) THEN Fits(v, "boolean", 0)
  ELSE Fits(v, "std_logic_vector", WidthOf(e))

\* A node of which something is promised: a leaf may be none.
Typed(e)   == ~IsLeaf(e) \/ IsValue(e)
Sound(e)   == Typed(e) => HasType(e, GenerateNode(e))
Inner      == {e \in Trees : ~IsLeaf(e)}

LEMMA TreeFacts ==
  ASSUME NEW e \in Trees
  PROVE  /\ IsLeaf(e) => e.minus \in Nat /\ ~IsTruth(e) /\ ~IsProduct(e)
         /\ ~IsLeaf(e) =>
              /\ \A i \in DOMAIN e.operands : e.operands[i] \in Trees
              /\ \/ /\ e.node = "BINARY_EXPR" /\ DOMAIN e.operands = {1, 2}
                    /\ e.op \in Comparisons \cup Gates \cup BitOperators \cup Arithmetics
                 \/ /\ e.node = "BINARY_OP" /\ DOMAIN e.operands = {1}
                    /\ e.op \in {"!", "~"}
<1>1. IsLeaf(e) => e.minus \in Nat /\ ~IsTruth(e) /\ ~IsProduct(e)
  BY TreesAssumption DEF IsLeaf, IsTruth, IsNodeBooleanExpression, IsProduct
<1>2. ASSUME ~IsLeaf(e), NEW i \in DOMAIN e.operands
      PROVE  e.operands[i] \in Trees
  <2>1. e.operands[i] \in Range(e.operands)
    BY DEF Range
  <2>2. e \in {f \in Trees : f.node # "EXPRESSION"}
    BY <1>2 DEF IsLeaf
  <2> QED BY <2>1, <2>2, TreesAssumption
<1> QED BY <1>1, <1>2, TreesAssumption DEF IsLeaf

LEMMA LeafFits ==
  ASSUME NEW e \in Trees, IsLeaf(e), IsValue(e)
  PROVE  /\ Fits(GenerateExpression(e), "std_logic_vector", BitWidth)
         /\ IsOperand(e) => Fits(EmitTypedOperand(e), "unsigned", BitWidth)
<1>1. e.minus \in Nat /\ e.kind \in {"name", "number", "element"}
      /\ e.minus <= (IF e.kind = "element" THEN 0 ELSE 1)
  BY TreeFacts DEF IsValue
<1>2. CASE e.kind = "element"
  <2>1. e.minus = 0
    BY <1>1, <1>2
  <2>2. ~IsOperand(e)
    BY <1>2 DEF IsOperand
  <2> QED BY <1>2, <2>1, <2>2, LiteralFits DEF GenerateExpression
<1>3. CASE e.kind = "number"
  <2>1. e.minus = 0 \/ e.minus = 1
    BY <1>1, <1>3
  <2>2. IsLiteral(e)
    BY <1>3 DEF IsLiteral
  <2> QED BY <1>3, <2>1, <2>2, LiteralFits
          DEF GenerateExpression, EmitTypedOperand, IsNegativeLiteral,
              IsNumericLiteral, IsOperand
<1>4. CASE e.kind = "name"
  <2>1. e.minus = 0 \/ e.minus = 1
    BY <1>1, <1>4
  <2>2. ~IsLiteral(e)
    BY <1>4 DEF IsLiteral
  <2>3. CASE e.minus = 1
    BY <1>4, <2>2, <2>3, LiteralFits
       DEF GenerateExpression, IsNegativeLiteral, IsOperand
  <2>4. CASE e.minus = 0
    <3>1. Fits(VariableReference(e), "std_logic_vector", BitWidth)
      BY <1>4, <2>4, LiteralFits DEF VariableReference
    <3>2. Fits(Unsigned(VariableReference(e)), "unsigned", BitWidth)
      BY <3>1, CastFits DEF VectorTypes
    <3>3. ~IsNegativeLiteral(e) /\ ~IsNumericLiteral(e)
      BY <2>2 DEF IsNegativeLiteral, IsNumericLiteral
    <3> QED BY <1>4, <2>4, <3>1, <3>2, <3>3 DEF GenerateExpression, EmitTypedOperand
  <2> QED BY <2>1, <2>3, <2>4
<1> QED BY <1>1, <1>2, <1>3, <1>4

LEMMA LeavesAreSound ==
  ASSUME NEW e \in Trees, IsLeaf(e)
  PROVE  Sound(e)
<1> SUFFICES ASSUME Typed(e) PROVE HasType(e, GenerateNode(e))
  BY DEF Sound
<1>1. IsValue(e) /\ ~IsTruth(e) /\ ~IsProduct(e)
  BY TreeFacts DEF Typed
<1> QED BY <1>1, LeafFits DEF HasType, WidthOf, GenerateNode

\* A value without a sign, as arithmetic and comparisons ask for it.
LEMMA OperandFits ==
  ASSUME NEW e \in Trees, Sound(e), IsOperand(e) \/ IsProduct(e)
  PROVE  Fits(EmitTypedOperand(e), "unsigned", WidthOf(e))
<1>1. CASE IsLeaf(e)
  <2>1. IsOperand(e) /\ IsValue(e) /\ ~IsProduct(e)
    BY <1>1, TreeFacts DEF IsOperand
  <2> QED BY <1>1, <2>1, LeafFits DEF WidthOf
<1>2. CASE ~IsLeaf(e)
  <2>1. ~IsTruth(e)
    BY DEF IsOperand, IsValue, IsProduct, IsTruth, IsNodeBooleanExpression,
           IsBooleanComparisonOperator, Comparisons, Gates
  <2>2. Fits(GenerateNode(e), "std_logic_vector", WidthOf(e))
    BY <1>2, <2>1 DEF Sound, Typed, HasType
  <2>3. Fits(Unsigned(GenerateNode(e)), "unsigned", WidthOf(e))
    BY <2>2, CastFits DEF VectorTypes
  <2> QED BY <1>2, <2>3 DEF EmitTypedOperand
<1> QED BY <1>1, <1>2

\* A value, as the bitwise operators ask for it.
LEMMA ValueFits ==
  ASSUME NEW e \in Trees, Sound(e), IsValue(e)
  PROVE  /\ Fits(GenerateNode(e), "std_logic_vector", BitWidth)
         /\ Fits(Unsigned(GenerateNode(e)), "unsigned", BitWidth)
<1>1. ~IsTruth(e) /\ ~IsProduct(e) /\ Typed(e)
  BY DEF IsValue, Typed
<1>2. Fits(GenerateNode(e), "std_logic_vector", BitWidth)
  BY <1>1 DEF Sound, HasType, WidthOf
<1> QED BY <1>2, CastFits DEF VectorTypes

\* A truth value, as the gates ask for it.
LEMMA BooleanOperandFits ==
  ASSUME NEW e \in Trees, Sound(e), IsTruth(e) \/ IsValue(e)
  PROVE  Fits(EmitBooleanOperand(e), "boolean", 0)
<1>1. CASE IsTruth(e)
  <2>1. Typed(e)
    BY <1>1, TreeFacts DEF Typed
  <2>2. Fits(GenerateNode(e), "boolean", 0)
    BY <1>1, <2>1 DEF Sound, HasType
  <2> QED BY <1>1, <2>2 DEF EmitBooleanOperand, IsTruth
<1>2. CASE ~IsTruth(e)
  <2>1. Fits(NotZero(GenerateNode(e)), "boolean", 0)
    BY <1>2, ValueFits, NotZeroFits
  <2> QED BY <1>2, <2>1 DEF EmitBooleanOperand, IsTruth
<1> QED BY <1>1, <1>2

\* What the operands of each kind of operator are.
LEMMA SuitsIs ==
  ASSUME NEW op, NEW e, Suits(op, e)
  PROVE  /\ op \in Gates \cup {"!"} => IsTruth(e) \/ IsValue(e)
         /\ op \in Comparisons => IsOperand(e) \/ IsProduct(e)
         /\ op \in Arithmetics => IsOperand(e)
         /\ op \in BitOperators \cup {"~"} => IsValue(e)
<1>1. CASE op \in Gates \cup {"!"}
  BY <1>1 DEF Suits, Gates, Comparisons, Arithmetics, BitOperators
<1>2. CASE op \in Comparisons
  BY <1>2 DEF Suits, Gates, Comparisons, Arithmetics, BitOperators
<1>3. CASE op \in Arithmetics
  BY <1>3 DEF Suits, Gates, Comparisons, Arithmetics, BitOperators
<1>4. CASE op \in BitOperators \cup {"~"}
  BY <1>4 DEF Suits, Gates, Comparisons, Arithmetics, BitOperators
<1> QED BY <1>1, <1>2, <1>3, <1>4

LEMMA BitOperatorFits ==
  ASSUME NEW op \in BitOperators, NEW l \in Trees, NEW r \in Trees,
         Sound(l), Sound(r), IsValue(l), IsValue(r)
  PROVE  Fits(GenerateBinaryExpression(op, l, r), "std_logic_vector", BitWidth)
<1> DEFINE x == Unsigned(GenerateNode(l))
           y == Unsigned(GenerateNode(r))
<1>1. Fits(x, "unsigned", BitWidth) /\ Fits(y, "unsigned", BitWidth)
  BY ValueFits
<1>2. "unsigned" \in VectorTypes
  BY DEF VectorTypes
<1>3. /\ \A o : Fits(StdLogicVector(Logic(o, x, y)), "std_logic_vector", BitWidth)
      /\ \A o : Fits(StdLogicVector(Shift(o, x, y)), "std_logic_vector", BitWidth)
  <2> HIDE DEF x, y
  <2>1. ASSUME NEW o
        PROVE  /\ Fits(Logic(o, x, y), "unsigned", BitWidth)
               /\ Fits(Shift(o, x, y), "unsigned", BitWidth)
    BY <1>1, UnsignedOperators
  <2> QED BY <2>1, <1>2, CastFits
<1>4. op \notin Comparisons /\ op # "&&" /\ op # "||"
  BY DEF BitOperators, Comparisons
<1>5. CASE op = "&"
  BY <1>3, <1>4, <1>5 DEF GenerateBinaryExpression
<1>6. CASE op = "|"
  BY <1>3, <1>4, <1>6 DEF GenerateBinaryExpression
<1>7. CASE op = "^"
  BY <1>3, <1>4, <1>7 DEF GenerateBinaryExpression
<1>8. CASE op = "<<"
  BY <1>3, <1>4, <1>8 DEF GenerateBinaryExpression
<1>9. CASE op = ">>"
  BY <1>3, <1>4, <1>9 DEF GenerateBinaryExpression
<1> QED BY <1>5, <1>6, <1>7, <1>8, <1>9 DEF BitOperators

LEMMA ArithmeticIsWide ==
  ASSUME NEW op \in Arithmetics, NEW l \in Trees, NEW r \in Trees,
         Sound(l), Sound(r), IsOperand(l), IsOperand(r)
  PROVE  Fits(GenerateBinaryExpression(op, l, r), "std_logic_vector",
              IF op = "*" THEN BitWidth + BitWidth ELSE BitWidth)
<1> DEFINE x == EmitTypedOperand(l)
           y == EmitTypedOperand(r)
           width == IF op = "*" THEN BitWidth + BitWidth ELSE BitWidth
<1>1. ~IsProduct(l) /\ ~IsProduct(r)
  BY DEF IsOperand, IsValue
<1>2. Fits(x, "unsigned", BitWidth) /\ Fits(y, "unsigned", BitWidth)
  BY <1>1, OperandFits DEF WidthOf
<1>3. Fits(Arithmetic(op, x, y), "unsigned", width)
  BY <1>2, ArithmeticFits
<1>4. Fits(StdLogicVector(Arithmetic(op, x, y)), "std_logic_vector", width)
  <2> HIDE DEF x, y, width
  <2> QED BY <1>3, CastFits DEF VectorTypes
<1>5. op \notin Comparisons \cup Gates \cup BitOperators
  BY DEF BitOperators, Comparisons, Gates, Arithmetics
<1>6. GenerateBinaryExpression(op, l, r) = StdLogicVector(Arithmetic(op, x, y))
  BY <1>5 DEF GenerateBinaryExpression, Gates, BitOperators
<1> QED BY <1>4, <1>6

LEMMA ComparisonFits ==
  ASSUME NEW op \in Comparisons, NEW l \in Trees, NEW r \in Trees,
         Sound(l), Sound(r),
         IsOperand(l) \/ IsProduct(l), IsOperand(r) \/ IsProduct(r)
  PROVE  Fits(GenerateBinaryExpression(op, l, r), "boolean", 0)
<1> DEFINE x == EmitTypedOperand(l)
           y == EmitTypedOperand(r)
<1>1. Fits(x, "unsigned", WidthOf(l)) /\ Fits(y, "unsigned", WidthOf(r))
  BY OperandFits
<1>2. \A o : Fits(Relation(o, x, y), "boolean", 0)
  BY <1>1, UnsignedOperators
<1>3. op # "&&" /\ op # "||"
  BY DEF Comparisons
<1>4. \E o : GenerateBinaryExpression(op, l, r) = Relation(o, x, y)
  BY <1>3 DEF GenerateBinaryExpression, Comparisons
<1> QED BY <1>2, <1>4

LEMMA GateFits ==
  ASSUME NEW op \in Gates, NEW l \in Trees, NEW r \in Trees,
         Sound(l), Sound(r),
         IsTruth(l) \/ IsValue(l), IsTruth(r) \/ IsValue(r)
  PROVE  Fits(GenerateBinaryExpression(op, l, r), "boolean", 0)
<1>1. Fits(EmitBooleanOperand(l), "boolean", 0) /\ Fits(EmitBooleanOperand(r), "boolean", 0)
  BY BooleanOperandFits
<1>2. \A o : Fits(Gate(o, EmitBooleanOperand(l), EmitBooleanOperand(r)), "boolean", 0)
  BY <1>1, TruthOperators
<1>5. op \notin Comparisons /\ op \notin BitOperators
  BY DEF Gates, Comparisons, BitOperators
<1>3. CASE op = "&&"
  <2>1. GenerateBinaryExpression(op, l, r)
          = Gate("and", EmitBooleanOperand(l), EmitBooleanOperand(r))
    BY <1>3, <1>5 DEF GenerateBinaryExpression, BitOperators
  <2> QED BY <1>2, <2>1
<1>4. CASE op = "||"
  <2>1. GenerateBinaryExpression(op, l, r)
          = Gate("or", EmitBooleanOperand(l), EmitBooleanOperand(r))
    BY <1>4, <1>5 DEF GenerateBinaryExpression, BitOperators
  <2> QED BY <1>2, <2>1
<1> QED BY <1>3, <1>4 DEF Gates

LEMMA UnaryFits ==
  ASSUME NEW op \in {"!", "~"}, NEW e \in Trees, Sound(e),
         op = "!" => IsTruth(e) \/ IsValue(e),
         op = "~" => IsValue(e)
  PROVE  /\ op = "!" => Fits(GenerateUnaryOperation(op, e), "boolean", 0)
         /\ op = "~" => Fits(GenerateUnaryOperation(op, e), "std_logic_vector", BitWidth)
<1>1. CASE op = "!" /\ IsTruth(e)
  <2>1. Typed(e)
    BY <1>1, TreeFacts DEF Typed
  <2>2. Fits(GenerateNode(e), "boolean", 0)
    BY <1>1, <2>1 DEF Sound, HasType
  <2>3. Fits(Negated(GenerateNode(e)), "boolean", 0)
    BY <2>2, TruthOperators
  <2> QED BY <1>1, <2>3 DEF GenerateUnaryOperation, IsTruth
<1>2. CASE op = "!" /\ ~IsTruth(e)
  <2>1. Fits(EqualsZero(Unsigned(GenerateNode(e))), "boolean", 0)
    BY <1>2, ValueFits, UnsignedOperators
  <2> QED BY <1>2, <2>1 DEF GenerateUnaryOperation, IsTruth
<1>3. CASE op = "~"
  <2>1. Fits(Invert(Unsigned(GenerateNode(e))), "unsigned", BitWidth)
    BY <1>3, ValueFits, UnsignedOperators
  <2>2. Fits(StdLogicVector(Invert(Unsigned(GenerateNode(e)))), "std_logic_vector", BitWidth)
    BY <2>1, CastFits DEF VectorTypes
  <2> QED BY <1>3, <2>2 DEF GenerateUnaryOperation
<1> QED BY <1>1, <1>2, <1>3

\* A node whose operands are typed, and are what its operator is translated
\* for, is typed.
LEMMA NodeFits ==
  ASSUME NEW e \in Inner, OperandsSuit(e),
         \A i \in DOMAIN e.operands : Sound(e.operands[i])
  PROVE  HasType(e, TextOf(e))
<1>1. e \in Trees /\ ~IsLeaf(e)
  BY DEF Inner
<1>2. CASE e.node = "BINARY_EXPR"
  <2> DEFINE l == e.operands[1]
             r == e.operands[2]
  <2>1. /\ DOMAIN e.operands = {1, 2}
        /\ e.op \in Comparisons \cup Gates \cup BitOperators \cup Arithmetics
    BY <1>1, <1>2, TreeFacts
  <2>2. l \in Trees /\ r \in Trees /\ Sound(l) /\ Sound(r)
    BY <1>1, <2>1, TreeFacts
  <2>3. Suits(e.op, l) /\ Suits(e.op, r)
    BY <2>1 DEF OperandsSuit
  <2>4. TextOf(e) = GenerateBinaryExpression(e.op, l, r)
    BY <1>2 DEF TextOf
  <2>5. IsTruth(e) <=> e.op \in Comparisons \cup Gates
    BY <1>2 DEF IsTruth, IsNodeBooleanExpression, IsBooleanComparisonOperator
  <2>6. IsProduct(e) <=> e.op = "*"
    BY <1>2 DEF IsProduct
  <2> HIDE DEF l, r
  <2>7. CASE e.op \in Comparisons
    <3>1. Fits(TextOf(e), "boolean", 0)
      BY <2>2, <2>3, <2>4, <2>7, SuitsIs, ComparisonFits
    <3> QED BY <3>1, <2>5, <2>7 DEF HasType
  <2>8. CASE e.op \in Gates
    <3>1. Fits(TextOf(e), "boolean", 0)
      BY <2>2, <2>3, <2>4, <2>8, SuitsIs, GateFits
    <3> QED BY <3>1, <2>5, <2>8 DEF HasType
  <2>9. CASE e.op \in BitOperators
    <3>1. Fits(TextOf(e), "std_logic_vector", BitWidth)
      BY <2>2, <2>3, <2>4, <2>9, SuitsIs, BitOperatorFits
    <3>2. e.op \notin Comparisons \cup Gates /\ e.op # "*"
      BY <2>9 DEF BitOperators, Comparisons, Gates
    <3> QED BY <3>1, <3>2, <2>5, <2>6 DEF HasType, WidthOf
  <2>10. CASE e.op \in Arithmetics
    <3>1. Fits(TextOf(e), "std_logic_vector",
               IF e.op = "*" THEN BitWidth + BitWidth ELSE BitWidth)
      BY <2>2, <2>3, <2>4, <2>10, SuitsIs, ArithmeticIsWide
    <3>2. e.op \notin Comparisons \cup Gates
      BY <2>10 DEF Arithmetics, Comparisons, Gates
    <3> QED BY <3>1, <3>2, <2>5, <2>6 DEF HasType, WidthOf
  <2> QED BY <2>1, <2>7, <2>8, <2>9, <2>10
<1>3. CASE e.node # "BINARY_EXPR"
  <2> DEFINE inner == e.operands[1]
  <2>1. e.node = "BINARY_OP" /\ DOMAIN e.operands = {1} /\ e.op \in {"!", "~"}
    BY <1>1, <1>3, TreeFacts
  <2>2. inner \in Trees /\ Sound(inner) /\ Suits(e.op, inner)
    BY <1>1, <2>1, TreeFacts DEF OperandsSuit
  <2>3. TextOf(e) = GenerateUnaryOperation(e.op, inner)
    BY <1>3 DEF TextOf
  <2>4. ~IsProduct(e) /\ (IsTruth(e) <=> e.op = "!")
    BY <2>1 DEF IsProduct, IsTruth, IsNodeBooleanExpression
  <2> HIDE DEF inner
  <2>5. /\ e.op = "!" => Fits(TextOf(e), "boolean", 0)
        /\ e.op = "~" => Fits(TextOf(e), "std_logic_vector", BitWidth)
    BY <2>1, <2>2, <2>3, SuitsIs, UnaryFits
  <2> QED BY <2>1, <2>4, <2>5 DEF HasType, WidthOf
<1> QED BY <1>2, <1>3

-----------------------------------------------------------------------------
(* The places an expression stands in. *)

LEMMA ConditionFits ==
  ASSUME NEW e \in Trees, Sound(e),
         IsTruth(e) \/ (IsValue(e) /\ e.node # "BINARY_OP")
  PROVE  Fits(EmitConditionalExpression(e), "boolean", 0)
<1>1. CASE IsTruth(e)
  <2>1. Typed(e)
    BY <1>1, TreeFacts DEF Typed
  <2>2. Fits(GenerateNode(e), "boolean", 0)
    BY <1>1, <2>1 DEF Sound, HasType
  <2>3. EmitConditionalExpression(e) = GenerateNode(e)
    <3>1. CASE e.node = "BINARY_EXPR"
      BY <1>1, <3>1 DEF EmitConditionalExpression, IsTruth, IsNodeBooleanExpression,
                        IsNumericLiteral, IsLiteral, IsLeaf
    <3>2. CASE e.node # "BINARY_EXPR"
      <4>1. e.node = "BINARY_OP"
        BY <1>1, <3>2 DEF IsTruth, IsNodeBooleanExpression
      <4> QED BY <4>1 DEF EmitConditionalExpression, IsNumericLiteral, IsLiteral, IsLeaf
    <3> QED BY <3>1, <3>2
  <2> QED BY <2>2, <2>3
<1>2. CASE ~IsTruth(e)
  <2>1. e.node # "BINARY_OP" /\ IsValue(e)
    BY <1>2
  <2>2. ~(e.node = "BINARY_EXPR" /\ IsBooleanComparisonOperator(e.op))
    BY <1>2 DEF IsTruth, IsNodeBooleanExpression
  <2>3. CASE IsNumericLiteral(e)
    <3>1. Fits(EqualsZero(ToUnsigned(e.number)), "boolean", 0)
      BY LiteralFits, UnsignedOperators
    <3>2. Fits(Negated(EqualsZero(ToUnsigned(e.number))), "boolean", 0)
      BY <3>1, TruthOperators
    <3> QED BY <2>1, <2>2, <2>3, <3>2 DEF EmitConditionalExpression
  <2>4. CASE ~IsNumericLiteral(e)
    <3>1. Fits(NotZero(GenerateNode(e)), "boolean", 0)
      BY <2>1, ValueFits, NotZeroFits
    <3> QED BY <2>1, <2>2, <2>4, <3>1 DEF EmitConditionalExpression
  <2> QED BY <2>3, <2>4
<1> QED BY <1>1, <1>2

LEMMA ResultFits ==
  ASSUME NEW e \in Trees, Sound(e), IsTruth(e) \/ IsValue(e), ~IsNegativeLiteral(e)
  PROVE  Fits(EmitExpressionAsReturn(e), "std_logic_vector", BitWidth)
<1>1. CASE IsTruth(e)
  <2> DEFINE v == EmitConditionalExpression(e)
  <2>1. Fits(v, "boolean", 0)
    BY <1>1, ConditionFits
  <2> HIDE DEF v
  <2>2. IsBoolean(v)
    BY <2>1 DEF Fits, IsBoolean
  <2>3. Fits(ResultOf(v), "std_logic_vector", BitWidth)
    BY <2>2, LiteralFits DEF ResultOf
  <2>4. EmitExpressionAsReturn(e) = ResultOf(v)
    BY <1>1 DEF EmitExpressionAsReturn, IsTruth, v
  <2> QED BY <2>3, <2>4
<1>2. CASE ~IsTruth(e)
  BY <1>2, ValueFits DEF EmitExpressionAsReturn, IsTruth
<1> QED BY <1>1, <1>2

-----------------------------------------------------------------------------
(* The walk. *)

\* The root is generated first and completed last.
RootIsGenerated ==
  ~IsLeaf(tree) => tree \in DOMAIN texts \/ (calls # <<>> /\ calls[1] = tree)

\* As long as every operator has operands it is translated for, every text has
\* the type of its node: truth values, products and other values.
TextsTyped ==
  (\A e \in DOMAIN texts : OperandsSuit(e))
    => \A e \in DOMAIN texts : HasType(e, texts[e])

ExpressionInv ==
  /\ tree \in Trees
  /\ calls \in Seq(Inner)
  /\ DOMAIN texts \subseteq Inner
  /\ outcome # <<>> => calls = <<>>
  /\ RootIsGenerated
  /\ TextsTyped
  /\ WellTyped

LEMMA InitExpressionInv == Init => ExpressionInv
<1> SUFFICES ASSUME Init PROVE ExpressionInv
  OBVIOUS
<1>1. PICK root \in Trees : Begin(root)
  BY DEF Init
<1>2. tree = root /\ calls = Calls(root) /\ texts = <<>> /\ outcome = <<>>
  BY <1>1 DEF Begin
<1>3. calls \in Seq(Inner) /\ (~IsLeaf(tree) => calls # <<>> /\ calls[1] = tree)
  <2>1. CASE IsLeaf(root)
    BY <1>2, <2>1 DEF Calls
  <2>2. CASE ~IsLeaf(root)
    <3>1. root \in Inner
      BY <2>2 DEF Inner
    <3> QED BY <1>2, <2>2, <3>1 DEF Calls
  <2> QED BY <2>1, <2>2
<1>4. DOMAIN texts = {}
  BY <1>2
<1> QED BY <1>2, <1>3, <1>4 DEF ExpressionInv, RootIsGenerated, TextsTyped, WellTyped

\* The innermost call, and the calls around it.
LEMMA InnermostCall ==
  ASSUME calls \in Seq(Inner), calls # <<>>
  PROVE  /\ Last(calls) \in Inner
         /\ Front(calls) \in Seq(Inner)
         /\ calls[1] = IF Front(calls) = <<>> THEN Last(calls) ELSE Front(calls)[1]
<1>1. PICK n \in Nat : n = Len(calls) /\ n >= 1
  OBVIOUS
<1>2. Front(calls) = [i \in 1..(n - 1) |-> calls[i]]
  BY <1>1 DEF Front
<1>3. Last(calls) = calls[n] /\ Last(calls) \in Inner
  BY <1>1 DEF Last
<1>4. Front(calls) \in Seq(Inner) /\ Len(Front(calls)) = n - 1
  BY <1>1, <1>2
<1>5. CASE n = 1
  BY <1>3, <1>4, <1>5
<1>6. CASE n > 1
  <2>1. 1 \in 1..(n - 1)
    BY <1>1, <1>6
  <2>2. Front(calls)[1] = calls[1]
    BY <1>2, <2>1
  <2>3. Front(calls) # <<>>
    BY <1>4, <1>6
  <2> QED BY <1>3, <1>4, <2>2, <2>3
<1> QED BY <1>1, <1>5, <1>6

LEMMA CallKeepsInv == ExpressionInv /\ CallOperand => ExpressionInv'
<1> SUFFICES ASSUME ExpressionInv, CallOperand PROVE ExpressionInv'
  OBVIOUS
<1>1. PICK i \in DOMAIN Last(calls).operands :
        /\ Pending(Last(calls), i)
        /\ calls' = Append(calls, Last(calls).operands[i])
  BY DEF CallOperand
<1> DEFINE e == Last(calls).operands[i]
<1>2. calls # <<>> /\ UNCHANGED <<env, tree, texts, context, outcome>>
  BY DEF CallOperand
<1>3. calls \in Seq(Inner) /\ Last(calls) \in Inner
  BY <1>2, InnermostCall DEF ExpressionInv
<1>4. e \in Inner
  <2>1. Last(calls) \in Trees /\ ~IsLeaf(Last(calls))
    BY <1>3 DEF Inner
  <2>2. e \in Trees
    BY <2>1, TreeFacts
  <2>3. ~IsLeaf(e)
    BY <1>1 DEF Pending
  <2> QED BY <2>2, <2>3 DEF Inner
<1> HIDE DEF e
<1>5. calls' \in Seq(Inner) /\ calls' # <<>> /\ calls'[1] = calls[1]
  <2>1. calls' = Append(calls, e)
    BY <1>1 DEF e
  <2> QED BY <2>1, <1>2, <1>3, <1>4
<1>6. outcome = <<>>
  BY <1>2 DEF ExpressionInv
<1> QED BY <1>2, <1>5, <1>6
        DEF ExpressionInv, RootIsGenerated, TextsTyped, WellTyped

LEMMA ReturnKeepsInv == ExpressionInv /\ Return => ExpressionInv'
<1> SUFFICES ASSUME ExpressionInv, Return PROVE ExpressionInv'
  OBVIOUS
<1> DEFINE last == Last(calls)
<1>1. /\ calls # <<>> /\ calls' = Front(calls)
      /\ UNCHANGED <<env, tree, context, outcome>>
      /\ \A i \in DOMAIN last.operands : ~Pending(last, i)
      /\ texts' = [e \in DOMAIN texts \cup {last} |->
                     IF e = last THEN TextOf(e) ELSE texts[e]]
  BY DEF Return
<1>2. /\ last \in Inner /\ Front(calls) \in Seq(Inner)
      /\ calls[1] = IF Front(calls) = <<>> THEN last ELSE Front(calls)[1]
  BY <1>1, InnermostCall DEF ExpressionInv
<1>3. outcome = <<>>
  BY <1>1 DEF ExpressionInv
<1>4. last \in Trees /\ ~IsLeaf(last)
  BY <1>2 DEF Inner
<1>5. \A i \in DOMAIN last.operands :
        /\ last.operands[i] \in Trees
        /\ IsLeaf(last.operands[i]) \/ last.operands[i] \in DOMAIN texts
  BY <1>1, <1>4, TreeFacts DEF Pending
<1> HIDE DEF last
<1>6. DOMAIN texts' = DOMAIN texts \cup {last} /\ DOMAIN texts \subseteq Inner
  BY <1>1 DEF ExpressionInv
<1>7. RootIsGenerated'
  BY <1>1, <1>2, <1>6 DEF ExpressionInv, RootIsGenerated
<1>8. TextsTyped'
  <2> SUFFICES ASSUME \A e \in DOMAIN texts' : OperandsSuit(e)
               PROVE  \A e \in DOMAIN texts' : HasType(e, texts'[e])
    BY DEF TextsTyped
  <2>1. \A e \in DOMAIN texts : HasType(e, texts[e])
    BY <1>6 DEF ExpressionInv, TextsTyped
  <2>2. ASSUME NEW i \in DOMAIN last.operands PROVE Sound(last.operands[i])
    <3> DEFINE e == last.operands[i]
    <3>1. CASE IsLeaf(e)
      BY <1>5, <3>1, LeavesAreSound
    <3>2. CASE e \in DOMAIN texts
      <4>1. ~IsLeaf(e)
        BY <3>2, <1>6 DEF Inner
      <4> QED BY <2>1, <3>2, <4>1 DEF Sound, GenerateNode
    <3> QED BY <1>5, <3>1, <3>2
  <2>3. HasType(last, TextOf(last))
    BY <1>2, <1>6, <2>2, NodeFits
  <2> SUFFICES ASSUME NEW e \in DOMAIN texts' PROVE HasType(e, texts'[e])
    OBVIOUS
  <2>4. texts'[e] = IF e = last THEN TextOf(e) ELSE texts[e]
    BY <1>1, <1>6
  <2> QED BY <1>6, <2>1, <2>3, <2>4
<1> QED BY <1>1, <1>2, <1>3, <1>6, <1>7, <1>8 DEF ExpressionInv, WellTyped

\* When the calls have returned, the root is typed.
LEMMA RootIsSound ==
  ASSUME ExpressionInv, calls = <<>>, \A e \in DOMAIN texts : OperandsSuit(e)
  PROVE  tree \in Trees /\ Sound(tree)
<1>1. tree \in Trees
  BY DEF ExpressionInv
<1>2. CASE IsLeaf(tree)
  BY <1>1, <1>2, LeavesAreSound
<1>3. CASE ~IsLeaf(tree)
  <2>1. tree \in DOMAIN texts
    BY <1>3 DEF ExpressionInv, RootIsGenerated
  <2>2. HasType(tree, texts[tree])
    BY <2>1 DEF ExpressionInv, TextsTyped
  <2> QED BY <1>1, <1>3, <2>2 DEF Sound, GenerateNode
<1> QED BY <1>2, <1>3

LEMMA CompletionKeepsInv ==
  ASSUME ExpressionInv, NEW place, NEW emitted, Complete(place, emitted),
         Supported' =>
           IF place = "condition" THEN Fits(emitted, "boolean", 0)
           ELSE Fits(emitted, "std_logic_vector", BitWidth)
  PROVE  ExpressionInv'
<1>1. /\ calls = <<>> /\ context' = place /\ outcome' = emitted
      /\ UNCHANGED <<env, tree, calls, texts>>
  BY DEF Complete
<1>2. WellTyped'
  BY <1>1 DEF WellTyped
<1> QED BY <1>1, <1>2 DEF ExpressionInv, RootIsGenerated, TextsTyped

LEMMA StepKeepsInv == ExpressionInv /\ [Next]_vars => ExpressionInv'
<1> SUFFICES ASSUME ExpressionInv, [Next]_vars PROVE ExpressionInv'
  OBVIOUS
<1>1. CASE CallOperand
  BY <1>1, CallKeepsInv
<1>2. CASE Return
  BY <1>2, ReturnKeepsInv
<1>3. CASE GenerateAssignment
  <2> DEFINE v == GenerateNode(tree)
  <2>1. Complete("assignment", v)
    BY <1>3 DEF GenerateAssignment
  <2>2. calls = <<>> /\ context' = "assignment" /\ tree' = tree /\ texts' = texts
    BY <2>1 DEF Complete
  <2>3. ASSUME Supported' PROVE Fits(v, "std_logic_vector", BitWidth)
    <3>1. (\A e \in DOMAIN texts : OperandsSuit(e)) /\ IsValue(tree)
      BY <2>2, <2>3 DEF Supported
    <3> QED BY <2>2, <3>1, RootIsSound, ValueFits
  <2> HIDE DEF v
  <2> QED BY <2>1, <2>3, CompletionKeepsInv
<1>4. CASE GenerateCondition
  <2> DEFINE v == EmitConditionalExpression(tree)
  <2>1. Complete("condition", v)
    BY <1>4 DEF GenerateCondition
  <2>2. calls = <<>> /\ context' = "condition" /\ tree' = tree /\ texts' = texts
    BY <2>1 DEF Complete
  <2>3. ASSUME Supported' PROVE Fits(v, "boolean", 0)
    <3>1. /\ \A e \in DOMAIN texts : OperandsSuit(e)
          /\ IsTruth(tree) \/ (IsValue(tree) /\ tree.node # "BINARY_OP")
      BY <2>2, <2>3 DEF Supported
    <3> QED BY <2>2, <3>1, RootIsSound, ConditionFits
  <2> HIDE DEF v
  <2> QED BY <2>1, <2>3, CompletionKeepsInv
<1>5. CASE GenerateReturn
  <2> DEFINE v == EmitExpressionAsReturn(tree)
  <2>1. Complete("return", v)
    BY <1>5 DEF GenerateReturn
  <2>2. calls = <<>> /\ context' = "return" /\ tree' = tree /\ texts' = texts
    BY <2>1 DEF Complete
  <2>3. ASSUME Supported' PROVE Fits(v, "std_logic_vector", BitWidth)
    <3>1. /\ \A e \in DOMAIN texts : OperandsSuit(e)
          /\ IsTruth(tree) \/ IsValue(tree)
          /\ ~IsNegativeLiteral(tree)
      BY <2>2, <2>3 DEF Supported
    <3> QED BY <2>2, <3>1, RootIsSound, ResultFits
  <2> HIDE DEF v
  <2> QED BY <2>1, <2>3, CompletionKeepsInv
<1>6. CASE UNCHANGED vars
  <2>1. UNCHANGED <<env, tree, calls, texts, context, outcome>>
    BY <1>6 DEF vars
  <2>2. WellTyped'
    BY <2>1 DEF ExpressionInv, WellTyped, Supported
  <2> QED BY <2>1, <2>2 DEF ExpressionInv, RootIsGenerated, TextsTyped
<1> QED BY <1>1, <1>2, <1>3, <1>4, <1>5, <1>6 DEF Next

\* generate_node, emit_conditional_expression and emit_expression_as_return
\* give every expression the translation is for the type its place asks for,
\* whatever its size, the width of int and the values of the variables.
THEOREM ExpressionsAreTyped == Spec => []WellTyped
<1>1. Init => ExpressionInv
  BY InitExpressionInv
<1>2. ExpressionInv /\ [Next]_vars => ExpressionInv'
  BY StepKeepsInv
<1>3. ExpressionInv => WellTyped
  BY DEF ExpressionInv
<1> QED BY <1>1, <1>2, <1>3, PTL DEF Spec

===============================================================================
