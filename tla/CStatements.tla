----------------------------- MODULE CStatements -----------------------------
(***************************************************************************)
(* The statements of C in gates' subset.                                   *)
(***************************************************************************)

\* A statement is a record with an op.  A for clause is a sequence that is
\* empty when the clause is missing.
Assign(x)    == [op |-> "assign", name |-> x]
Declare(x)   == [op |-> "declare", name |-> x]       \* without initializer
DeclareAs(x) == [op |-> "declareAs", name |-> x]
Return(x)    == [op |-> "return", name |-> x]
ReturnTest(c) == [op |-> "returnTest", cond |-> c]   \* of a boolean
Break        == [op |-> "break"]
Continue     == [op |-> "continue"]
Arm(c, body) == [cond |-> c, body |-> body]
If(arms, otherwise) == [op |-> "if", arms |-> arms, otherwise |-> otherwise]
While(c, body)      == [op |-> "while", cond |-> c, body |-> body]
For(init, cond, incr, body) ==
  [op |-> "for", init |-> init, cond |-> cond, incr |-> incr, body |-> body]

=============================================================================
