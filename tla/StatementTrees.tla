--------------------------- MODULE StatementTrees ---------------------------
(***************************************************************************)
(* The trees the parser builds of statements (src/parser/parse_statement.c,*)
(* parse_control_flow.c, parse_for.c, parse_function.c).  Statements are   *)
(* those of CFunction.                                                     *)
(***************************************************************************)
EXTENDS Integers, Sequences

Node(type, value, children) ==
  [type |-> type, value |-> value, children |-> children]
Expression(value)   == Node("EXPRESSION", value, <<>>)
Comparison(value)   == Node("BINARY_EXPR", value, <<>>)
AssignmentTo(value) ==
  Node("ASSIGNMENT", "", <<Expression(value), Expression("value")>>)
VarDecl(value, init) == Node("VAR_DECL", value, init)
Statement(child)    == Node("STATEMENT", "", <<child>>)

RECURSIVE Tree(_)

\* parse_statement wraps every statement, parse_return_statement its value.
ParseStatement(s) == Statement(Tree(s))
Body(body) == [i \in DOMAIN body |-> ParseStatement(body[i])]

\* parse_for_statement appends the clauses that are there; the increment,
\* which is parsed before the body, comes behind it.
ParseForStatement(s) ==
  Node("FOR", "",
       [i \in DOMAIN s.init |-> Tree(s.init[i])]
       \o <<Expression(IF s.cond = <<>> THEN "1" ELSE s.cond[1])>>
       \o Body(s.body)
       \o [i \in DOMAIN s.incr |-> Tree(s.incr[i])])

\* parse_if_statement: the condition, the statements, the other branches.
ParseIfStatement(s) ==
  LET branch(arm) == <<Expression(arm.cond)>> \o Body(arm.body)
  IN  Node("IF", "",
           branch(s.arms[1])
           \o [i \in 1..(Len(s.arms) - 1) |->
                 Node("ELSE_IF", "", branch(s.arms[i + 1]))]
           \o [i \in DOMAIN s.otherwise |->
                 Node("ELSE", "", Body(s.otherwise[i]))])

ParseWhileStatement(s) ==
  Node("WHILE", "", <<Expression(s.cond)>> \o Body(s.body))

Tree(s) ==
  CASE s.op = "assign"    -> AssignmentTo(s.name)
    [] s.op = "declare"   -> VarDecl(s.name, <<>>)
    [] s.op = "declareAs" -> VarDecl(s.name, <<Expression("value")>>)
    [] s.op = "return"    -> Expression(s.name)
    [] s.op = "returnTest" -> Comparison(s.cond)
    [] s.op = "break"     -> Node("BREAK", "", <<>>)
    [] s.op = "continue"  -> Node("CONTINUE", "", <<>>)
    [] s.op = "if"        -> ParseIfStatement(s)
    [] s.op = "while"     -> ParseWhileStatement(s)
    [] s.op = "for"       -> ParseForStatement(s)

\* parse_function: the parameters, then the statements of the body.
ParseFunction(body) ==
  Node("FUNCTION_DECL", "", <<VarDecl("p", <<>>)>> \o Body(body))

=============================================================================
