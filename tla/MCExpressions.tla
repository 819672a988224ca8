----------------------------- MODULE MCExpressions -----------------------------
(* Expressions for model checking: chains of operators between primaries. *)
EXTENDS Expressions

Operators == UNION {C!Levels[l] : l \in DOMAIN C!Levels}
Unaries   == {"!", "~", "-"}

Atoms    == {C!Name("x"), C!Name("y"), C!Number(1), C!Element("a")}
Prefixed == Atoms \cup {C!Behind(op, p) : op \in Unaries, p \in Atoms}
               \cup {C!Behind(o, C!Behind("!", C!Name("x"))) : o \in Unaries}

Chain1(firsts, ops, operands) ==
  {C!Expression(p, <<C!Then(op, q)>>) : p \in firsts, op \in ops, q \in operands}
Chain2(ps) ==
  {C!Expression(p, <<C!Then(op, q), C!Then(o, r)>>) :
     p \in ps, op \in Operators, q \in ps, o \in Operators, r \in ps}

Representative == <<"||", "&&", "|", "^", "&", "==", "<", ">>", "-", "*">>
Chain3(ops) ==
  {C!Expression(C!Name("x"), <<C!Then(o, C!Name("y")), C!Then(p, C!Number(1)), C!Then(q, C!Name("x"))>>) :
     o \in ops, p \in ops, q \in ops}

\* One operator of every level, in parentheses and behind a unary operator.
Nested  == {C!Parenthesized(e) :
              e \in Chain1({C!Name("x")}, {"||", "^", "==", "<", "<<", "-", "*"},
                           {C!Name("y"), C!Behind("-", C!Number(1))})}
Grouped == Nested \cup {C!Behind(op, p) : op \in Unaries, p \in Nested}

AllSources ==
  UNION {{C!Expression(p, <<>>) : p \in Prefixed \cup Grouped},
         Chain1(Prefixed, Operators, Prefixed),
         Chain1(Grouped, Operators, {C!Name("y"), C!Number(1)}),
         Chain1({C!Name("y"), C!Number(1)}, Operators, Grouped),
         Chain2({C!Name("x"), C!Name("y"), C!Number(1)}),
         Chain3({Representative[l] : l \in DOMAIN C!Levels})}

\* The nodes of their trees.
Below(nodes) == UNION {Range(n.operands) : n \in {m \in nodes : ~IsLeaf(m)}}
RECURSIVE Nodes(_)
Nodes(roots) == IF roots = {} THEN {} ELSE roots \cup Nodes(Below(roots))
AllTrees == Nodes({Parser!Parsed(e) : e \in AllSources})

Valued(x, y, a) == [v \in {"x", "y", "a"} |->
                      CASE v = "x" -> x [] v = "y" -> y [] v = "a" -> a]
SomeValues == {Valued(3, 1, 2), Valued(2, 2, 0), Valued(-1, 3, -3)}

===============================================================================
