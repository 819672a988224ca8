----------------------------- MODULE MCFunctions -----------------------------
(***************************************************************************)
(* Functions for model checking: one statement with two levels of          *)
(* statements inside it, between two others, so that a jump to the wrong   *)
(* place is seen.                                                          *)
(***************************************************************************)
EXTENDS Integers, Sequences, SequencesExt, CStatements, StatementTrees

\* The jumps a body may hold: none outside of loops; the passing run leaves
\* out continue where it would skip an increment.
AnyJump  == {Break, Continue}
JustExit == {Break}

Optional(S) == {<<>>} \cup {<<s>> : s \in S}
Leaf(jumps) == {Assign("x")} \cup jumps

Few(jumps)  == Optional(Leaf(jumps))

\* Loops with every header, and with every body.
Inits == Optional({Assign("i"), DeclareAs("i"), Declare("i")})
Incrs == Optional({Assign("j")})
Headers(body) == {For(init, cond, incr, body) :
                    init \in Inits, cond \in Optional({"c"}), incr \in Incrs}
SomeLoop(counted) ==
  Headers(<<Assign("x")>>)
  \cup {For(<<>>, <<>>, <<Assign("j")>>, b) : b \in Few(counted)}
  \cup {For(<<Declare("i")>>, <<"c">>, <<>>, b) : b \in Few(AnyJump)}
  \cup {While("w", <<Assign("y")>> \o b) : b \in Few(AnyJump)}

SomeIf(inside) ==
  {If(<<Arm("p", b)>>, e) : b \in inside, e \in Optional(inside)}
  \cup {If(<<Arm("p", b), Arm("q", c)>>, <<b>>) : b, c \in inside}

\* A statement with one more in front of it or behind it.
Bodies(jumps, counted) ==
  {<<Assign("y"), s>> : s \in SomeIf(Few(jumps)) \cup SomeLoop(counted)}
  \cup {<<s, t>> : s \in SomeIf(Few(jumps)) \cup SomeLoop(counted),
                   t \in {Assign("y")} \cup jumps}

Around(s) == <<Declare("d"), Assign("a"), s, Assign("b"), Return("r")>>
Returns   == {Return("r"), ReturnTest("e")}

\* Returns of a value and of a boolean, in a branch and last all the same.
Returning == {<<Assign("a"), s>> : s \in SomeIf(Optional({Assign("x")} \cup Returns))}

\* Returns with statements behind them, or in a loop.
EarlyReturns ==
  {Around(If(<<Arm("p", <<s>>)>>, <<>>)) : s \in Returns}
  \cup {Around(While("w", <<s>>)) : s \in Returns}

Nested(counted) ==
  {Around(While("v", b)) : b \in Bodies(AnyJump, counted)}
  \cup {Around(For(<<Assign("i")>>, <<"u">>, <<Assign("k")>>, b)) :
          b \in Bodies(counted, counted)}
  \cup {Around(If(<<Arm("t", <<Assign("z")>>), Arm("u", b)>>, <<b>>)) :
          b \in Bodies({}, counted)}
  \cup Returning

\* What the process implements: no continue where it would skip an increment,
\* and no early return.
WithoutSkips == Nested(JustExit)
WithSkips    == Nested(AnyJump)
AllFunctions == WithSkips \cup EarlyReturns

\* The nodes of their trees, outside of loops and in them.
LoopTypes == {"WHILE", "FOR"}
AllTypes  == LoopTypes \cup {"FUNCTION_DECL", "STATEMENT", "VAR_DECL", "ASSIGNMENT",
                             "IF", "ELSE_IF", "ELSE"}

Below(nodes) == UNION {Range(n.children) : n \in nodes}
Down(roots, types) ==
  LET level[depth \in 0..9] ==
        IF depth = 0 THEN roots
        ELSE Below({n \in level[depth - 1] : n.type \in types})
  IN  UNION {level[depth] : depth \in 0..9}

OutsideOf(functions) ==
  Down({ParseFunction(f) : f \in functions}, AllTypes \ LoopTypes)
InsideOf(outside) ==
  Down(Below({n \in outside : n.type \in LoopTypes}), AllTypes)

AllOutside == OutsideOf(AllFunctions)
AllInside  == InsideOf(AllOutside)
AllNames   == {"", "result", "value", "1", "a", "b", "c", "d", "e", "i", "j", "k",
                "p", "q", "r", "t", "u", "v", "w", "x", "y", "z"}

===============================================================================
