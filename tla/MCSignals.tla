------------------------------- MODULE MCSignals -------------------------------
(* Names for model checking. *)
EXTENDS Signals

AllWords == {"a", "b", "in", "result", "local", "type", "c", "v", "p", "q"}
OnlyIn   == {<<"in">>}

\* Plain names, and every way an identifier of C fails to be one of VHDL, or
\* is the result port's once it is one.
AnyName ==
  {<<"a">>, <<"b", "1">>, <<"in">>, <<"result">>, <<"_">>,
   <<"in", "_">>, <<"result", "_">>, <<"_", "_", "in">>, <<"a", "_", "_", "b">>}
PlainNames == {<<"a">>, <<"b">>}

Structs == {<<"p">>, <<"q">>}
Lists   == {<<<<"b">>>>, <<<<"a">>, <<"_", "b">>>>, <<<<"a">>, <<"b">>, <<"c">>>>,
            <<<<"a", "_", "_", "b">>>>}
NoList  == {<<>>}

Unnegated == {"value", "operand", "target", "initialized", "element",
              "element assigned", "field", "field assigned",
              "fields initialized", "fields returned", "array index",
              "list element"}
Operands  == {"negated value", "negated operand", "element operand"}

===============================================================================
