------------------------------ MODULE CFunction ------------------------------
(***************************************************************************)
(* What a C function in gates' subset does, seen from outside: the order   *)
(* in which it assigns, returns and tests conditions.  This is the promise *)
(* the generated VHDL is held to; nothing in it is about VHDL.             *)
(*                                                                         *)
(* `todo` is the rest of the run: statements, and for every loop entered a *)
(* mark that says what follows its body.  Values are abstracted: a test    *)
(* may have either outcome, except for the literal 1 of an empty for       *)
(* condition.                                                              *)
(***************************************************************************)
EXTENDS Integers, Sequences, SequencesExt, CStatements

VARIABLES
  source,  \* the body of the function that runs, any sequence of statements
  todo,    \* the rest of its run
  did      \* the last step of it

Always    == "1"
LoopCond(l) ==
  IF l.op = "while" THEN l.cond ELSE IF l.cond = <<>> THEN Always ELSE l.cond[1]
Increment(l) == IF l.op = "for" THEN l.incr ELSE <<>>

\* Marks: the condition of a loop is due, or its body has ended.
Test(l)  == [op |-> "test", loop |-> l]
Again(l) == [op |-> "again", loop |-> l]

\* The rest of a run behind the innermost loop's body, its mark included.
FromMark(rest) ==
  LET marks == {i \in DOMAIN rest : rest[i].op = "again"}
      first == CHOOSE i \in marks : \A j \in marks : i <= j
  IN  SubSeq(rest, first, Len(rest))

\* Skip what cannot be seen, up to the next assignment, return or test.
RECURSIVE Settle(_)
Settle(rest) ==
  IF rest = <<>> THEN <<>>
  ELSE LET s == Head(rest)  behind == Tail(rest) IN
    CASE s.op \in {"assign", "declareAs", "return", "returnTest", "if", "test"} -> rest
      [] s.op = "declare"  -> Settle(behind)
      [] s.op = "while"    -> Settle(<<Test(s)>> \o behind)
      [] s.op = "for"      -> Settle(s.init \o <<Test(s)>> \o behind)
      [] s.op = "again"    ->
           Settle(Increment(s.loop) \o <<Test(s.loop)>> \o behind)
      [] s.op = "continue" -> Settle(FromMark(behind))
      [] s.op = "break"    -> Settle(Tail(FromMark(behind)))

\* The outcomes a step may have, and what an onlooker sees of it.
Tested(s)   == CASE s.op = "if"         -> s.arms[1].cond
                 [] s.op = "returnTest" -> s.cond
                 [] s.op = "test"       -> LoopCond(s.loop)
IsTest(s)   == s.op \in {"if", "test", "returnTest"}
Outcomes(c) == IF c = Always THEN {TRUE} ELSE BOOLEAN
Event(s) ==
  IF IsTest(s) THEN <<"test", Tested(s)>>
  ELSE IF s.op = "return" THEN <<"assign", "result">>
  ELSE <<"assign", s.name>>

\* The rest of the run after its first step.
After(rest, outcome) ==
  LET s == Head(rest)  behind == Tail(rest) IN
  Settle(CASE s.op = "return" -> <<>>
           [] s.op = "returnTest" -> <<Return(s.cond)>>
           [] s.op = "if" /\ outcome -> s.arms[1].body \o behind
           [] s.op = "if" /\ ~outcome ->
                IF Len(s.arms) > 1
                THEN <<[s EXCEPT !.arms = Tail(@)]>> \o behind
                ELSE FlattenSeq(s.otherwise) \o behind
           [] s.op = "test" /\ outcome ->
                s.loop.body \o <<Again(s.loop)>> \o behind
           [] OTHER -> behind)

-----------------------------------------------------------------------------

\* `did` is the last event; its beat tells two equal events apart.
Nothing == [event |-> <<"start">>, outcome |-> TRUE, beat |-> 0]
Does(event, outcome) ==
  did' = [event |-> event, outcome |-> outcome, beat |-> 1 - did.beat]

Init ==
  /\ todo = Settle(source) /\ did = Nothing

Step ==
  /\ todo # <<>>
  /\ \E outcome \in IF IsTest(Head(todo)) THEN Outcomes(Tested(Head(todo)))
                    ELSE {TRUE} :
       /\ Does(Event(Head(todo)), outcome)
       /\ todo' = After(todo, outcome)
  /\ UNCHANGED source

\* A C function does not stop before its end.
vars == <<source, todo, did>>
Spec == Init /\ [][Step]_vars /\ WF_vars(Step)

=============================================================================
