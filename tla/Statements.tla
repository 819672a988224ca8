----------------------------- MODULE Statements -----------------------------
(***************************************************************************)
(* The control flow of the generated VHDL next to that of C: functions go  *)
(* through the parser (StatementTrees) and code generation (Emission), and *)
(* the process that has been written is run (Process).                     *)
(***************************************************************************)
EXTENDS Process

CONSTANT Functions  \* the function bodies, sequences of CFunction's statements

VARIABLES
  source, \* the body of the C function
  did,    \* the last assignment or test of the process
  todo    \* history: the rest of the C function that made the same steps

Trees    == INSTANCE StatementTrees
Function == INSTANCE CFunction

\* The trees the parser builds of them are among those Emission is about, so
\* that every run here is, up to the process, one of Emission's.
ASSUME FunctionsAreTrees ==
  {Trees!ParseFunction(body) : body \in Functions}
    \subseteq {n \in Outside : n.type = "FUNCTION_DECL"}

Event(line) ==
  IF line.op \in Tests THEN <<"test", line.name>> ELSE <<"assign", line.name>>

StatementsInit ==
  /\ source \in Functions
  /\ Begin(Trees!ParseFunction(source)) /\ pc = 0
  /\ todo = Function!Settle(source) /\ did = Function!Nothing

\* The C function takes the same turn, if it has not ended.
Follow(outcome) ==
  todo' = IF todo = <<>> THEN todo ELSE Function!After(todo, outcome)

Generating == Generate /\ UNCHANGED <<pc, source, did, todo>>
Unseen     == (Activate \/ Jump) /\ UNCHANGED <<vars, source, did, todo>>
Seen ==
  /\ pc \in DOMAIN text
  /\ \E outcome \in IF text[pc].op \in Tests
                    THEN Function!Outcomes(text[pc].name) ELSE {TRUE} :
       /\ Perform(outcome) /\ Follow(outcome)
       /\ Function!Does(Event(text[pc]), outcome)
  /\ UNCHANGED <<vars, source>>

StatementsNext == Generating \/ Unseen \/ Seen

\* Code generation returns, and a simulator or the hardware executes the
\* process once it is activated.
StatementsVars == <<vars, pc, source, did, todo>>
StatementsSpec ==
  StatementsInit /\ [][StatementsNext]_StatementsVars /\ WF_StatementsVars(StatementsNext)

\* The process implements the function: it assigns, returns and tests in the
\* order of the C program, whatever the tests say, and stops at its end.
\*
\* This holds of functions whose returns are the last thing they execute and
\* whose for loops with an increment have no continue.  A return becomes an
\* assignment to result, behind which the process goes on, and a continue a
\* next, which passes over the increment: of such functions it is false.
ImplementsFunction == Function!Spec

===============================================================================
