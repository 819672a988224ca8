------------------------------ MODULE Expressions ------------------------------
(***************************************************************************)
(* Expressions from C to VHDL: as they are written (CExpression), through  *)
(* the parser (ExpressionTrees) and code generation (ExpressionText), and  *)
(* what the text computes next to what C does.                             *)
(***************************************************************************)
EXTENDS ExpressionText

CONSTANT Sources  \* C expressions

VARIABLE source  \* the expression as written

C      == INSTANCE CExpression
Parser == INSTANCE ExpressionTrees

\* Their trees are among those ExpressionText is about.
ASSUME SourcesAreTrees == {Parser!Parsed(e) : e \in Sources} \subseteq Trees

ExpressionsInit == source \in Sources /\ Begin(Parser!Parsed(source))
ExpressionsNext == Next /\ UNCHANGED source
ExpressionsSpec == ExpressionsInit /\ [][ExpressionsNext]_<<vars, source>>

\* The text computes what the C expression computes: the parser groups the
\* operators as C does, and code generation applies to them what VHDL has for
\* them, in every place.
SameMeaning ==
  LET promised == C!ValueOf(source, env) IN
  outcome # <<>> /\ Supported /\ promised # C!NoPromise
    => outcome = IF context = "condition" THEN Truth(promised # 0) ELSE IntVector(promised)

===============================================================================
