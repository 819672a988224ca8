----------------------------- MODULE ProcessText -----------------------------
(***************************************************************************)
(* The sequential statements of a VHDL process as a text that is written   *)
(* line by line: which line may follow, given the blocks that are open.    *)
(* This is the part of VHDL's grammar that the code generator has to meet; *)
(* nothing in it is about C or about trees.                                *)
(*                                                                         *)
(* A line is an operation, a name (of the signal assigned or of the        *)
(* condition) and its indentation.                                         *)
(***************************************************************************)
EXTENDS Integers, Sequences, FiniteSets, SequencesExt

CONSTANT Names  \* of signals and conditions

VARIABLES
  text,  \* the lines written
  open   \* the blocks that are open behind them, the innermost last

Openers    == {"while", "if"}
Closers    == {"end loop", "end if"}
Branches   == {"elsif", "else"}
Jumps      == {"exit", "next"}
Operations == {"assign"} \cup Openers \cup Closers \cup Branches \cup Jumps

\* The body of a process begins behind the architecture's, the process's and
\* the reset's own lines.
BodyIndent == 3

\* Blocks: a while, an if, or an if whose last branch has begun; and the line
\* that opened it.
Block(kind, line) == [kind |-> kind, line |-> line]

Innermost(kinds) == open # <<>> /\ Last(open).kind \in kinds

MayFollow(op) ==
  /\ op \in Branches   => Innermost({"if"})
  /\ op = "end if"     => Innermost({"if", "else"})
  /\ op = "end loop"   => Innermost({"while"})
  /\ op \in Jumps      => \E b \in DOMAIN open : open[b].kind = "while"

\* A block's lines are one deeper than the lines that open and close it.
IndentOf(op) ==
  BodyIndent + Len(open) - (IF op \in Branches \cup Closers THEN 1 ELSE 0)

\* The blocks open behind a further line.
OpenBehind(op) ==
  CASE op \in Openers -> Append(open, Block(op, Len(text) + 1))
    [] op \in Closers -> Front(open)
    [] op = "else"    -> [open EXCEPT ![Len(open)].kind = "else"]
    [] OTHER          -> open

Put(op, name, indent) ==
  /\ text' = Append(text, [op |-> op, name |-> name, indent |-> indent])
  /\ open' = OpenBehind(op)

WriteLine == \E op \in Operations, name \in Names :
  MayFollow(op) /\ Put(op, name, IndentOf(op))

TextInit == text = <<>> /\ open = <<>>
TextSpec == TextInit /\ [][WriteLine]_<<text, open>>

-----------------------------------------------------------------------------
(* What that says of the lines themselves. *)

\* Line k opens a block, and every line between k and i is in it.
Spans(k, i) ==
  /\ text[k].op \in Openers /\ text[k].indent = text[i].indent
  /\ \A l \in (k + 1)..(i - 1) :
       \/ text[l].indent > text[k].indent
       \/ text[l].indent = text[k].indent /\ text[l].op \in Branches

\* Line i ends, or is a branch of, the block that line k opens.
BelongsTo(i, k) ==
  Spans(k, i) /\ (text[k].op = "while" <=> text[i].op = "end loop")

InLoop(i, k) ==
  /\ text[k].op = "while"
  /\ \A l \in (k + 1)..i : text[l].indent > text[k].indent

\* The lines are statements of VHDL whatever the nesting of the C statements:
\* every end and branch belongs to a block of its kind, no branch follows an
\* else, and exit and next are in a loop, which the parser's loop counter has
\* promised to code generation.
WellNested ==
  /\ \A i \in DOMAIN text : text[i].op \in Closers \cup Branches =>
       \E k \in 1..(i - 1) : BelongsTo(i, k)
  /\ \A i, j \in DOMAIN text :
       /\ i < j /\ text[i].op = "else" /\ text[j].op \in Branches
       /\ text[i].indent = text[j].indent
       => \E l \in (i + 1)..(j - 1) : text[l].indent <= text[i].indent
                                      /\ text[l].op \notin Branches
  /\ \A i \in DOMAIN text : text[i].op \in Jumps =>
       \E k \in 1..(i - 1) : InLoop(i, k)

\* Every block that was opened has been closed.
Closed ==
  \A k \in DOMAIN text : text[k].op \in Openers =>
    \E i \in (k + 1)..Len(text) : text[i].op \in Closers /\ BelongsTo(i, k)

=============================================================================
