------------------------------- MODULE Process -------------------------------
(***************************************************************************)
(* One activation of the clocked process whose lines Emission writes, as   *)
(* VHDL executes sequential statements.  A condition may have either       *)
(* outcome.  When a signal's new value becomes visible is left out.        *)
(***************************************************************************)
EXTENDS Emission

VARIABLE pc  \* the line about to be executed; 0 before the activation

Tests      == {"while", "if", "elsif"}
Is(i, ops) == i \in DOMAIN text /\ text[i].op \in ops

\* Where execution is when the line it should go on with is not there.
Nowhere == Len(text) + 2

\* The next line, behind line i, that ends or continues i's block.
Candidates(i, ops) ==
  {j \in (i + 1)..Len(text) : text[j].indent = text[i].indent /\ text[j].op \in ops}
NearestAfter(i, ops) ==
  IF Candidates(i, ops) = {} THEN Nowhere ELSE Min(Candidates(i, ops))

EndOf(i) == NearestAfter(i, Closers)

LoopsAround(i) == {k \in 1..(i - 1) : text[k].op = "while" /\ EndOf(k) >= i}
LoopOf(i) == IF LoopsAround(i) = {} THEN Nowhere ELSE Max(LoopsAround(i))

\* On to line i, or over the other branches if it begins one.
Onward(i) == IF Is(i, Branches) THEN EndOf(i) ELSE i

\* A condition was false: on to the next branch, or behind the block.
Otherwise(i) ==
  LET j == NearestAfter(i, Closers \cup Branches)
  IN  IF Is(j, {"elsif"}) THEN j ELSE Onward(j + 1)

Activate == stack = <<>> /\ pc = 0 /\ pc' = Onward(1)

\* What an onlooker sees: an assignment or a test.
Perform(outcome) ==
  /\ Is(pc, {"assign"} \cup Tests)
  /\ text[pc].op = "assign" => outcome
  /\ pc' = IF outcome THEN Onward(pc + 1) ELSE Otherwise(pc)

Jump ==
  /\ Is(pc, Closers \cup Jumps)
  /\ pc' = CASE text[pc].op = "end if" -> Onward(pc + 1)
             [] text[pc].op = "exit"   -> Onward(EndOf(LoopOf(pc)) + 1)
             [] OTHER                  -> LoopOf(pc)

Run == Activate \/ Jump \/ \E outcome \in BOOLEAN : Perform(outcome)

ProcessInit == Init /\ pc = 0
ProcessNext == \/ Generate /\ UNCHANGED pc
               \/ Run /\ UNCHANGED vars
ProcessSpec == ProcessInit /\ [][ProcessNext]_<<vars, pc>>

\* Execution stays in the process: from every line there is a next one or the
\* end, each jump has a loop to go to, and else is never executed as such.
PcOK ==
  /\ pc \in 0..(Len(text) + 1)
  /\ Is(pc, Branches) => text[pc].op = "elsif"
  /\ pc # 0 => stack = <<>>

=============================================================================
