---------------------------- MODULE ParseContract ----------------------------
(***************************************************************************)
(* What parse_program promises main (src/app/gates.c): it reads the file   *)
(* in steps of its own, may log diagnostics on the way, and returns once.  *)
(* A diagnostic is never withdrawn, and a parse that logged none has read  *)
(* the file to its end, which is why main only asks has_errors().          *)
(***************************************************************************)

VARIABLES
  running,    \* parse_program has not returned
  diagnosed,  \* has_errors()
  atEnd       \* the current token is the end of the file

vars == <<running, diagnosed, atEnd>>

TypeOK == running \in BOOLEAN /\ diagnosed \in BOOLEAN /\ atEnd \in BOOLEAN

Init == running = TRUE /\ diagnosed = FALSE /\ atEnd \in BOOLEAN

Work ==
  /\ running
  /\ diagnosed' \in {diagnosed, TRUE}
  /\ atEnd' \in BOOLEAN
  /\ UNCHANGED running

Return ==
  /\ running
  /\ diagnosed \/ atEnd
  /\ running' = FALSE
  /\ UNCHANGED <<diagnosed, atEnd>>

Next == Work \/ Return

Spec     == Init /\ [][Next]_vars
FairSpec == Spec /\ <>~running

==============================================================================
