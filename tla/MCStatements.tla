---------------------------- MODULE MCStatements ----------------------------
(***************************************************************************)
(* MCFunctions' functions from C to the running process: WithoutSkips has  *)
(* neither continue in a for loop with an increment nor an early return,   *)
(* WithSkips the former (Statements_continue.cfg), EarlyReturns the        *)
(* latter.                                                                 *)
(***************************************************************************)
EXTENDS Statements, MCFunctions
=============================================================================
