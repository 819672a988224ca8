------------------------------- MODULE Driver -------------------------------
(***************************************************************************)
(* main of gates (src/app/gates.c) as the user of the command sees it: the *)
(* files it opens, the output it leaves behind and its exit status.        *)
(*                                                                         *)
(* parse_program is a step of ParseContract, which the module Parser       *)
(* implements.  Code generation is one step per function of the program.   *)
(* Input and output go through stdio, which is external: a read may fail   *)
(* at any time, and a write fails while the disk is full.  Output is       *)
(* counted in pieces that fit the stream buffer, one for the header and    *)
(* the struct package and one for each function.                           *)
(***************************************************************************)
EXTENDS Naturals

CONSTANTS
  Functions,   \* bound on the number of functions in the input
  BufferSize   \* how many pieces the stream buffer holds

ASSUME DriverAssumption == Functions \in Nat /\ BufferSize \in Nat \ {0}

VARIABLES
  pc,          \* the place in main
  request,     \* what the command line asks for
  input,       \* what the input path names
  functions,   \* how many functions the input declares
  readFailed,  \* history: a read of the input has failed
  parsing,     \* parse_program has not returned
  diagnosed,   \* has_errors()
  atEnd,       \* the lexer's current token is the end of the file
  program,     \* the AST
  todo,        \* functions of the program not yet generated
  refused,     \* history: functions for which nothing was generated
  fin, fout,   \* the streams are open
  output,      \* what the output path names: "old" unless main truncated it
  buffered,    \* pieces in the stream buffer
  written,     \* pieces in the output file
  lostWrite,   \* history: a flush of a full buffer failed
  diskFull,
  status       \* the exit status

sourceVars   == <<request, input, functions>>
contractVars == <<parsing, diagnosed, atEnd>>
streamVars   == <<buffered, written, lostWrite>>
vars == <<pc, sourceVars, readFailed, contractVars, program, todo, refused,
          fin, fout, output, streamVars, diskFull, status>>

Request == {"version", "usage", "compile"}
Input   == {"absent", "special", "locked", "file"}

TypeOK ==
  /\ pc \in {"start", "stat", "open", "parse", "parsed", "output",
             "header", "generate", "generated", "closed", "exit"}
  /\ request \in Request /\ input \in Input
  /\ program \in {"none", "live", "freed"}
  /\ {readFailed, parsing, diagnosed, atEnd, fin, fout, lostWrite, diskFull}
       \subseteq BOOLEAN
  /\ {functions, todo, refused} \subseteq 0..Functions
  /\ output \in {"old", "new"}
  /\ buffered \in 0..BufferSize /\ written \in 0..(Functions + 1)
  /\ status \in {"running", "success", "failure"}

Parse == INSTANCE ParseContract WITH running <- parsing

Init ==
  /\ pc = "start" /\ request \in Request /\ input \in Input
  /\ readFailed = FALSE
  /\ Parse!Init
  /\ functions \in 0..Functions
  /\ program = "none" /\ todo = functions /\ refused = 0
  /\ fin = FALSE /\ fout = FALSE /\ output = "old"
  /\ buffered = 0 /\ written = 0 /\ lostWrite = FALSE
  /\ diskFull \in BOOLEAN /\ status = "running"

-----------------------------------------------------------------------------
(* Before the parse. *)

Exit(code) == pc' = "exit" /\ status' = code
Continue(place) == pc' = place /\ UNCHANGED status

\* log_error and return EXIT_FAILURE.
Fail == Exit("failure") /\ diagnosed' = TRUE

CheckArguments ==
  /\ pc = "start"
  /\ \/ request = "version" /\ Exit("success") /\ UNCHANGED diagnosed
     \/ request = "usage" /\ Fail
     \/ request = "compile" /\ Continue("stat") /\ UNCHANGED diagnosed
  /\ UNCHANGED <<sourceVars, readFailed, parsing, atEnd, program, todo,
                 refused, fin, fout, output, streamVars, diskFull>>

StatInput ==
  /\ pc = "stat"
  /\ \/ input \in {"absent", "special"} /\ Fail
     \/ input \in {"locked", "file"} /\ Continue("open") /\ UNCHANGED diagnosed
  /\ UNCHANGED <<sourceVars, readFailed, parsing, atEnd, program, todo,
                 refused, fin, fout, output, streamVars, diskFull>>

OpenInput ==
  /\ pc = "open"
  /\ \/ input = "locked" /\ Fail /\ UNCHANGED fin
     \/ input = "file" /\ Continue("parse") /\ fin' = TRUE /\ UNCHANGED diagnosed
  /\ UNCHANGED <<sourceVars, readFailed, parsing, atEnd, program, todo,
                 refused, fout, output, streamVars, diskFull>>

-----------------------------------------------------------------------------
(* The parse. *)

\* A failed read is EOF to getc, and so to the lexer.
ReadInput ==
  /\ pc = "parse" /\ Parse!Work
  /\ \/ UNCHANGED readFailed
     \/ atEnd' = TRUE /\ readFailed' = TRUE
  /\ UNCHANGED <<pc, sourceVars, program, todo, refused, fin, fout, output,
                 streamVars, diskFull, status>>

\* parse_program returns the AST, whatever it logged; main closes the input.
EndParse ==
  /\ pc = "parse" /\ Parse!Return
  /\ program' = "live" /\ fin' = FALSE
  /\ Continue("parsed")
  /\ UNCHANGED <<sourceVars, readFailed, todo, refused, fout, output,
                 streamVars, diskFull>>

\* Fault: an AST is taken for a successful parse.
CheckParseForNull ==
  /\ pc = "parsed"
  /\ Continue("output") /\ UNCHANGED <<diagnosed, program>>
  /\ UNCHANGED <<sourceVars, readFailed, parsing, atEnd, todo, refused,
                 fin, fout, output, streamVars, diskFull>>

CheckParse ==
  /\ pc = "parsed"
  /\ \/ diagnosed /\ Fail /\ program' = "freed"
     \/ ~diagnosed /\ Continue("output") /\ UNCHANGED <<diagnosed, program>>
  /\ UNCHANGED <<sourceVars, readFailed, parsing, atEnd, todo, refused,
                 fin, fout, output, streamVars, diskFull>>

-----------------------------------------------------------------------------
(* The output stream. *)

\* Fault: a full buffer takes more.
EmitUnflushed == buffered' = buffered + 1 /\ UNCHANGED <<written, lostWrite>>

\* fprintf of one piece: a full buffer is flushed first, and what cannot be
\* written is gone.  The result of fprintf is not looked at.
Emit ==
  \/ /\ buffered < BufferSize /\ buffered' = buffered + 1
     /\ UNCHANGED <<written, lostWrite>>
  \/ /\ buffered = BufferSize /\ ~diskFull
     /\ written' = written + buffered /\ buffered' = 1
     /\ UNCHANGED lostWrite
  \/ /\ buffered = BufferSize /\ diskFull
     /\ buffered' = 0 /\ lostWrite' = TRUE
     /\ UNCHANGED written

\* Fault: the AST is not freed when the output cannot be opened.
OpenOutputLeaking ==
  /\ pc = "output"
  /\ \/ /\ Fail /\ UNCHANGED <<program, fout, output>>
     \/ /\ Continue("header") /\ fout' = TRUE /\ output' = "new"
        /\ UNCHANGED <<diagnosed, program>>
  /\ UNCHANGED <<sourceVars, readFailed, parsing, atEnd, todo, refused,
                 fin, streamVars, diskFull>>

\* fopen(..., "w") truncates the file it opens.
OpenOutput ==
  /\ pc = "output"
  /\ \/ /\ Fail /\ program' = "freed" /\ UNCHANGED <<fout, output>>
     \/ /\ Continue("header") /\ fout' = TRUE /\ output' = "new"
        /\ UNCHANGED <<diagnosed, program>>
  /\ UNCHANGED <<sourceVars, readFailed, parsing, atEnd, todo, refused,
                 fin, streamVars, diskFull>>

\* generate_program: the header line and the package of the struct types.
GenerateHeader ==
  /\ pc = "header" /\ Emit /\ Continue("generate")
  /\ UNCHANGED <<sourceVars, readFailed, contractVars, program, todo,
                 refused, fin, fout, output, diskFull>>

\* A function is generated, with or without a diagnostic for a statement or a
\* declaration in it, or refused for its number of parameters.
GenerateFunction ==
  /\ pc = "generate" /\ todo > 0
  /\ todo' = todo - 1
  /\ \/ Emit /\ UNCHANGED <<diagnosed, refused>>
     \/ Emit /\ diagnosed' = TRUE /\ UNCHANGED refused
     \/ UNCHANGED streamVars /\ diagnosed' = TRUE /\ refused' = refused + 1
  /\ UNCHANGED <<pc, sourceVars, readFailed, parsing, atEnd, program, fin,
                 fout, output, diskFull, status>>

EndGeneration ==
  /\ pc = "generate" /\ todo = 0
  /\ program' = "freed" /\ Continue("generated")
  /\ UNCHANGED <<sourceVars, readFailed, contractVars, todo, refused, fin,
                 fout, output, streamVars, diskFull>>

\* Fault: the result of fclose is not looked at.
CloseOutputUnchecked ==
  /\ pc = "generated"
  /\ fout' = FALSE /\ buffered' = 0
  /\ written' = written + IF diskFull THEN 0 ELSE buffered
  /\ Continue("closed")
  /\ UNCHANGED <<sourceVars, readFailed, contractVars, program, todo,
                 refused, fin, output, lostWrite, diskFull>>

\* Fault: main waits for space on the disk.
CloseOutputWaiting ==
  /\ pc = "generated" /\ ~diskFull
  /\ fout' = FALSE /\ buffered' = 0 /\ written' = written + buffered
  /\ Continue("closed")
  /\ UNCHANGED <<sourceVars, readFailed, contractVars, program, todo,
                 refused, fin, output, lostWrite, diskFull>>

\* fclose writes what the buffer holds and reports a failure of that write.
CloseOutput ==
  /\ pc = "generated"
  /\ fout' = FALSE /\ buffered' = 0
  /\ \/ /\ diskFull /\ buffered > 0 /\ Fail /\ UNCHANGED written
     \/ /\ ~diskFull \/ buffered = 0
        /\ written' = written + buffered
        /\ Continue("closed") /\ UNCHANGED diagnosed
  /\ UNCHANGED <<sourceVars, readFailed, parsing, atEnd, program, todo,
                 refused, fin, output, lostWrite, diskFull>>

\* Fault: success without asking has_errors() again.
FinishAlways ==
  /\ pc = "closed" /\ Exit("success")
  /\ UNCHANGED <<sourceVars, readFailed, contractVars, program, todo,
                 refused, fin, fout, output, streamVars, diskFull>>

\* Code generation logs through the same counter as the parser.
Finish ==
  /\ pc = "closed"
  /\ \/ diagnosed /\ Fail
     \/ ~diagnosed /\ Exit("success") /\ UNCHANGED diagnosed
  /\ UNCHANGED <<sourceVars, readFailed, parsing, atEnd, program, todo,
                 refused, fin, fout, output, streamVars, diskFull>>

-----------------------------------------------------------------------------
\* Other processes fill the disk and free space on it.
DiskChanges ==
  /\ pc # "exit" /\ diskFull' = ~diskFull
  /\ UNCHANGED <<pc, sourceVars, readFailed, contractVars, program, todo,
                 refused, fin, fout, output, streamVars, status>>

Main ==
  \/ CheckArguments \/ StatInput \/ OpenInput \/ EndParse \/ CheckParse
  \/ OpenOutput \/ GenerateHeader \/ GenerateFunction \/ EndGeneration
  \/ CloseOutput \/ Finish

Exited == pc = "exit" /\ UNCHANGED vars

Next == Main \/ ReadInput \/ DiskChanges \/ Exited

Spec == Init /\ [][Next]_vars

\* main runs until it exits, and parse_program returns (Parser, ImplementsContract).
ParseReturns == (pc = "parse") ~> ~parsing
FairSpec == Spec /\ WF_vars(Main) /\ ParseReturns

-----------------------------------------------------------------------------
(* Properties. *)

\* The exit status reflects the diagnostics of every phase: main fails if and
\* only if something was logged, and code generation logs after main's first
\* has_errors().
StatusTellsDiagnostics ==
  pc = "exit" => (status = "success" <=> ~diagnosed)

\* A successful compilation has parsed a regular file to its end and generated
\* every function of it, and all the text has reached the output file unless a
\* write failed before the close.
SuccessIsComplete ==
  status = "success" /\ request = "compile" =>
    /\ input = "file" /\ atEnd
    /\ todo = 0 /\ refused = 0
    /\ ~lostWrite => written = functions + 1

\* A failed parse leaves the output of an earlier compilation alone: the output
\* file is truncated only after the whole input was parsed with no diagnostic.
TruncatedAfterCleanParse ==
  [][output' # output => ~parsing /\ atEnd /\ ~diagnosed]_vars

\* On every path to an exit the streams are closed, and the AST is freed if the
\* parser built one.
ReleasedAtExit ==
  pc = "exit" =>
    /\ ~fin /\ ~fout /\ buffered = 0
    /\ program = IF parsing THEN "none" ELSE "freed"

\* The command ends, whatever the parser, the code generation and the disk do.
Termination == <>(pc = "exit")

=============================================================================
