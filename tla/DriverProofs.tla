----------------------------- MODULE DriverProofs -----------------------------
(***************************************************************************)
(* The promises of main, for every number of functions, every size of the  *)
(* stream buffer, and whatever the parse, the reads and the disk do.       *)
(***************************************************************************)
EXTENDS Driver, TLAPS

\* The places before, during and behind the writing of the output.
Before    == {"start", "stat", "open", "parse"}
Unwritten == Before \cup {"parsed", "output", "header"}
Writing   == {"header", "generate", "generated"}
Behind    == {"generate", "generated", "closed"}

\* What main knows of its input when it has got this far.
InputKnown ==
  /\ pc \notin {"start", "exit"} => request = "compile"
  /\ pc = "open" => input \in {"locked", "file"}
  /\ pc \notin {"start", "stat", "open", "exit"} => input = "file"

\* Streams and AST by the place in main.
Resources ==
  /\ pc # "exit" => (fin <=> pc = "parse")
  /\ fout <=> pc \in Writing
  /\ pc \in Before => program = "none"
  /\ pc \in {"parsed", "output", "header", "generate"} => program = "live"
  /\ pc \in {"generated", "closed"} => program = "freed"
  /\ pc # "exit" => (parsing <=> pc \in Before)
  /\ pc \in Unwritten \cup {"closed", "exit"} => buffered = 0

\* Diagnostics: a parse without one is a parse of the whole file.
Diagnostics ==
  /\ pc \in {"start", "stat", "open", "output", "header"} => ~diagnosed
  /\ pc # "exit" => status = "running"
  /\ pc = "exit" => status \in {"success", "failure"}
  /\ pc \notin Before \cup {"exit"} => diagnosed \/ atEnd
  /\ refused > 0 => diagnosed

\* The pieces generated are in the file or in the buffer, unless a flush
\* has lost them.
Pieces ==
  /\ todo + refused <= functions
  /\ pc \in Unwritten =>
       todo = functions /\ refused = 0 /\ written = 0 /\ ~lostWrite
  /\ pc \in Behind =>
       /\ written + buffered <= 1 + (functions - (todo + refused))
       /\ ~lostWrite => written + buffered = 1 + (functions - (todo + refused))
  /\ pc \in {"generated", "closed"} => todo = 0

IInv ==
  /\ TypeOK /\ InputKnown /\ Resources /\ Diagnostics /\ Pieces
  /\ StatusTellsDiagnostics /\ SuccessIsComplete /\ ReleasedAtExit


-----------------------------------------------------------------------------

USE DriverAssumption DEF sourceVars, contractVars, streamVars, Exit, Continue,
    Fail, Request, Input, Before, Unwritten, Writing, Behind

LEMMA InitIInv == Init => IInv
<1> SUFFICES ASSUME Init PROVE IInv  OBVIOUS
<1> USE DEF Init, Parse!Init
<1>1. TypeOK
  <2>1. {readFailed, parsing, diagnosed, atEnd, fin, fout, lostWrite,
          diskFull} \subseteq BOOLEAN
    OBVIOUS
  <2>2. {functions, todo, refused} \subseteq 0..Functions
    OBVIOUS
  <2> QED  BY <2>1, <2>2 DEF TypeOK
<1>2. InputKnown /\ Resources  BY DEF InputKnown, Resources
<1>3. Diagnostics /\ Pieces    BY DEF Diagnostics, Pieces
<1>4. StatusTellsDiagnostics /\ SuccessIsComplete /\ ReleasedAtExit
  BY DEF StatusTellsDiagnostics, SuccessIsComplete, ReleasedAtExit
<1> QED  BY <1>1, <1>2, <1>3, <1>4 DEF IInv

LEMMA CheckArgumentsIInv == ASSUME IInv, CheckArguments PROVE IInv'
<1> USE DEF IInv, CheckArguments
<1>1. TypeOK'  BY DEF TypeOK, Resources, Diagnostics, Pieces
<1>2. InputKnown' /\ Resources'
  BY DEF TypeOK, InputKnown, Resources
<1>3. Diagnostics' /\ Pieces'
  BY DEF TypeOK, Resources, Diagnostics, Pieces
<1>4. StatusTellsDiagnostics' /\ ReleasedAtExit'
  BY DEF TypeOK, StatusTellsDiagnostics, ReleasedAtExit, Resources, Diagnostics
<1>5. SuccessIsComplete'
  BY DEF TypeOK, SuccessIsComplete, InputKnown, Resources, Diagnostics, Pieces
<1> QED  BY <1>1, <1>2, <1>3, <1>4, <1>5

LEMMA StatInputIInv == ASSUME IInv, StatInput PROVE IInv'
<1> USE DEF IInv, StatInput
<1>1. TypeOK'  BY DEF TypeOK, Resources, Diagnostics, Pieces
<1>2. InputKnown' /\ Resources'
  BY DEF TypeOK, InputKnown, Resources
<1>3. Diagnostics' /\ Pieces'
  BY DEF TypeOK, Resources, Diagnostics, Pieces
<1>4. StatusTellsDiagnostics' /\ ReleasedAtExit'
  BY DEF TypeOK, StatusTellsDiagnostics, ReleasedAtExit, Resources, Diagnostics
<1>5. SuccessIsComplete'
  BY DEF TypeOK, SuccessIsComplete, InputKnown, Resources, Diagnostics, Pieces
<1> QED  BY <1>1, <1>2, <1>3, <1>4, <1>5

LEMMA OpenInputIInv == ASSUME IInv, OpenInput PROVE IInv'
<1> USE DEF IInv, OpenInput
<1>1. TypeOK'  BY DEF TypeOK, Resources, Diagnostics, Pieces
<1>2. InputKnown' /\ Resources'
  BY DEF TypeOK, InputKnown, Resources
<1>3. Diagnostics' /\ Pieces'
  BY DEF TypeOK, Resources, Diagnostics, Pieces
<1>4. StatusTellsDiagnostics' /\ ReleasedAtExit'
  BY DEF TypeOK, StatusTellsDiagnostics, ReleasedAtExit, Resources, Diagnostics
<1>5. SuccessIsComplete'
  BY DEF TypeOK, SuccessIsComplete, InputKnown, Resources, Diagnostics, Pieces
<1> QED  BY <1>1, <1>2, <1>3, <1>4, <1>5

LEMMA ReadInputIInv == ASSUME IInv, ReadInput PROVE IInv'
<1> USE DEF IInv, ReadInput, Parse!Work
<1>1. TypeOK'  BY DEF TypeOK, Resources, Diagnostics, Pieces
<1>2. InputKnown' /\ Resources'
  BY DEF TypeOK, InputKnown, Resources
<1>3. Diagnostics' /\ Pieces'
  BY DEF TypeOK, Resources, Diagnostics, Pieces
<1>4. pc' # "exit" /\ status' = "running"
  BY DEF Diagnostics
<1> QED  BY <1>1, <1>2, <1>3, <1>4
  DEF StatusTellsDiagnostics, SuccessIsComplete, ReleasedAtExit

LEMMA EndParseIInv == ASSUME IInv, EndParse PROVE IInv'
<1> USE DEF IInv, EndParse, Parse!Return
<1>1. TypeOK'  BY DEF TypeOK, Resources, Diagnostics, Pieces
<1>2. InputKnown' /\ Resources'
  BY DEF TypeOK, InputKnown, Resources
<1>3. Diagnostics' /\ Pieces'
  BY DEF TypeOK, Resources, Diagnostics, Pieces
<1>4. pc' # "exit" /\ status' = "running"
  BY DEF Diagnostics
<1> QED  BY <1>1, <1>2, <1>3, <1>4
  DEF StatusTellsDiagnostics, SuccessIsComplete, ReleasedAtExit

LEMMA CheckParseIInv == ASSUME IInv, CheckParse PROVE IInv'
<1> USE DEF IInv, CheckParse
<1>1. TypeOK'  BY DEF TypeOK, Resources, Diagnostics, Pieces
<1>2. InputKnown' /\ Resources'
  BY DEF TypeOK, InputKnown, Resources
<1>3. Diagnostics' /\ Pieces'
  BY DEF TypeOK, Resources, Diagnostics, Pieces
<1>4. StatusTellsDiagnostics' /\ ReleasedAtExit'
  BY DEF TypeOK, StatusTellsDiagnostics, ReleasedAtExit, Resources, Diagnostics
<1>5. SuccessIsComplete'
  BY DEF TypeOK, SuccessIsComplete, InputKnown, Resources, Diagnostics, Pieces
<1> QED  BY <1>1, <1>2, <1>3, <1>4, <1>5

LEMMA OpenOutputIInv == ASSUME IInv, OpenOutput PROVE IInv'
<1> USE DEF IInv, OpenOutput
<1>1. TypeOK'  BY DEF TypeOK, Resources, Diagnostics, Pieces
<1>2. InputKnown' /\ Resources'
  BY DEF TypeOK, InputKnown, Resources
<1>3. Diagnostics' /\ Pieces'
  BY DEF TypeOK, Resources, Diagnostics, Pieces
<1>4. StatusTellsDiagnostics' /\ ReleasedAtExit'
  BY DEF TypeOK, StatusTellsDiagnostics, ReleasedAtExit, Resources, Diagnostics
<1>5. SuccessIsComplete'
  BY DEF TypeOK, SuccessIsComplete, InputKnown, Resources, Diagnostics, Pieces
<1> QED  BY <1>1, <1>2, <1>3, <1>4, <1>5

LEMMA GenerateHeaderIInv == ASSUME IInv, GenerateHeader PROVE IInv'
<1> USE DEF IInv, GenerateHeader, Emit
<1>1. TypeOK'  BY DEF TypeOK, Resources, Diagnostics, Pieces
<1>2. InputKnown' /\ Resources'
  BY DEF TypeOK, InputKnown, Resources
<1>3. Diagnostics' /\ Pieces'
  BY DEF TypeOK, Resources, Diagnostics, Pieces
<1>4. pc' # "exit" /\ status' = "running"
  BY DEF Diagnostics
<1> QED  BY <1>1, <1>2, <1>3, <1>4
  DEF StatusTellsDiagnostics, SuccessIsComplete, ReleasedAtExit

LEMMA GenerateFunctionIInv == ASSUME IInv, GenerateFunction PROVE IInv'
<1> USE DEF IInv, GenerateFunction, Emit
<1>1. TypeOK'
  <2>1. {readFailed, parsing, diagnosed, atEnd, fin, fout, lostWrite,
          diskFull}' \subseteq BOOLEAN
    BY DEF TypeOK
  <2>2. /\ {functions, todo, refused}' \subseteq 0..Functions
        /\ buffered' \in 0..BufferSize /\ written' \in 0..(Functions + 1)
    BY DEF TypeOK, Resources, Diagnostics, Pieces
  <2>3. /\ pc' \in {"start", "stat", "open", "parse", "parsed", "output",
                    "header", "generate", "generated", "closed", "exit"}
        /\ request' \in Request /\ input' \in Input
        /\ program' \in {"none", "live", "freed"}
        /\ output' \in {"old", "new"}
        /\ status' \in {"running", "success", "failure"}
    BY DEF TypeOK
  <2> QED  BY <2>1, <2>2, <2>3 DEF TypeOK
<1>2. InputKnown' /\ Resources'
  BY DEF TypeOK, InputKnown, Resources
<1>3. Diagnostics' /\ Pieces'
  BY DEF TypeOK, Resources, Diagnostics, Pieces
<1>4. pc' # "exit" /\ status' = "running"
  BY DEF Diagnostics
<1> QED  BY <1>1, <1>2, <1>3, <1>4
  DEF StatusTellsDiagnostics, SuccessIsComplete, ReleasedAtExit

LEMMA EndGenerationIInv == ASSUME IInv, EndGeneration PROVE IInv'
<1> USE DEF IInv, EndGeneration
<1>1. TypeOK'  BY DEF TypeOK, Resources, Diagnostics, Pieces
<1>2. InputKnown' /\ Resources'
  BY DEF TypeOK, InputKnown, Resources
<1>3. Diagnostics' /\ Pieces'
  BY DEF TypeOK, Resources, Diagnostics, Pieces
<1>4. pc' # "exit" /\ status' = "running"
  BY DEF Diagnostics
<1> QED  BY <1>1, <1>2, <1>3, <1>4
  DEF StatusTellsDiagnostics, SuccessIsComplete, ReleasedAtExit

LEMMA CloseOutputIInv == ASSUME IInv, CloseOutput PROVE IInv'
<1> USE DEF IInv, CloseOutput
<1>1. TypeOK'
  <2>1. {readFailed, parsing, diagnosed, atEnd, fin, fout, lostWrite,
          diskFull}' \subseteq BOOLEAN
    BY DEF TypeOK
  <2>2. /\ {functions, todo, refused}' \subseteq 0..Functions
        /\ buffered' \in 0..BufferSize /\ written' \in 0..(Functions + 1)
    BY DEF TypeOK, Resources, Diagnostics, Pieces
  <2>3. /\ pc' \in {"start", "stat", "open", "parse", "parsed", "output",
                    "header", "generate", "generated", "closed", "exit"}
        /\ request' \in Request /\ input' \in Input
        /\ program' \in {"none", "live", "freed"}
        /\ output' \in {"old", "new"}
        /\ status' \in {"running", "success", "failure"}
    BY DEF TypeOK
  <2> QED  BY <2>1, <2>2, <2>3 DEF TypeOK
<1>2. InputKnown' /\ Resources'
  BY DEF TypeOK, InputKnown, Resources
<1>3. Diagnostics' /\ Pieces'
  BY DEF TypeOK, Resources, Diagnostics, Pieces
<1>4. StatusTellsDiagnostics' /\ ReleasedAtExit'
  BY DEF TypeOK, StatusTellsDiagnostics, ReleasedAtExit, Resources, Diagnostics
<1>5. SuccessIsComplete'
  BY DEF TypeOK, SuccessIsComplete, InputKnown, Resources, Diagnostics, Pieces
<1> QED  BY <1>1, <1>2, <1>3, <1>4, <1>5

LEMMA FinishIInv == ASSUME IInv, Finish PROVE IInv'
<1> USE DEF IInv, Finish
<1>1. TypeOK'  BY DEF TypeOK, Resources, Diagnostics, Pieces
<1>2. InputKnown' /\ Resources'
  BY DEF TypeOK, InputKnown, Resources
<1>3. Diagnostics' /\ Pieces'
  BY DEF TypeOK, Resources, Diagnostics, Pieces
<1>4. StatusTellsDiagnostics' /\ ReleasedAtExit'
  BY DEF TypeOK, StatusTellsDiagnostics, ReleasedAtExit, Resources, Diagnostics
<1>5. SuccessIsComplete'
  BY DEF TypeOK, SuccessIsComplete, InputKnown, Resources, Diagnostics, Pieces
<1> QED  BY <1>1, <1>2, <1>3, <1>4, <1>5

LEMMA DiskChangesIInv == ASSUME IInv, DiskChanges PROVE IInv'
<1> USE DEF IInv, DiskChanges
<1>1. TypeOK'  BY DEF TypeOK, Resources, Diagnostics, Pieces
<1>2. InputKnown' /\ Resources'
  BY DEF TypeOK, InputKnown, Resources
<1>3. Diagnostics' /\ Pieces'
  BY DEF TypeOK, Resources, Diagnostics, Pieces
<1>4. pc' # "exit" /\ status' = "running"
  BY DEF Diagnostics
<1> QED  BY <1>1, <1>2, <1>3, <1>4
  DEF StatusTellsDiagnostics, SuccessIsComplete, ReleasedAtExit

LEMMA StutterIInv ==
  ASSUME IInv, UNCHANGED vars  PROVE IInv'
BY DEF IInv, vars, TypeOK, InputKnown, Resources, Diagnostics, Pieces,
   StatusTellsDiagnostics, SuccessIsComplete, ReleasedAtExit

LEMMA StepIInv == IInv /\ [Next]_vars => IInv'
<1> SUFFICES ASSUME IInv, [Next]_vars PROVE IInv'  OBVIOUS
<1>1. CASE Main
  BY <1>1, CheckArgumentsIInv, StatInputIInv, OpenInputIInv, EndParseIInv,
     CheckParseIInv, OpenOutputIInv, GenerateHeaderIInv, GenerateFunctionIInv,
     EndGenerationIInv, CloseOutputIInv, FinishIInv DEF Main
<1>2. CASE ReadInput  BY <1>2, ReadInputIInv
<1>3. CASE DiskChanges  BY <1>3, DiskChangesIInv
<1>4. CASE Exited \/ UNCHANGED vars  BY <1>4, StutterIInv DEF Exited
<1> QED  BY <1>1, <1>2, <1>3, <1>4 DEF Next

-----------------------------------------------------------------------------

\* Every behaviour of main satisfies the inductive invariant.
THEOREM Invariance == Spec => []IInv
BY InitIInv, StepIInv, PTL DEF Spec

\* Every variable of main keeps its type: no buffer is overfilled, and no more
\* pieces are written than there are functions and the header.
THEOREM TypeCorrect == Spec => []TypeOK
BY Invariance, PTL DEF IInv

\* The exit status reflects the diagnostics of every phase.
THEOREM StatusIsHonest == Spec => []StatusTellsDiagnostics
BY Invariance, PTL DEF IInv

\* A successful compilation has read all of a regular file, generated every
\* function and, unless a flush failed, written everything it generated.
THEOREM SuccessMeansComplete == Spec => []SuccessIsComplete
BY Invariance, PTL DEF IInv

\* On every path to an exit the streams are closed and the AST is freed.
THEOREM NothingKept == Spec => []ReleasedAtExit
BY Invariance, PTL DEF IInv

\* main truncates the output only after a parse of the whole input without a
\* diagnostic.
THEOREM OldOutputSurvivesParse == Spec => TruncatedAfterCleanParse
<1>1. ASSUME IInv, [Next]_vars, output' # output
      PROVE  ~parsing /\ atEnd /\ ~diagnosed
  <2>1. OpenOutput
    BY <1>1 DEF Next, Main, CheckArguments, StatInput, OpenInput, EndParse,
       CheckParse, GenerateHeader, GenerateFunction, EndGeneration, CloseOutput,
       Finish, ReadInput, DiskChanges, Exited, vars
  <2>2. pc = "output"  BY <2>1 DEF OpenOutput
  <2> QED  BY <1>1, <2>2 DEF IInv, Resources, Diagnostics, Before
<1>2. IInv /\ [Next]_vars
        => [output' # output => ~parsing /\ atEnd /\ ~diagnosed]_vars
  BY <1>1
<1> QED  BY <1>2, Invariance, PTL DEF Spec, TruncatedAfterCleanParse

===============================================================================
