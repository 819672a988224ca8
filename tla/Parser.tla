------------------------------- MODULE Parser -------------------------------
(***************************************************************************)
(* The recursive descent parser of gates: src/parser/*.c.                  *)
(*                                                                         *)
(* The C call stack is the variable `stack`.  A frame stands for one       *)
(* activation of a function that recursion can reach:                      *)
(*   "program"  parse_program and the declaration parsers it calls,        *)
(*   "stmt"     parse_statement and the statement parsers it calls,        *)
(*   "expr"     parse_expression_prec,                                     *)
(*   "prim"     parse_primary and the operand parsers it calls.            *)
(* A step runs the code of the innermost activation from one token test,   *)
(* call or return to the next.  The token classes are what the parser      *)
(* compares; the lexer is the choice of the next token.  Data that no      *)
(* guard of the parser reads (spelling, values, line numbers) is left out. *)
(***************************************************************************)
EXTENDS Integers, Sequences, FiniteSets

CONSTANTS
  MaxDepth,   \* GATES_MAX_PARSE_DEPTH
  InputLen,   \* bound on the number of tokens in the input
  Alphabet    \* the token classes the input is made of

(***************************************************************************)
(* Token classes.  "!" stands for ! and ~, "++" for ++ and --, "%" for     *)
(* every operator without a precedence, and "||", "-", "*" for the binary  *)
(* operators, ten precedence levels being represented by three.  "longid"  *)
(* is an identifier the lexer truncates, with an error.                    *)
(***************************************************************************)
Keyword  == {"struct", "type", "void", "if", "else", "while", "for",
             "return", "break", "continue"}
BinaryOp == {"||", "-", "*"}
Operator == BinaryOp \cup {"=", ".", "!", "++", "%"}
Ident    == {"id", "longid"}
Token    == Keyword \cup Operator \cup Ident
              \cup {"num", ";", ",", "(", ")", "{", "}", "[", "]"}

ASSUME ParserAssumption ==
  /\ MaxDepth \in Nat \ {0}
  /\ InputLen \in Nat
  /\ Alphabet \subseteq Token

\* get_precedence on the three representative operators.
Precedence(op) == IF op = "||" THEN 1 ELSE IF op = "-" THEN 2 ELSE 3
TopLevelMin == 1

VARIABLES
  tok,        \* ctx->current_token
  again,      \* the token the lexer delivers a second time after fseek
  left,       \* how many tokens the input still holds
  stack,      \* the activations, outermost first
  ret,        \* the value the last call returned, until the caller reads it
  depth,      \* ctx->depth
  loopDepth,  \* s_loop_depth
  errors,     \* error_count: 0, 1, or 2 for "two or more"
  lost,       \* history: nodes unreachable but not freed, less double frees
  dropped     \* history: what kinds of input were skipped with no diagnostic

vars == <<tok, again, left, stack, ret, depth, loopDepth, errors, lost, dropped>>

Kind      == {"program", "stmt", "expr", "prim"}
Construct == {"-", "if", "elseif", "else", "while", "for"}
Result    == {"none", "null", "empty", "node"}
Dropped   == {"parameter", "field", "initializer", "statement", "operand"}
Guarded   == {"stmt", "expr"}

\* The places in the code where an activation can stand, by kind.
ProgramPlace ==
  {"entry", "top", "structName", "structAfterName", "structFunction", "sync",
   "semicolon", "functionName", "functionParen", "params", "paramStruct",
   "paramName", "paramComma", "paramsClose", "functionOpen", "functionBody",
   "functionClose", "register", "fields", "fieldName", "fieldEnd",
   "structClose", "structEnd"}
StatementPlace ==
  {"entry", "skip", "jumpEnd", "returnEnd", "declStruct", "declName",
   "declDim", "declSize", "declSizeEnd", "declInit", "declValue",
   "declGarbage", "declSkip", "initList", "declEnd", "assign", "equals",
   "assignEnd", "assignDone", "assignSkip", "lhs", "lhsField", "index",
   "indexEnd", "args", "argsComma", "argsMore", "argsEnd", "callEnd", "open",
   "condition", "closeParen", "openBrace", "body", "close", "else",
   "elseKind", "elseBody", "forInit", "forDeclared", "forIdent",
   "forAssigned", "forDiscarded", "forInitDone", "forCondition",
   "forSemicolon", "forIncrement", "forIncrementOp", "forIncremented",
   "forParen", "forBrace"}
ExpressionPlace == {"entry", "left", "operators", "right"}
PrimaryPlace ==
  {"entry", "unary", "paren", "identifier", "field", "fieldName", "index",
   "indexEnd", "args", "argsComma", "argsMore", "argsEnd"}
Place == ProgramPlace \cup StatementPlace \cup ExpressionPlace \cup PrimaryPlace

(***************************************************************************)
(* A frame: the construct being parsed, the place in the code, the local   *)
(* counter (min_prec, brace_depth, paren_depth or a flag) and the number   *)
(* of subtrees its local variables own.                                    *)
(***************************************************************************)
Frame == [kind : Kind, c : Construct, pc : Place, n : Int, own : Int]

New(kind, n) ==
  [kind |-> kind, c |-> "-", pc |-> "entry", n |-> n,
   own |-> IF kind \in {"program", "stmt"} THEN 1 ELSE 0]

Done == stack = <<>>
Top  == stack[Len(stack)]
At(kind, pc)  == ~Done /\ Top.kind = kind /\ Top.pc = pc
HasErrors     == errors > 0

-----------------------------------------------------------------------------
(* The token side of a step. *)

Plus(count, k) == IF count + k >= 2 THEN 2 ELSE count + k

\* advance: the next token, after k errors; an overlong identifier logs one.
AdvanceLogging(k) ==
  /\ \/ again # "none" /\ tok' = again /\ UNCHANGED left
     \/ again = "none" /\ tok' = "eof" /\ left' = 0
     \/ /\ again = "none" /\ left > 0
        /\ tok' \in Alphabet /\ left' = left - 1
  /\ again' = "none"
  /\ errors' = Plus(errors, k + IF tok' = "longid" THEN 1 ELSE 0)

Advance(k)    == AdvanceLogging(k) /\ UNCHANGED dropped
Discard(what) == AdvanceLogging(0) /\ dropped' = dropped \cup {what}

Stay(k) ==
  /\ errors' = Plus(errors, k)
  /\ UNCHANGED <<tok, again, left, dropped>>

\* Going on without an error although the call returned no operand.
StayWithout(what) ==
  /\ dropped' = IF ret = "null" /\ ~HasErrors
                THEN dropped \cup {what} ELSE dropped
  /\ UNCHANGED <<tok, again, left, errors>>

\* fseek back behind the identifier: the current token is lexed once more.
Rewind(k) ==
  /\ tok' = (IF Top.n = 1 THEN "longid" ELSE "id") /\ again' = tok
  /\ errors' = Plus(errors, k)
  /\ UNCHANGED <<left, dropped>>

-----------------------------------------------------------------------------
(* The control side of a step. *)

Becomes(f) == stack' = [stack EXCEPT ![Len(stack)] = f]

\* Continue at pc; d is the number of subtrees acquired, less the number freed
\* or attached to another node.
Goto(pc, d) ==
  /\ Becomes([Top EXCEPT !.pc = pc, !.own = @ + d])
  /\ ret' = "none"
  /\ UNCHANGED <<depth, loopDepth, lost>>

\* The same, with the local counter set to n.
GotoWith(pc, n, d) ==
  /\ Becomes([Top EXCEPT !.pc = pc, !.n = n, !.own = @ + d])
  /\ ret' = "none"
  /\ UNCHANGED <<depth, loopDepth, lost>>

\* The same, a returned node becoming unreachable while it is still allocated.
GotoLeaking(pc) ==
  /\ Becomes([Top EXCEPT !.pc = pc])
  /\ ret' = "none"
  /\ lost' = lost + 1
  /\ UNCHANGED <<depth, loopDepth>>

Begin(c, pc) ==
  /\ Becomes([Top EXCEPT !.pc = pc, !.c = c])
  /\ ret' = "none"
  /\ UNCHANGED <<depth, loopDepth, lost>>

Loops == {"while", "for"}

\* Fault: only while statements count as loops.
OpenBodyOfWhile(own) ==
  /\ Becomes([Top EXCEPT !.pc = "body", !.own = own])
  /\ ret' = "none"
  /\ loopDepth' = loopDepth + IF Top.c = "while" THEN 1 ELSE 0
  /\ UNCHANGED <<depth, lost>>

\* Enter the braces of construct Top.c, its frame owning `own` subtrees.
OpenBody(own) ==
  /\ Becomes([Top EXCEPT !.pc = "body", !.own = own])
  /\ ret' = "none"
  /\ loopDepth' = loopDepth + IF Top.c \in Loops THEN 1 ELSE 0
  /\ UNCHANGED <<depth, lost>>

\* Fault: an unclosed loop body is left without the decrement.
LeaveBodyAtBrace ==
  /\ Becomes([Top EXCEPT !.pc = "close"])
  /\ ret' = "none"
  /\ loopDepth' = loopDepth - IF Top.c \in Loops /\ tok = "}" THEN 1 ELSE 0
  /\ UNCHANGED <<depth, lost>>

\* Fault: no loop body is left with the decrement.
LeaveBodyStillOpen ==
  /\ Becomes([Top EXCEPT !.pc = "close"])
  /\ ret' = "none"
  /\ UNCHANGED <<depth, loopDepth, lost>>

LeaveBody ==
  /\ Becomes([Top EXCEPT !.pc = "close"])
  /\ ret' = "none"
  /\ loopDepth' = loopDepth - IF Top.c \in Loops THEN 1 ELSE 0
  /\ UNCHANGED <<depth, lost>>

\* The depth guard of parse_statement and parse_expression_prec.
RefusedLate == depth > MaxDepth
Refused     == depth >= MaxDepth

\* It logs one error when it refuses a call.
Overflow == IF Refused THEN 1 ELSE 0

Push(kind, n, pc, d) ==
  Append([stack EXCEPT ![Len(stack)] = [Top EXCEPT !.pc = pc, !.own = @ + d]],
         New(kind, n))

\* A call of a guarded function, to come back at pc.
Call(kind, n, pc, d) ==
  /\ IF Refused
     THEN /\ Becomes([Top EXCEPT !.pc = pc, !.own = @ + d])
          /\ ret' = "null"
          /\ UNCHANGED depth
     ELSE /\ stack' = Push(kind, n, pc, d)
          /\ ret' = "none"
          /\ depth' = depth + 1
  /\ UNCHANGED <<loopDepth, lost>>

\* A call of parse_primary, which has no guard.
CallPrimary(pc) ==
  /\ stack' = Push("prim", 0, pc, 0)
  /\ ret' = "none"
  /\ UNCHANGED <<depth, loopDepth, lost>>

\* Fault: the early return after a failure skips the decrement.
ReturnKeepingDepth(r, d) ==
  /\ stack' = SubSeq(stack, 1, Len(stack) - 1)
  /\ ret' = r
  /\ depth' = depth - IF Top.kind \in Guarded /\ r # "null" THEN 1 ELSE 0
  /\ lost' = lost + Top.own + d - IF r = "null" THEN 0 ELSE 1
  /\ UNCHANGED loopDepth

\* Return r, d as in Goto: what the locals still own, r aside, is lost.
Return(r, d) ==
  /\ stack' = SubSeq(stack, 1, Len(stack) - 1)
  /\ ret' = r
  /\ depth' = depth - IF Top.kind \in Guarded THEN 1 ELSE 0
  /\ lost' = lost + Top.own + d - IF r = "null" THEN 0 ELSE 1
  /\ UNCHANGED loopDepth

Acquired == IF ret = "node" THEN 1 ELSE 0

-----------------------------------------------------------------------------
(* Declarations: parse.c, parse_function.c, parse_struct.c. *)

InProgram(pc) == At("program", pc)

\* Fault: a stray closing brace ends the program.
MoreDeclarationsUntilBrace == tok \notin {"}", "eof"} /\ ~HasErrors
MoreDeclarations == tok # "eof" /\ ~HasErrors

ParseProgram ==
  \/ InProgram("entry") /\ Advance(0) /\ Goto("top", 0)
  \/ /\ InProgram("top")
     /\ \/ ~MoreDeclarations /\ Stay(0) /\ Return("node", 0)
        \/ /\ MoreDeclarations
           /\ \/ tok = "struct" /\ Advance(0) /\ Goto("structName", 0)
              \/ tok \in Keyword \ {"struct"} /\ Advance(0) /\ Goto("functionName", 0)
              \/ tok \notin Keyword /\ Advance(1) /\ Goto("top", 0)

\* reset_array_table and the new function node come with the "(".
ParseStructDeclaration ==
  \/ /\ InProgram("structName")
     /\ \/ tok \in Ident /\ Advance(0) /\ Goto("structAfterName", 0)
        \/ tok \notin Ident /\ Stay(1) /\ GotoWith("sync", 0, 0)
  \/ /\ InProgram("structAfterName")
     /\ \/ tok = "{" /\ Advance(0) /\ Goto("register", 1)
        \/ tok \in Ident /\ Advance(0) /\ Goto("structFunction", 0)
        \/ tok \notin Ident \cup {"{"} /\ Stay(1) /\ GotoWith("sync", 0, 0)
  \/ /\ InProgram("structFunction")
     /\ \/ tok = "(" /\ Advance(0) /\ Goto("params", 1)
        \/ tok # "(" /\ Stay(1) /\ GotoWith("sync", 0, 0)

ParseFunctionDeclaration ==
  \/ /\ InProgram("functionName")
     /\ \/ tok \in Ident /\ Advance(0) /\ Goto("functionParen", 0)
        \/ tok \notin Ident /\ Stay(1) /\ GotoWith("sync", 0, 0)
  \/ /\ InProgram("functionParen")
     /\ \/ tok = "(" /\ Advance(0) /\ Goto("params", 1)
        \/ tok # "(" /\ Stay(1) /\ Goto("semicolon", 0)

\* n is brace_depth.
SkipToSyncPoint ==
  /\ InProgram("sync")
  /\ \/ tok = "eof" /\ Stay(0) /\ Goto("top", 0)
     \/ tok = "{" /\ Advance(0) /\ GotoWith("sync", Top.n + 1, 0)
     \/ tok = "}" /\ Top.n > 0 /\ Advance(0) /\ GotoWith("sync", Top.n - 1, 0)
     \/ tok \in {"}", ";"} /\ Top.n = 0 /\ Advance(0) /\ Goto("top", 0)
     \/ /\ tok \notin {"eof", "{", "}"} /\ ~(tok = ";" /\ Top.n = 0)
        /\ Advance(0) /\ Goto("sync", 0)

SkipToSemicolon ==
  /\ InProgram("semicolon")
  /\ \/ tok = ";" /\ Advance(0) /\ Goto("top", 0)
     \/ tok = "eof" /\ Stay(0) /\ Goto("top", 0)
     \/ tok \notin {";", "eof"} /\ Advance(0) /\ Goto("semicolon", 0)

ParseFunctionParameters ==
  \/ /\ InProgram("params")
     /\ \/ (tok \in {")", "eof"} \/ HasErrors) /\ Stay(0) /\ Goto("paramsClose", 0)
        \/ /\ tok \notin {")", "eof"} /\ ~HasErrors
           /\ \/ tok = "void" /\ Advance(0) /\ Goto("paramsClose", 0)
              \/ tok = "struct" /\ Advance(0) /\ Goto("paramStruct", 0)
              \/ /\ tok \in Keyword \ {"void", "struct"}
                 /\ Advance(0) /\ Goto("paramName", 0)
              \/ tok \notin Keyword /\ Discard("parameter") /\ Goto("params", 0)
  \/ /\ InProgram("paramsClose")
     /\ \/ /\ tok = ")" /\ Advance(0)
           /\ IF errors' = 0 THEN Goto("functionOpen", 0) ELSE Goto("top", -1)
        \/ tok # ")" /\ Stay(1) /\ Goto("top", -1)

ParseSingleParameter ==
  \/ /\ InProgram("paramStruct")
     /\ \/ tok \in Ident /\ Advance(0) /\ Goto("paramName", 0)
        \/ tok \notin Ident /\ Stay(1) /\ Goto("paramsClose", 0)
  \/ /\ InProgram("paramName")
     /\ \/ tok \in Ident /\ Advance(0) /\ Goto("paramComma", 0)
        \/ tok \notin Ident /\ Stay(1) /\ Goto("paramsClose", 0)
  \/ /\ InProgram("paramComma")
     /\ \/ tok = "," /\ Advance(0) /\ Goto("params", 0)
        \/ tok # "," /\ Stay(0) /\ Goto("params", 0)

\* The condition of the loops that parse the statements between braces.
\* Faults: the loops go on after an error, or at the end of the input.
MoreStatementsAfterError == tok \notin {"}", "eof"}
MoreStatementsAtEnd      == tok # "}" /\ ~HasErrors
MoreStatements == tok \notin {"}", "eof"} /\ ~HasErrors

ParseFunctionBody ==
  \/ /\ InProgram("functionOpen")
     /\ \/ tok = "{" /\ Advance(0) /\ Goto("functionBody", 0)
        \/ tok # "{" /\ Stay(1) /\ Goto("top", -1)
  \/ /\ InProgram("functionBody")
     /\ \/ MoreStatements /\ Stay(Overflow) /\ Call("stmt", 0, "functionBody", 0)
        \/ ~MoreStatements /\ Stay(0) /\ Goto("functionClose", 0)
  \/ /\ InProgram("functionClose")
     /\ \/ tok = "}" /\ Advance(0) /\ Goto("top", -1)
        \/ tok # "}" /\ Stay(1) /\ Goto("top", -1)

\* register_struct may find the table full: two errors, the node freed.
ParseStruct ==
  \/ /\ InProgram("register")
     /\ \/ Stay(0) /\ Goto("fields", 0)
        \/ Stay(2) /\ Goto("top", -1)
  \/ /\ InProgram("fields")
     /\ \/ (tok \in {"}", "eof"} \/ HasErrors) /\ Stay(0) /\ Goto("structClose", 0)
        \/ /\ tok \notin {"}", "eof"} /\ ~HasErrors
           /\ \/ tok \in Keyword /\ Advance(0) /\ Goto("fieldName", 0)
              \/ tok \notin Keyword /\ Discard("field") /\ Goto("fields", 0)
  \/ /\ InProgram("structClose")
     /\ \/ tok = "}" /\ Advance(0) /\ Goto("structEnd", 0)
        \/ tok # "}" /\ Stay(1) /\ Goto("structEnd", 0)
  \/ /\ InProgram("structEnd")
     /\ \/ tok = ";" /\ Advance(0) /\ Goto("top", -1)
        \/ tok # ";" /\ Stay(1) /\ Goto("top", -1)

\* A field that fails is followed by the advance of the loop in parse_struct;
\* register_struct_field may log that the struct is full and is not asked.
ParseStructField ==
  \/ /\ InProgram("fieldName")
     /\ \/ \E full \in {0, 1} : tok \in Ident /\ Advance(full) /\ Goto("fieldEnd", 1)
        \/ tok \notin Ident /\ Advance(1) /\ Goto("fields", 0)
  \/ /\ InProgram("fieldEnd")
     /\ \/ tok = ";" /\ Advance(0) /\ Goto("fields", -1)
        \/ tok # ";" /\ Advance(1) /\ Goto("fields", -1)

-----------------------------------------------------------------------------
(* Statements: parse_statement.c.  A statement returns its wrapper node,   *)
(* "empty" when nothing was added to it.                                   *)

InStatement(pc) == At("stmt", pc)
\* Fault: the wrapper is freed and still returned.
FailFreeingWrapper(d) == Stay(1) /\ Return("empty", d - 1)
Fail(d) == Stay(1) /\ Return("empty", d)

ParseStatement ==
  \/ /\ InStatement("entry")
     /\ \/ tok = "struct" /\ Advance(0) /\ Goto("declStruct", 0)
        \/ tok = "type" /\ Advance(0) /\ Goto("declName", 0)
        \/ tok \in Ident /\ Advance(0) /\ Goto("assign", 0)
        \/ tok = "return" /\ Advance(Overflow) /\ Call("expr", TopLevelMin, "returnEnd", 0)
        \/ tok \in {"if", "while", "for"} /\ Advance(0) /\ Begin(tok, "open")
        \/ /\ tok \in {"break", "continue"}
           /\ \/ loopDepth <= 0 /\ Fail(0)
              \/ loopDepth > 0 /\ Advance(0) /\ Goto("jumpEnd", 0)
        \/ /\ tok \notin Ident \cup {"struct", "type", "return", "if", "while",
                                     "for", "break", "continue"}
           /\ Stay(0) /\ Goto("skip", 0)
  \/ /\ InStatement("skip")
     /\ \/ tok = ";" /\ Advance(0) /\ Return("empty", 0)
        \/ tok \in {"}", "eof"} /\ Stay(0) /\ Return("empty", 0)
        \/ tok \notin {";", "}", "eof"} /\ Discard("statement") /\ Goto("skip", 0)

\* parse_break_statement and parse_continue_statement after the keyword.
ParseJump ==
  /\ InStatement("jumpEnd")
  /\ \/ tok = ";" /\ Advance(0) /\ Return("node", 0)
     \/ tok # ";" /\ Fail(0)

ParseReturn ==
  /\ InStatement("returnEnd")
  /\ \/ tok = ";" /\ Advance(0) /\ Return("node", 0)
     \/ tok # ";" /\ Stay(1) /\ Return("null", -1)

\* n = 1: an array or a struct, whose initializer may be a brace list.
ParseVariableDeclaration ==
  \/ /\ InStatement("declStruct")
     /\ \/ tok \in Ident /\ Advance(0) /\ GotoWith("declName", 1, 0)
        \/ tok \notin Ident /\ Fail(0)
  \/ /\ InStatement("declName")
     /\ \/ tok \in Ident /\ Advance(0) /\ Goto("declDim", 1)
        \/ tok \notin Ident /\ Fail(0)
  \/ /\ InStatement("declDim")
     /\ \/ tok = "[" /\ Advance(0) /\ GotoWith("declSize", 1, 0)
        \/ tok # "[" /\ Stay(0) /\ Goto("declInit", 0)
  \/ /\ InStatement("declSize")
     /\ \/ tok = "num" /\ Advance(0) /\ Goto("declSizeEnd", 0)
        \/ tok = "num" /\ Advance(1) /\ Return("empty", -1)     \* not an int
        \/ tok = "num" /\ Advance(1) /\ Goto("declSizeEnd", 0)  \* not registered
        \/ tok # "num" /\ Fail(-1)
  \/ /\ InStatement("declSizeEnd")
     /\ \/ tok = "]" /\ Advance(0) /\ Goto("declInit", 0)
        \/ tok # "]" /\ Fail(-1)
  \/ /\ InStatement("declInit")
     /\ \/ tok = "=" /\ Advance(0) /\ Goto("declValue", 0)
        \/ tok # "=" /\ Stay(0) /\ Goto("declEnd", 0)
  \/ /\ InStatement("declValue")
     /\ \/ tok = "{" /\ Top.n = 1 /\ Advance(0) /\ Goto("initList", 1)
        \/ /\ ~(tok = "{" /\ Top.n = 1)
           /\ Stay(Overflow) /\ Call("expr", TopLevelMin, "declGarbage", 0)
  \/ /\ InStatement("declGarbage")
     /\ \/ tok \in {";", "eof"} /\ StayWithout("operand") /\ Goto("declEnd", 0)
        \/ tok \notin {";", "eof"} /\ Stay(1) /\ Goto("declSkip", 0)
  \/ /\ InStatement("declSkip")
     /\ \/ tok \in {";", "eof"} /\ Stay(0) /\ Goto("declEnd", 0)
        \/ tok \notin {";", "eof"} /\ Advance(0) /\ Goto("declSkip", 0)
  \/ /\ InStatement("declEnd")
     /\ \/ tok = ";" /\ Advance(0) /\ Return("node", -1)
        \/ tok # ";" /\ Fail(-1)

\* A list that is not closed is freed; add_child then logs the NULL child.
ParseInitializerList ==
  /\ InStatement("initList")
  /\ \/ /\ tok \notin {"}", "eof"} /\ ~HasErrors
        /\ \/ tok \in Ident \cup {"num", ","} /\ Advance(0)
           \/ tok \notin Ident \cup {"num", ","} /\ Discard("initializer")
        /\ Goto("initList", 0)
     \/ tok = "}" /\ Advance(0) /\ Goto("declEnd", -1)
     \/ tok = "eof" /\ Stay(2) /\ Goto("declEnd", -1)
     \/ tok \notin {"}", "eof"} /\ HasErrors /\ Stay(2) /\ Goto("declEnd", -1)

ParseAssignmentOrExpression ==
  \/ /\ InStatement("assign")
     /\ \/ tok = "(" /\ Advance(0) /\ Goto("args", 1)
        \/ tok # "(" /\ Stay(0) /\ Goto("lhs", 0)
  \/ /\ InStatement("equals")
     /\ \/ HasErrors /\ Stay(0) /\ Return("empty", 0)
        \/ ~HasErrors /\ tok = "=" /\ Advance(Overflow)
             /\ Call("expr", TopLevelMin, "assignEnd", 1)
        \/ ~HasErrors /\ tok # "=" /\ Stay(1) /\ Goto("assignSkip", 1)
  \/ /\ InStatement("assignEnd")
     /\ \/ tok = ";" /\ StayWithout("operand") /\ Goto("assignDone", 0)
        \/ tok # ";" /\ Fail(-1)
  \/ InStatement("assignDone") /\ Advance(0) /\ Return("node", -1)
  \/ /\ InStatement("assignSkip")
     /\ \/ tok = ";" /\ Advance(0) /\ Return("empty", -1)
        \/ tok = "eof" /\ Stay(0) /\ Return("empty", -1)
        \/ tok \notin {";", "eof"} /\ Advance(0) /\ Goto("assignSkip", 0)

\* n is paren_depth; a constant index may be out of the array's bounds.
ParseLhsExpression ==
  \/ /\ InStatement("lhs")
     /\ \/ tok = "." /\ Advance(0) /\ Goto("lhsField", 0)
        \/ tok = "[" /\ Advance(0) /\ GotoWith("index", 0, 0)
        \/ tok \notin {".", "["} /\ Stay(0) /\ Goto("equals", 0)
  \/ /\ InStatement("lhsField")
     /\ \/ tok \in Ident /\ Advance(0) /\ Goto("lhs", 0)
        \/ tok \notin Ident /\ Stay(1) /\ Goto("equals", 0)
  \/ /\ InStatement("indexEnd")
     /\ \/ \E bad \in {0, 1} : tok = "]" /\ Advance(bad) /\ Goto("equals", 0)
        \/ tok # "]" /\ Stay(1) /\ Goto("equals", 0)

ParseStandaloneFunctionCall ==
  \/ /\ InStatement("argsEnd")
     /\ \/ tok = ")" /\ Advance(0) /\ Goto("callEnd", 0)
        \/ tok # ")" /\ Stay(1) /\ GotoWith("callEnd", 0, -1)
  \/ /\ InStatement("callEnd")
     /\ \/ tok = ";" /\ Top.own = 2 /\ Advance(0) /\ Return("node", -1)
        \/ tok = ";" /\ Top.own = 1 /\ Advance(0) /\ Return("empty", 0)
        \/ tok # ";" /\ Fail(1 - Top.own)

-----------------------------------------------------------------------------
(* parse_control_flow.c.  The headers of if, else if and while share their *)
(* shape; "else if" keeps the if node, so it owns one subtree more.        *)

Conditional == {"if", "elseif", "while"}
\* What the frame owns outside the construct: the statement, and the if node.
Outer == IF Top.c = "elseif" THEN 2 ELSE 1

\* parse_else_blocks returns nothing: its caller still returns the if node
\* (the fault frees the if node as well).
FailHeaderFreeingTwice(d) ==
  /\ Stay(1)
  /\ IF Top.c = "elseif" THEN Return("node", d - 2) ELSE Return("empty", d)

FailHeader(d) ==
  /\ Stay(1)
  /\ IF Top.c = "elseif" THEN Return("node", d - 1) ELSE Return("empty", d)

ParseHeader ==
  /\ ~Done /\ Top.c \in Conditional
  /\ \/ /\ InStatement("open")
        /\ \/ tok = "(" /\ Advance(Overflow) /\ Call("expr", TopLevelMin, "condition", 0)
           \/ tok # "(" /\ FailHeader(0)
     \/ /\ InStatement("condition")
        /\ \/ ret = "node" /\ Stay(0) /\ Goto("closeParen", 1)
           \/ ret = "null" /\ FailHeader(0)
     \/ /\ InStatement("closeParen")
        /\ \/ tok = ")" /\ Advance(0) /\ Goto("openBrace", 0)
           \/ tok # ")" /\ FailHeader(-1)
     \/ /\ InStatement("openBrace")
        /\ \/ tok = "{" /\ Advance(0) /\ OpenBody(Outer + 1)
           \/ tok # "{" /\ Top.c # "elseif" /\ FailHeader(-1)
           \/ tok # "{" /\ Top.c = "elseif" /\ FailHeader(0)

\* The statements between the braces of an if, else, while or for.
ParseBody ==
  /\ InStatement("body")
  /\ \/ MoreStatements /\ Stay(Overflow) /\ Call("stmt", 0, "body", 0)
     \/ ~MoreStatements /\ Stay(0) /\ LeaveBody

ParseIfStatement ==
  /\ InStatement("close") /\ Top.c = "if"
  /\ \/ tok = "}" /\ Advance(0) /\ Goto("else", 0)
     \/ tok # "}" /\ Fail(-1)

ParseWhileStatement ==
  /\ InStatement("close") /\ Top.c = "while"
  /\ \/ tok = "}" /\ Advance(0) /\ Return("node", -1)
     \/ tok # "}" /\ Fail(-1)

ParseElseBlocks ==
  \/ /\ InStatement("else")
     /\ \/ tok = "else" /\ ~HasErrors /\ Advance(0) /\ Goto("elseKind", 0)
        \/ tok # "else" /\ Stay(0) /\ Return("node", -1)
        \/ HasErrors /\ Stay(0) /\ Return("node", -1)
  \/ /\ InStatement("elseKind")
     /\ \/ tok = "if" /\ Advance(0) /\ Begin("elseif", "open")
        \/ tok = "{" /\ Advance(0) /\ Begin("else", "elseBody")
        \/ tok \notin {"if", "{"} /\ Stay(1) /\ Return("node", -1)
  \/ InStatement("elseBody") /\ Stay(0) /\ OpenBody(3)
  \/ /\ InStatement("close") /\ Top.c = "elseif"
     /\ \/ tok = "}" /\ Advance(0) /\ Goto("else", -1)
        \/ tok # "}" /\ Stay(1) /\ Return("node", -2)
  \/ /\ InStatement("close") /\ Top.c = "else"
     /\ \/ tok = "}" /\ Advance(0) /\ Return("node", -2)
        \/ tok # "}" /\ Stay(1) /\ Return("node", -2)

-----------------------------------------------------------------------------
(* parse_for.c.  n = 1: an increment clause is owned. *)

\* A declaration keeps its child; a wrapper without a child is lost.
ParseForInit ==
  \/ /\ InStatement("forInit")
     /\ \/ tok = ";" /\ Advance(0) /\ Goto("forCondition", 0)
        \/ tok = "type" /\ Stay(Overflow) /\ Call("stmt", 0, "forDeclared", 0)
        \/ /\ tok \in Ident /\ Advance(0)
           /\ GotoWith("forIdent", IF tok = "longid" THEN 1 ELSE 0, 0)
        \/ tok \notin Ident \cup {";", "type"} /\ Stay(0) /\ Goto("forCondition", 0)
  \/ /\ InStatement("forDeclared") /\ Stay(0)
     /\ \/ ret # "empty" /\ Goto("forCondition", Acquired)
        \/ ret = "empty" /\ GotoLeaking("forCondition")
  \/ /\ InStatement("forIdent")
     /\ \/ tok = "=" /\ Advance(Overflow) /\ Call("expr", TopLevelMin, "forAssigned", 1)
        \/ tok # "=" /\ Rewind(Overflow) /\ Call("expr", TopLevelMin, "forDiscarded", 0)
  \/ /\ InStatement("forAssigned")
     /\ \/ tok = ";" /\ StayWithout("operand") /\ Goto("forInitDone", 0)
        \/ tok # ";" /\ Stay(1) /\ Goto("forCondition", -1)
  \/ /\ InStatement("forDiscarded")
     /\ \/ tok = ";" /\ Stay(0) /\ Goto("forInitDone", 0)
        \/ tok # ";" /\ Stay(1) /\ Goto("forCondition", 0)
  \/ InStatement("forInitDone") /\ Advance(0) /\ Goto("forCondition", 0)

ParseForIncrement ==
  \/ /\ InStatement("forIncrement")
     /\ \/ tok \in Ident /\ Advance(0) /\ Goto("forIncrementOp", 0)
        \/ tok \notin Ident /\ Stay(0) /\ GotoWith("forParen", 0, 0)
  \/ /\ InStatement("forIncrementOp")
     /\ \/ tok = "++" /\ Advance(0) /\ GotoWith("forParen", 1, 1)
        \/ tok = "=" /\ Advance(Overflow)
             /\ Call("expr", TopLevelMin, "forIncremented", 1)
        \/ tok \notin {"++", "="} /\ Stay(0) /\ GotoWith("forParen", 0, 0)
  \/ InStatement("forIncremented") /\ StayWithout("operand") /\ GotoWith("forParen", 1, 0)

ParseForStatement ==
  \/ /\ InStatement("open") /\ Top.c = "for"
     /\ \/ tok = "(" /\ Advance(0) /\ Goto("forInit", 0)
        \/ tok # "(" /\ Fail(0)
  \/ /\ InStatement("forCondition")
     /\ \/ tok = ";" /\ Stay(0) /\ Goto("forSemicolon", 0)
        \/ tok # ";" /\ Stay(Overflow) /\ Call("expr", TopLevelMin, "forSemicolon", 0)
  \/ /\ InStatement("forSemicolon")
     /\ \/ tok = ";" /\ Advance(0) /\ Goto("forIncrement", Acquired)
        \/ tok # ";" /\ Fail(1 - Top.own)
  \/ /\ InStatement("forParen")
     /\ \/ tok = ")" /\ Advance(0) /\ Goto("forBrace", 0)
        \/ tok # ")" /\ Fail(1 - Top.own)
  \/ /\ InStatement("forBrace")
     /\ \/ tok = "{" /\ Advance(0) /\ OpenBody(2 + Top.n)
        \/ tok # "{" /\ Fail(1 - Top.own)
  \/ /\ InStatement("close") /\ Top.c = "for"
     /\ \/ tok = "}" /\ Advance(0) /\ Return("node", -1 - Top.n)
        \/ tok # "}" /\ Fail(-1 - Top.n)

-----------------------------------------------------------------------------
(* Expressions: parse_expression.c. *)

InExpression(pc) == At("expr", pc)
InPrimary(pc)    == At("prim", pc)

Continues == tok \in BinaryOp /\ Precedence(tok) >= Top.n

\* n is min_prec.
ParseExpressionPrec ==
  \/ InExpression("entry") /\ Stay(0) /\ CallPrimary("left")
  \/ /\ InExpression("left") /\ Stay(0)
     /\ \/ ret = "node" /\ Goto("operators", 1)
        \/ ret = "null" /\ Return("null", 0)
  \/ /\ InExpression("operators")
     /\ \/ Continues /\ Advance(Overflow) /\ Call("expr", Precedence(tok) + 1, "right", 0)
        \/ ~Continues /\ Stay(0) /\ Return("node", 0)
  \/ /\ InExpression("right")
     /\ \/ ret = "node" /\ Stay(0) /\ Goto("operators", 0)
        \/ ret = "null" /\ Stay(1) /\ Return("null", -1)

\* The operand becomes a child, or is freed when -x is folded into its text.
ParseUnaryKeepingOperand == InPrimary("unary") /\ Stay(0) /\ Return(ret, 2 * Acquired)
ParseUnary               == InPrimary("unary") /\ Stay(0) /\ Return(ret, Acquired)

\* Unary operators call parse_primary again, without the depth guard.
ParsePrimary ==
  \/ /\ InPrimary("entry")
     /\ \/ tok \in {"!", "-"} /\ Advance(0) /\ CallPrimary("unary")
        \/ tok = "(" /\ Advance(Overflow) /\ Call("expr", TopLevelMin, "paren", 0)
        \/ tok = "id" /\ Advance(0) /\ Goto("identifier", 0)
        \/ tok \in Ident /\ Advance(1) /\ Return("null", 0)   \* over 127 characters
        \/ tok = "num" /\ Advance(0) /\ Return("node", 1)
        \/ /\ tok \notin Ident \cup {"!", "-", "(", "num"}
           /\ Stay(0) /\ Return("null", 0)
  \/ ParseUnary
  \/ /\ InPrimary("paren")
     /\ \/ tok = ")" /\ Advance(0) /\ Return(ret, Acquired)
        \/ tok # ")" /\ Stay(1) /\ Return("null", 0)

ParseIdentifier ==
  \/ /\ InPrimary("identifier")
     /\ \/ tok = "(" /\ Advance(0) /\ Goto("args", 1)
        \/ tok # "(" /\ Stay(0) /\ Goto("field", 0)
  \/ /\ InPrimary("field")
     /\ \/ tok = "." /\ Advance(0) /\ Goto("fieldName", 0)
        \/ tok # "." /\ HasErrors /\ Stay(0) /\ Return("null", 0)
        \/ tok = "[" /\ ~HasErrors /\ Advance(0) /\ GotoWith("index", 0, 0)
        \/ tok \notin {".", "["} /\ ~HasErrors /\ Stay(0) /\ Return("node", 1)
  \/ /\ InPrimary("fieldName")
     /\ \/ tok \in Ident /\ Advance(0) /\ Goto("field", 0)
        \/ tok \notin Ident /\ Stay(1) /\ Return("null", 0)

\* The bounds are checked when parse_array_index came back without an error.
ParseArrayAccess ==
  /\ InPrimary("indexEnd")
  /\ \/ /\ tok = "]" /\ Advance(0)
        /\ IF errors' = 0 THEN Return("node", 1) ELSE Return("null", 0)
     \/ /\ tok = "]" /\ ~HasErrors /\ Advance(1) /\ tok' # "longid"
        /\ Return("null", 0)
     \/ tok # "]" /\ Stay(1) /\ Return("null", 0)

\* The text of an index, in an expression or on a left-hand side.
ParseArrayIndex ==
  /\ InStatement("index") \/ InPrimary("index")
  /\ \/ (tok = "eof" \/ (tok = "]" /\ Top.n = 0)) /\ Stay(0) /\ Goto("indexEnd", 0)
     \/ tok = "(" /\ Advance(0) /\ GotoWith("index", Top.n + 1, 0)
     \/ /\ tok = ")" /\ Advance(0)
        /\ GotoWith("index", IF Top.n > 0 THEN Top.n - 1 ELSE 0, 0)
     \/ /\ tok \notin {"eof", "(", ")"} /\ ~(tok = "]" /\ Top.n = 0)
        /\ Advance(0) /\ Goto("index", 0)

ParseFunctionCallArgs ==
  \/ /\ InStatement("args") \/ InPrimary("args")
     /\ \/ tok \in {")", "eof"} /\ Stay(0) /\ Goto("argsEnd", 0)
        \/ /\ tok \notin {")", "eof"}
           /\ Stay(Overflow) /\ Call("expr", TopLevelMin, "argsComma", 0)
  \/ /\ InStatement("argsComma") \/ InPrimary("argsComma")
     /\ StayWithout("operand") /\ Goto("argsMore", 0)
  \/ /\ InStatement("argsMore") \/ InPrimary("argsMore")
     /\ \/ tok = "," /\ Advance(0) /\ Goto("args", 0)
        \/ tok # "," /\ Stay(0) /\ Goto("argsEnd", 0)
  \/ /\ InPrimary("argsEnd")
     /\ \/ tok = ")" /\ Advance(0) /\ Return("node", 0)
        \/ tok # ")" /\ Stay(1) /\ Return("null", -1)

-----------------------------------------------------------------------------
Init ==
  /\ tok = "eof" /\ again = "none" /\ left = InputLen
  /\ stack = <<New("program", 0)>>
  /\ ret = "none" /\ depth = 0 /\ loopDepth = 0
  /\ errors = 0 /\ lost = 0 /\ dropped = {}

ProgramStep ==
  \/ ParseProgram \/ ParseStructDeclaration \/ ParseFunctionDeclaration
  \/ SkipToSyncPoint \/ SkipToSemicolon
  \/ ParseFunctionParameters \/ ParseSingleParameter \/ ParseFunctionBody
  \/ ParseStruct \/ ParseStructField

StatementStep ==
  \/ ParseStatement \/ ParseJump \/ ParseReturn
  \/ ParseVariableDeclaration \/ ParseInitializerList
  \/ ParseAssignmentOrExpression \/ ParseLhsExpression \/ ParseStandaloneFunctionCall
  \/ ParseHeader \/ ParseBody \/ ParseIfStatement \/ ParseWhileStatement
  \/ ParseElseBlocks
  \/ ParseForInit \/ ParseForIncrement \/ ParseForStatement

ExpressionStep ==
  \/ ParseExpressionPrec \/ ParsePrimary \/ ParseIdentifier
  \/ ParseArrayAccess \/ ParseArrayIndex \/ ParseFunctionCallArgs

\* parse_program has returned.
Finished == Done /\ UNCHANGED vars

Next == ProgramStep \/ StatementStep \/ ExpressionStep \/ Finished

\* The parser is a function of its caller's thread: it runs until it returns.
Spec     == Init /\ [][Next]_vars
FairSpec == Spec /\ WF_vars(Next)

-----------------------------------------------------------------------------
(* Properties. *)

\* The variables have their types, and GATES_MAX_PARSE_DEPTH bounds ctx->depth.
TypeOK ==
  /\ tok \in Token \cup {"eof"} /\ again \in Token \cup {"eof", "none"}
  /\ left \in 0..InputLen
  /\ stack \in Seq(Frame)
  /\ ret \in Result
  /\ depth \in 0..MaxDepth /\ loopDepth \in Nat /\ lost \in Int
  /\ errors \in 0..2
  /\ dropped \subseteq Dropped

\* ctx->depth is the number of parse_statement and parse_expression_prec
\* activations on the call stack, whichever of their return paths were taken.
Activations == {i \in DOMAIN stack : stack[i].kind \in Guarded}
DepthCountsActivations == depth = Cardinality(Activations)

\* s_loop_depth, a file static nothing resets, is the number of while and for
\* bodies open on the call stack: it is 0 again after every parse, failed or not.
OpenLoop(f) == f.kind = "stmt" /\ f.c \in Loops /\ f.pc = "body"
OpenLoops   == {i \in DOMAIN stack : OpenLoop(stack[i])}
LoopDepthCountsOpenLoops == loopDepth = Cardinality(OpenLoops)

\* A break or continue that passed the loop check of parse_break_statement or
\* parse_continue_statement has an open loop around it.
JumpInsideLoop ==
  \A i \in DOMAIN stack :
    stack[i].pc = "jumpEnd" => \E j \in OpenLoops : j < i

\* The depth guard bounds the C call stack but for unary operators: above the
\* outermost statement every guarded activation has at most one operand parser
\* that is not waiting for the operand of a unary operator.
Waiting == {i \in DOMAIN stack : stack[i].kind = "prim" /\ stack[i].pc = "unary"}
StackBoundedButForUnary == Cardinality(DOMAIN stack \ Waiting) <= 2 * MaxDepth

\* On every path of every parser a node is freed or attached at most once, and
\* until the first diagnostic none is lost: a parser's local variable owns it
\* or it hangs below a node that is owned.
NodeOwnership ==
  /\ lost >= 0 /\ \A i \in DOMAIN stack : stack[i].own >= 0
  /\ ~HasErrors => lost = 0

\* After the first diagnostic no further statement is parsed: the has_errors()
\* guards of the block loops hold at every nesting level.
Statements == {i \in DOMAIN stack : stack[i].kind = "stmt"}
NoStatementAfterError == [][HasErrors => Statements' \subseteq Statements]_vars

\* parse_program keeps its promise to main: it returns, keeps its diagnostics,
\* and returns without one only at the end of the file.
Contract == INSTANCE ParseContract WITH
              running <- ~Done, diagnosed <- HasErrors, atEnd <- tok = "eof"
ImplementsContract == Contract!FairSpec

-----------------------------------------------------------------------------
(* What the documentation says of the parser and the code does not do. *)

\* Every token of an accepted input belongs to a construct of the grammar
\* (parser.rst, grammar overview): statements, parameters and fields of another
\* form, other tokens in a brace initializer and missing operands are errors.
AcceptedInputParsed == Done /\ ~HasErrors => dropped = {}

=============================================================================
