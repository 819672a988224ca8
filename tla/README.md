# gates in TLA+

gates translates a subset of C into VHDL. It is one sequential C11 process: `main` reads a file through a
recursive descent parser that builds an AST and fills two symbol tables, then walks the AST and writes VHDL.
Nothing runs concurrently. What is hard in it is everything that depends on *which* of very many paths was
taken: errors are only counted, so every loop and every caller has to notice them; recursion is bounded by
hand; nodes are freed by hand on some fifty early returns; state lives in file statics; and input and output
can fail at any call. The models are about those paths.

## Inventory

| Component | Source (`src/src/...`) | State | Operations | Interacts with | Hard behaviour | Correct when |
|---|---|---|---|---|---|---|
| driver | `app/gates.c` | two streams, AST, exit status | `main` | parser, code generation, error counter, stdio | partial failure of input, parse, output, generation, close | status tells diagnostics; success means complete output; a failed parse keeps the old output; everything is released |
| parser | `parser/parse*.c` | `ParserContext` (token, depth), `s_loop_depth`, the C stack, nodes owned by locals | one function per construct | lexer, AST, tables, error counter | recursion limit, error exits, backtracking, skip loops | counters exact, nodes freed once, terminates, an error stops it |
| lexer | `parser/token.c` | file position, line, current token | `advance`, `match`, `consume`, `get_next_token` | stdio, parser (which also seeks back) | overlong tokens, pushback, rewinding | tokens as in C |
| error counters | `error_handler.c` | `error_count`, `warning_count`, colour flag | `log_error`, `has_errors`, ... | everyone | a global that decides control flow | never withdrawn |
| AST | `core/astnode.c` | nodes, child arrays | `create_node`, `add_child`, `free_node` | parser, code generation | growth, allocation failure | each node has one owner |
| array table | `symbols/symbol_arrays.c` | `g_arrays`, `g_array_count` | register, find, reset | parser | truncated names, capacity, reset per function | bounds checked against the last declaration |
| struct table | `symbols/symbol_structs.c` | `g_structs`, `g_struct_count` | register struct and field, find | parser, code generation | capacity, redefinition | one record per struct |
| utilities | `core/utils.c` | none | bounded strings, conversions, precedence | all | widths | - |
| emitter | `codegen/codegen_vhdl_emit.c` | stream, indentation | `emit_*` | code generation, stdio | failed writes | text in order |
| code generation | `codegen/codegen_vhdl_*.c` | a few statics for the current function | one function per node type | AST, struct table, emitter, error counter | naming, reset and declaration of the same signals, loops in a clocked process | the VHDL means what the C means |

Not modelled at all: AST printing (`DEBUG` only), message layout, the test suites, examples, build, CI and
documentation tools. `PROJECT.json` lists the components with their status, and the hazards at their lines.

## Modules

| Module | Models | Written as |
|---|---|---|
| `Parser` | all of `src/src/parser/parse*.c` | a call stack of frames |
| `ParseContract` | what `parse_program` promises `main` | abstract specification, implemented by `Parser`, used by `Driver` |
| `ParserProofs` | - | theorems about `Parser`: its counters, who owns its nodes, what it promises `main`, its stack |
| `Lexer`, `MCLexer` | `token.c`, and the parser's `fseek` | one step per `fgetc` |
| `LexerProofs` | - | theorems about `Lexer` |
| `AstNode` | `astnode.c` on a heap that reuses addresses | one action per call, `free_node` as a traversal |
| `AstNodeProofs` | - | theorems about `AstNode` |
| `ArrayTable`, `MCArrayTable` | `symbol_arrays.c` and its callers | one action per call |
| `ArrayScope` | what the array table promises inside a function | abstract specification, implemented by `ArrayTable` |
| `ArrayTableProofs` | - | the refinement, proved |
| `StructTable` | `symbol_structs.c` and `parse_struct.c` | operators on the table and one action |
| `Signals`, `MCSignals` | declarations, resets and references of names in `codegen_vhdl_*.c`; extends `StructTable` | one action per phase of code generation |
| `SignalsProofs` | - | theorems about `StructTable` and `Signals` |
| `ProcessText` | the sequential statements of VHDL, as a text written line by line | abstract specification, implemented by `Emission` |
| `Emission` | `codegen_vhdl_statements.c`, `generate_node`, the emitter's indentation | a call stack of activations; a step per child |
| `Process` | the clocked process that has been written | one activation, line by line |
| `EmissionProofs` | - | theorems about `Emission` and `Process` |
| `CFunction`, `CStatements` | the order in which a C function assigns, tests and returns; statements as they are written | abstract specification, implemented by `Statements` |
| `StatementTrees` | the trees the parser builds of statements | pure operators |
| `Statements`, `MCStatements`, `MCFunctions` | a function through the parser, code generation and the process | composition of the modules above |
| `NumericStd` | the VHDL types and operators of generated expressions | pure operators |
| `ExpressionText` | `codegen_vhdl_expressions.c` and the emitters in `codegen_vhdl_helpers.c` | a call stack of nodes; a step per node |
| `ExpressionProofs` | - | the types of what `ExpressionText` makes |
| `ExpressionTrees` | precedence climbing in `parse_expression.c` | pure operators |
| `CExpression` | the grammar and the values of C expressions | reference definition for `Expressions` |
| `Expressions`, `MCExpressions` | an expression through the parser and code generation, next to C | composition of the modules above |
| `Driver` | `main`, with the parse as a `ParseContract` step | one action per phase |
| `DriverProofs` | - | theorems about `Driver` |

### Parser

`stack` is the C call stack. A frame is one activation of a function recursion can reach (`parse_program`,
`parse_statement`, `parse_expression_prec`, `parse_primary`), with the helpers it calls inlined; its fields are
the construct, the place in the code (`pc`), a local counter (`n`) and the number of subtrees its locals own
(`own`). `ret` is the value of the last call (`"null"`, a node, or `"empty"`, a statement wrapper without a
child). `depth` and `loopDepth` are `ctx->depth` and `s_loop_depth`; `errors` is `error_count` up to "two or
more". One action stands for the code between two token tests, calls or returns of one C function, and is named
after it. The lexer is the choice of the next token: tokens are the classes the parser compares (`type` for the
type keywords, `!` for `!` and `~`, three operators for the ten precedence levels, `longid` for an identifier the
lexer truncates with an error). `again` is the token read twice after the `fseek` of a for init.

Two history variables observe it. `lost` counts nodes no local owns and no node holds, less nodes freed twice.
`dropped` collects the kinds of input that were passed over without a diagnostic.

Left out: texts and values, so the outcome of a bounds check, of a table that may be full and of an identifier of
128 to 255 characters is nondeterministic; failure of `malloc` (`create_node` exits; `add_child` logs, which is
the module `AstNode`); failure of `ftell` on a regular file.

### Driver

The variables are the streams, the AST, `diagnosed` (`has_errors()`), the text in the stream buffer and in the
output file, and the place in `main`. The parse is a step of `ParseContract`. Input and output are stdio, which is
external: a read may fail (the lexer sees the end of the file); a write of a full buffer fails while the disk is
full, the text in the buffer is then discarded and `fprintf`'s result is ignored, as in glibc and musl; `fclose`
reports its own flush only. Text is counted in pieces, one for the header and one per function, because no
property tells two texts of a function apart. `functions` is chosen at the start, being a fact of the input.

### Lexer

`text` is the part of the file that `fgetc` has reached; the next character is chosen when it is first asked for,
from one representative of each class of characters the lexer treats alike. A step is one `fgetc` with the code
behind it, an `ungetc` included. `out` holds the tokens with the place of their first and last character, which
the code does not keep and the properties need: `IsLexeme` and `IsGap` define the one right way to cut the file
without reference to the lexer's steps. `Rewind` is the parser's seek in `parse_for_init`.

### AstNode

The heap has a fixed set of addresses that `create_node` and `free_node` take and give back. `children`, `parent`
and `capacity` are the node's fields, `slots` the size of the array it really owns, `held` what a variable of the
parser points to, `lost` (a history variable) what `add_child` could not attach. `AddChild` and `AddChildFails`
are the two outcomes of `malloc` and `realloc`; `TakeOut` is `parse_for_init` taking the child out of a wrapper.
`free_node` recurses over the children: its activations are a stack, one step per child.

### StructTable and Signals

Names are sequences of words, digits and underscores, since what can go wrong is about underscores, reserved words
and the port `result`. A program is chosen step by step (`DefineStruct`, `ParseSingleParameter`,
`ParseVariableDeclaration`), a struct being registered as `parse_struct` does, then generated phase by phase:
records, ports, signals, resets, and one use of one variable in one position of the body. `Emitted` says what the
code prints in each position, which is not the same for a value, an operand, a target, an initializer, an element,
a field or a struct that is returned. `records` are the declared record types, `defined` the history of what the C
program declared.

### Statements: from the C function to the process

A function passes through five modules. `CStatements` is the C as it is written, `StatementTrees` the tree the
parser builds of it, `Emission` the walk that writes the lines, `Process` the execution of the lines, and `Statements`
puts them together and runs `CFunction` beside them.

In `Emission` `stack` is the C call stack of code generation. A frame is an activation of
`generate_statement_block`, `generate_if_statement`, `generate_while_loop` or `generate_for_loop`, or the loop over
a branch's children inside one, with the number of its next child; a step handles that child: it writes a line,
calls, or passes over it. `indent` is `g_indent`. It is the exact depth, which is clamped only when spaces are
printed. `text` is the lines, an operation, a name and the indentation each. An assignment to an
array element is one assignment, as is that of a struct field by field.

`ProcessText` is the part of VHDL's grammar that matters here, and knows nothing of trees: `open` is the blocks that
are open behind the lines, and `MayFollow` and `IndentOf` say which line may come next and how deep. `WritesProcess`
says `Emission` implements it. `WellNested`, `Closed` and `LinesNest` say the same of the finished lines without
`open`.

`CFunction` runs the C function one visible event at a time, an event being an assignment or a test of a condition,
and each test may have either outcome. `Statements!todo` is the rest of the C run that made the same steps, so that
`ImplementsFunction == Function!Spec` is a refinement with a fair C function: the process must also reach its end.
When a signal's new value becomes visible is left out (`known_issues.rst:57-64` says it differs from C); what is
compared is the order and the targets. One clock edge is run. `ImplementsFunction` is claimed, and checked by the run
`statements`, for functions whose returns are the last thing they execute and whose for loops with an increment have
no `continue`. Of the others it is false: the run `statements_continue` shows it for `continue`, and with
`Functions <- EarlyReturns` in its cfg TLC shows it for an early return. In `a = ..; if (p) return r; b = ..; return r;`
the process assigns `b` behind the return, and then `result` once more, which is the assignment that counts.

`Emission` is about any set of trees with the parser's properties (`TreeAssumption`: `break` and `continue` in loops
only, `else` last). `Statements` assumes that the trees of its functions are among them (`FunctionsAreTrees`, which
TLC evaluates), so each of its runs is, up to the process, one of `Emission`, and with it one of `ProcessSpec`.

### Expressions: from C to typed text

An expression as written (`CExpression`) is a first primary and a list of operators with their operands.
`ExpressionTrees!Parsed` climbs precedences as `parse_expression_prec_inner` does. `ExpressionText` walks over the
tree: `calls` is the nodes whose `generate_node` has begun, `texts` what has been made of the nodes so far; when the
root has returned, one of three steps puts it in its place, an assignment, a condition or a `return`. A text is
represented by its meaning (`NumericStd`): each emitter returns the type, width and bits VHDL gives to its text, or
`Bad` if it has none. `CExpression!ValueOf` is C: it splits at the last operator of the lowest level of the grammar,
which is a different definition from climbing.

`Supported` names the expressions the translation is for; `WellTyped` and `SameMeaning` are about those, and what
falls outside is listed below. As with statements, `ExpressionText` is about any set of trees with the parser's
properties (`TreesAssumption`), and `Expressions` assumes that its own are among them (`SourcesAreTrees`).

## Runs

| Run | Question | Bounds, and why they are enough |
|---|---|---|
| `parser_statements` | counters, ownership, error stop and termination of all statements | `MaxDepth` 3 and 17 tokens: a body inside a body, a refused third, a whole for header, every header and closing token missing |
| `parser_declarations` | termination of declarations and expressions, recovery loops, C stack | `MaxDepth` 3 and 13 tokens, with every class of token of a declaration or an expression: a brace initializer, a call or an array index inside a function, two top-level declarations |
| `lexer` | the cut of the file, lines, rewinding, truncation, termination | files of 5 characters of 8 classes, `MaxValue` 3, one seek: a token at its limit and beyond it, with a comment before or in it |
| `ast_node` | child arrays, links, frees and leaks under allocation failure | 4 nodes, initial capacity 1, growth 2: two growths, a tree of depth 4, addresses used again |
| `array_table` | refinement of `ArrayScope` | 3 entries, two short names, a long name truncated to one of them, sizes and indices over the whole of a 2-bit int and one beyond it |
| `signals` | table limits, records, legal names, resets, references | 2 structs with 2 fields, three definitions, two variables, one parameter; nine names, plain ones and those that fail to be VHDL in each of the ways C allows; array names and fields below and at their buffer |
| `statements` | legal nesting, indentation, refinement of `ProcessText` and of `CFunction`, every jump has its target | every construct, with two levels of statements in it, between two assignments; for headers with each subset of the clauses; returns of a value and of a boolean, at the end and in the last branches. Without early returns, and without `continue` where there is an increment |
| `expressions` | type and value of what is generated | a 3-bit int; all pairs of operators and all triples of levels; every pair of prefixed operands of one operator; three environments, with a negative value and zero; each in all three places |
| `driver` | status, completeness, release, old output, termination | 3 functions and a buffer of 2 pieces: two flushes before the close, on a disk that fills and empties at any time |

Every property has a mutant: a plausible fault, defined next to the operator it replaces (comments "Fault:"), that
makes the run fail.

The parser's bounds are on the length of the input (`InputLen`) and on the alphabet of a run; errors are counted
to two. `Done` states stutter (`Finished`), as do `Exited` states, so deadlock is checked in the parser, driver and
array table runs. The other systems really stop: the file is read, the program is generated, the process has run,
every node is freed.

Expected violations, each a difference between the code and a sentence of its documentation (`findings`):

| Run | The code |
|---|---|
| `parser_accepted` | tokens outside the grammar are skipped silently and the input is accepted |
| `statements_continue` | `continue` in a for loop skips the increment |
| `signals_operands` | `-x` or `a[1]` as an operand of arithmetic or a comparison is emitted as a name nothing declares |

### Seen while reading

Differences and limits without a run of their own. Those marked (b) were seen in the text that a build of this
commit generates.

- Parser: unary operators recurse without the depth guard, so `config.h:66-69` and `parser.rst:1124` hold for the
  other recursions only (`StackBoundedButForUnary`). Error paths of `else if` and of a for init lose nodes
  (`ROADMAP.md:55`). A second diagnostic can follow the first (`known_issues.rst:83` says one per run); the argument
  loop does not test `has_errors()` (`parser.rst:1085`); a for init that starts with a number leaves its semicolon to
  the condition (comment at `parse_for.c:23-24`). A minus sign in a brace initializer is dropped (b).
  `parser.rst:1134` says `s_loop_depth` would need a reset between two parses; theorem `CountersAreRestored` shows
  it is 0 after every parse.
- Lexer: the seek of a for init does not set the line back, so later lines are too large when a line end is lexed
  twice (`lexer.rst:305`); `LinesAreExactUntilRewound` is the part that holds.
- Array table: an index beyond `INT_MAX` is never checked (`parser.rst:759`); a name of more than 63 characters makes
  duplicate entries (`symbols.rst:53`). Struct table: a name of 64 characters or more is truncated and never found
  (`symbols.rst:30`); a redefinition appends its fields (b).
- Driver: the old output is truncated before code generation can fail (`ROADMAP.md:45`); a write that failed before
  the close is not reported (comment at `gates.c:91-92`); a read error is the end of the file.
- Names: struct, array, field and function call names are emitted as they are (comment at `helpers.c:28-29`); two C
  names may have one VHDL name (`_a` and `c_a`; names that differ in case); the ports `clk` and `reset` are not
  reserved (`codegen.rst:402`); two loops with `for (int i ...)` declare `i` twice (b) (comment at `types.c:288`); a
  local variable `a__b` is declared `a_b` and referenced as `a.b`.
- Statements: `return` only assigns `result` (`statements.c:424-482`), so the process goes on behind an early return
  (`examples/example.c:21`) and a later one replaces its value; `codegen.rst:135` has the port as the equivalent of the
  return value. A call as a statement assigns `result` (b).
- Expressions: a product is twice as wide as the signal it is assigned to (b); a truth value assigned to a variable
  (b), a `~` condition (b), and a negative literal as an operand of arithmetic or a comparison (b) have the wrong
  type, as has `return -5` (b); comparisons of negative values are unsigned; `-(-a)` is emitted as the name `c_a` (b).

## Fairness

The parser is a function of a sequential program: it keeps running until it returns, so `FairSpec` of `Parser` is
weak fairness of `Next`. `Driver` assumes weak fairness of `main` and that `parse_program` returns, which is the
property `ImplementsContract` of the parser runs. The disk and the reads are not fair: `Termination` holds
whatever they do. `ParseContract!FairSpec` states the return itself as an eventuality, because an abstract
parser may read for any finite time.

The lexer's calls end if `fgetc` returns (`FairSpec` of `Lexer`, weak fairness of the lexer's steps, not of the
parser's calls), and `free_node` ends if it runs (`FairSpec` of `AstNode`). `Statements` has weak fairness of its
next step: code generation returns, and a simulator executes the process once it is activated. `CFunction` has that
of the C function; the refinement shows that a process which never stops belongs to a C function that does not
either. `StructTable`, `Signals`, `Emission`, `Process` and `Expressions` have safety properties only.

## Proofs

`ParserProofs` proves, for every nesting limit, input length and alphabet (assumption `ParserAssumption`):

- `TypeCorrect`: `TypeOK`, hence `depth <= MaxDepth`.
- `DepthIsExact`, `LoopDepthIsExact`: the counters equal the guarded activations and the open loop bodies on the
  stack.
- `JumpsAreInLoops`: an accepted `break` or `continue` has an open loop around it.
- `CountersAreRestored`: both counters are 0 when `parse_program` has returned, with or without errors.

None of these is inductive alone. The invariant `IInv == ControlInv /\ TokenInv` gives every frame the places of
its kind, and makes the depth and loop counters cardinalities of subsets of the stack's domain. The lemmas on the
control operators (`Goto`, `Call`, `Return`, `OpenBody`, ...) show what each does to those cardinalities; the step
theorem then has one case per action.

The second part of `ParserProofs` proves, from the same assumption, `NodesAreOwned`: on no path of any parser is a
node freed twice, and none is lost before the first diagnostic (`NodeOwnership`). `NodeOwnership` counts what all
activations own together and says nothing of one of them, so no step could be proved from it. `NodeInv` says it of
each:

- how many subtrees an activation owns is a function of its place, its construct and, in the body of a `for`, the
  number of header clauses attached (`FramesFit`);
- an activation that is not the innermost stands at a call, and the one above it is of the kind called there
  (`CallsMatch`): a node returned is returned to code that takes it over;
- what the innermost may know of diagnostics and of the value just returned (`TopSettled`): an operand parser never
  returns an empty wrapper, a statement is never entered with a diagnostic, and inside a `for` header the only
  diagnostic can be the lexer's, for the identifier the header then stops at;
- the statement parsed as the first clause of a `for` is a declaration (`ForDeclares`), hence never one that
  returns an empty wrapper without a diagnostic, which `parse_for_init` would take a missing child from.

The last two were found by steps that failed without them. They rest on error exits that are far from the `free_node`
they protect.

From `NodeInv` follow three more results:

- `NoStatementIsBegunAfterAnError` (`NoStatementAfterError`, an action property): once there is a diagnostic the set
  of statements being parsed only shrinks. Every entry to `parse_statement` is behind a test of `has_errors()`
  or behind a token that cannot be the one a diagnostic stopped at.
- `ContractIsSafe`: `Spec => Contract!Spec`, the refinement of `ParseContract` but for its eventuality. Diagnostics
  are never withdrawn, and a return without one is at the end of the file.
- `StackIsBounded` (`StackBoundedButForUnary`). The activations that are neither guarded nor waiting for the operand
  of a unary operator are mapped, one to one, to the guarded activation each has called; the innermost, which has
  called none, to the third of the stack. So there are no more of them than guarded activations, and of those there
  are at most `MaxDepth`.

`ArrayTableProofs` proves `TypeCorrect` and `Implements` (`Spec => ImplementsArrayScope`) for every set of names,
table size and width of int, and every truncation (assumption `ArrayAssumption`: truncating twice is truncating
once). `TypeOK` is not enough: that a long name never has an entry, so that declaring it updates none, needs
`Truncated` (`IInv == TypeOK /\ Truncated`). The argument is about the first entry of a name, which exists because
the order of the indices is well-founded (`FirstExists`): updating it is declaring the name again (`UpdateKnown`),
and a new last entry declares its name or is hidden by an earlier one (`InsertKnown`). The initial states then map
to initial states and every step of the table to a step of `ArrayScope`, one lemma per call.

`AstNodeProofs` proves `TypeCorrect`, `NoOverrun`, `TreeIsConsistent`, `NoDoubleFree` and `LeaksAreReported` for
every set of addresses, initial capacity and growth factor of at least 2 (assumptions of `AstNode`). The inductive
invariant `IInv` adds to the checked ones that an entry is in one array only and linked back (`OneEntry`,
`EntryLinked`), that what the parser holds is a root (`Roots`), that the activations of `free_node` descend from
entry to entry (`StackDescends`), and that every live node is reachable, held, being freed, or lost with an error
logged (`Accounted`), where the entries of a node being freed are those its loop has not reached. The properties
need each other: that a node is not freed twice rests on the entries forming a tree, and the tree on nothing freed
being held.

`LexerProofs` proves all safety properties of `Lexer` (`TypeCorrect`, `TokensAreTheCut`, `LinesAreExact`,
`RewoundTokenRepeats`, `TruncationIsReported`) for every alphabet of the classes, keyword list, buffer size, file
and number of seeks (`LexerAssumption`). The proof needed the assumption `MaxValue >= 2`, which the code's 255
satisfies: with a buffer of one character `build_operator_token` would store a second one, and `TypeOK` would be
false. The properties speak of the text as far as it has been read, and
`IInv` has to be true while it grows, so it is about texts `s` with a flag `e` that says whether `s` is all of the
file: a comment without its terminator, or a word without the character behind it, counts only if `e`
(`Piece`, `LexemeIn`). What has been cut then stays cut (`GapStays`, `LexemeStays`).

- `TokensFollow`: each token returned follows the one before it, over a gap, and stores the beginning of its lexeme.
- `Stands`: the same of what is being read, at each place of `get_next_token`. Inside a comment there is a
  place where it began, and `prev` is the character before the stream unless that is the comment's own mark.
- `ExpectedFollows`: the token a seek made unread still follows the one the parser went back to.
- `LinesCount`: the lexer's line is one more than the number of line ends passed, until a seek.

Why a token comes again after a seek is then no matter of steps: `FollowerIsUnique` shows that there is one way only
to cut a text (two gaps, or two lexemes, that begin at the same place end at the same place; no lexeme begins
like a comment), and both the token made unread and the one read again follow the same place.

`SignalsProofs` proves all properties of `Signals` and of the `StructTable` under it (`TypeCorrect`, `NamesLegal`,
`RecordsHoldTheDefinitions`, `ResetMirrors`, `UsesResolve`) for every size of the tables and buffers, every set of
names and reserved words, and programs of every length (`SignalsAssumption`: names are identifiers of C, and
reserved words are single words of letters). The operators on names and fields are folds, and the library's
induction theorem cannot be instantiated. `Induction` is therefore a fact about *sets* of numbers, from the
well-foundedness of their order, and `FoldExists` and `FoldAlong` turn a fold into a function from the number of
elements folded; the rest is stated of those functions.

- `MappedIsBasic`: whatever identifier of C goes into `emit_mapped_signal_name`, a basic identifier that is neither
  reserved nor `result` comes out. The induction keeps that what is copied begins with a letter, and that no two
  underscores meet (`Begun`, `CopiedKeeps`).
- `DecodedIsField`: the name `a__b` the parser made of `a.b` is printed as `a.b` again, if neither part has a double
  underscore and the first does not end in one.
- `RegisterFieldsProperties`, `HoldsAfter`: registering a definition's fields appends all of them to the one entry
  of the struct, within the bounds, or is an error. The invariant from this is that the table holds the definitions
  so far (`Holding`): one entry per name, with the fields of all definitions of it in their order.
- `NamesOfAll`: the declarations and the resets are, as sets, what they are for each variable; a variable is a
  record in the table exactly if its type is a struct (`FieldsOfVariables`), which is what makes the two walks
  agree.

`IInv == Parsed /\ Holding /\ Generated` joins the last two: `Generated` says what every phase has made of the
program, which does not change any more. Stating the properties for every name showed what they need: `NamesFit`
(`RecordsMatchDefinitions`, `ResetMirrorsSignals`, `ReferencesResolve`: a struct or field name of 64 characters or
more is cut in the table, and there is no struct, or field, of the whole name), arrays whose name fits, and fields
without a double underscore of their own (`ReferencesResolve`: `p.a__b` is printed as `p.a.b`). These are limits of
the code; the run has a field beyond them.

`DriverProofs` proves every safety property of `Driver` (`TypeCorrect`, `StatusIsHonest`, `SuccessMeansComplete`,
`NothingKept`, `OldOutputSurvivesParse`) for every number of functions and every size of the stream buffer
(`DriverAssumption`). What `main` promises at its exit follows from what holds at each place before it, and `IInv`
says that: what is known of the input (`InputKnown`), which streams are open and whether the AST lives
(`Resources`), that beyond the parse a run without a diagnostic has read to the end (`Diagnostics`), and that the
pieces written and buffered are the header and the functions generated so far, unless a flush has lost some
(`Pieces`).

`EmissionProofs` is about code generation for statements, for every set of trees with the properties the parser
promises (`TreeAssumption`), of any depth:

- `WritesTheProcess` (`Spec => WritesProcess`): `Emission` implements `ProcessText`. Each line may follow the lines
  before it, at the depth of the blocks that are open, and nothing written is changed.
- `TypeCorrect`, `NestsWell`, `EndsAreBalanced`, and `LinesNestWell` of both: every end and branch belongs to a
  block of its kind, no branch follows an `else`, `exit` and `next` are in a loop, and when a function has been
  generated every block is closed and the indentation is what it was.
- `RunStaysInProcess` (`ProcessSpec => []PcOK`): whichever way the conditions go, execution always has a line to
  go on with, and leaves the process only at its end.

The invariant has two halves. `TextInv` is about the lines alone and follows from `ProcessText`
(`TextIsWellNested`): `BlocksOpen` finds the open blocks among the lines, and `Accounted` says that the others are
closed. Nothing in it mentions the walk. The other half of `EmissionInv` ties the call stack to the open blocks:
`Opened(at, stack, open)` says that the open blocks are those the activations on the stack have opened, in their
order, `at` giving for every activation how many are open below it. From this an activation that ends its block
finds it innermost, whatever was generated inside. `LoopsOpen` says that a node from the body of a loop is only ever
reached with a `while` open, which is where the parser's promise about `break` and `continue` is used. For `PcOK`
the lines are complete: every opener has its end, the branches of a block are between the two, and `NearestAfter`
therefore finds what the nesting says it should.

`ExpressionProofs` proves `ExpressionsAreTyped` (`Spec => []WellTyped` of `ExpressionText`), for every set of trees,
every width of int of at least 2 and all values. `HasType` is what C's one type becomes in VHDL: a truth value for
comparisons and gates, a vector twice as wide for a product, a vector of int's width for everything else. `NodeFits`
shows that an operator gives its node that type if its operands have theirs, one lemma per kind of operator; this is
where an emitter has to agree with the emitters inside it. `ExpressionInv` then says that every text made so far has
the type of its node (`TextsTyped`), and that the root is among them when the calls have returned
(`RootIsGenerated`). The walk takes the place of an induction over trees: a node is generated after its operands, so
that the step only speaks of one node.

The invariants `NodeInv`, `EmissionInv`, the lexer's and `Signals`' `IInv` were checked with TLC on the instances of
the runs before they were proved; the lexer's with two seeks as well.

Only model-checked:

- `ImplementsFunction` and `SameMeaning`. Both compare with a recursive definition (`CFunction` unfolds statements,
  `CExpression` evaluates trees), and both go through the parser's recursive building of trees; `CExpression` uses
  bit operators, too. `tlapm` has no SMT backend in a module that reaches a `RECURSIVE` operator, and an induction
  over data cannot be instantiated.
- The step from the composed systems to the modules the theorems are about (that a run of `StatementsSpec` is one of
  `ProcessSpec`, and one of `ExpressionsSpec` one of `ExpressionText!Spec`), for the same reason. It is by
  construction: the compositions conjoin the actions of those modules with their own, and TLC evaluates the two
  assumptions about the trees.
- All liveness, which includes the return of `parse_program` in `ImplementsContract`, the return of the lexer's calls
  and of `free_node`, the end of the process in `ImplementsFunction`, and the termination of `main`.
- `AcceptedInputParsed`, `OperandsResolve`, and `ImplementsFunction` with `continue` or an early `return`, are false, as
  the runs that expect a violation and the one with `EarlyReturns` show.

## Not modelled

- Function calls between entities: the documentation says they are not wired, so there is no meaning to compare.
- The bit strings of array initializers, and the types `float`, `double` and `char`: formatting of constants.
- When an assigned signal is seen with its new value. `known_issues.rst` says it is not when C says.
- Message layout, colours, hints, warnings; AST printing under `DEBUG`.
- Failure of `malloc` outside of `AstNode` (`create_node` exits the process), and of `ftell` on a regular file.
- Tests, examples, build and documentation.
