-------------------------------- MODULE Signals --------------------------------
(***************************************************************************)
(* The names of the generated VHDL: the records, ports and signals made of *)
(* the structs, parameters and local variables of a C function, and the    *)
(* names its statements refer to them by (src/codegen/                     *)
(* codegen_vhdl_types.c, _main.c, _statements.c, _expressions.c and        *)
(* _helpers.c).                                                            *)
(*                                                                         *)
(* A name is a sequence of underscores, digits, words of letters (one      *)
(* element each) and, in a reference, the minus sign and the dot.          *)
(* Identifiers are short of the buffers of 256 characters, and are told    *)
(* apart by more than the case of their letters.                           *)
(***************************************************************************)
EXTENDS StructTable

CONSTANTS
  Names,        \* names of variables, identifiers of C
  StructNames,
  FieldLists,   \* the fields of a struct definition
  Words,        \* the letters among the elements of names
  Reserved,     \* vhdl_reserved_words: names of one word
  Positions,    \* where a function may use a variable
  MaxVariables, \* bound: parameters and local variables
  MaxParameters, \* MAX_PARAMETERS
  ArrayNameSize \* ARRAY_NAME_BUFFER_SIZE

\* What the names of a C program are made of.
U         == "_"
Digits    == {"0", "1"}
Character == Words \cup Digits \cup {U}
IsIdentifier(name) ==
  name \in Seq(Character) /\ name # <<>> /\ name[1] \notin Digits

Position ==
  {"value", "operand", "target", "initialized", "negated value",
   "negated operand", "element operand", "element", "element assigned",
   "field", "field assigned", "fields initialized", "fields returned",
   "array index", "list element"}

ASSUME SignalsAssumption ==
  /\ ArrayNameSize \in Nat \ {0} /\ MaxVariables \in Nat
  /\ \A name \in Names \cup StructNames : IsIdentifier(name)
  /\ \A fields \in FieldLists :
       fields \in Seq(Seq(Character)) /\ \A k \in DOMAIN fields : IsIdentifier(fields[k])
  /\ {"c", "v", "result", "local"} \subseteq Words /\ U \notin Words
  /\ Reserved \subseteq {<<word>> : word \in Words}
  /\ Positions \subseteq Position

VARIABLES
  defined,    \* history: the struct definitions of the program
  parameters, \* the parameters of the function
  locals,     \* its NODE_VAR_DECLs, in the order of the tree
  phase,      \* "parse", then what code generation emits next
  records,    \* the record types emitted
  ports,      \* the input ports of the parameters
  signals,    \* the names declared in the architecture
  resets,     \* the names assigned while reset is on
  reference   \* one use of a variable: the names emitted for it

vars == <<tableVars, defined, parameters, locals, phase, records, ports,
          signals, resets, reference>>
program == <<tableVars, defined, parameters, locals>>

-----------------------------------------------------------------------------
(* Identifiers. *)

IsAlpha(c) == c \in Words
IsDigit(c) == c \in Digits
IsAlnum(c) == IsAlpha(c) \/ IsDigit(c)
IsReservedWord(name) == name \in Reserved

HasDouble(name) == \E i \in 1..(Len(name) - 1) : name[i] = U /\ name[i + 1] = U

IsValidVhdlIdentifier(name) ==
  /\ name # <<>> /\ IsAlpha(name[1])
  /\ Last(name) # U /\ ~HasDouble(name)
  /\ \A i \in DOMAIN name : name[i] = U \/ IsAlnum(name[i])
  /\ ~IsReservedWord(name)

\* sanitize_vhdl_identifier: letters, digits and single underscores are kept.
Copied(out, c) ==
  IF IsAlnum(c) \/ (c = U /\ (out = <<>> \/ Last(out) # U))
  THEN Append(out, c) ELSE out
SanitizeVhdlIdentifier(name) ==
  LET whole == FoldLeft(Copied, IF IsAlpha(name[1]) THEN <<>> ELSE <<"c", U>>, name)
      trimmed == IF Last(whole) = U THEN Front(whole) ELSE whole
  IN  IF IsReservedWord(trimmed) THEN <<"v", U>> \o trimmed ELSE trimmed

\* emit_safe_identifier; and what emit_mapped_signal_name makes of it.
SafeIdentifier(name) ==
  IF IsValidVhdlIdentifier(name) THEN name ELSE SanitizeVhdlIdentifier(name)

Result == <<"result">>
IsSignalNameReserved(name) == name = Result
\* Fault: the port's name is looked for before the name is sanitised.
MappedBeforeSanitizing(name) ==
  IF IsSignalNameReserved(name) THEN name \o <<U, "local">>
  ELSE SafeIdentifier(name)
MappedSignalName(name) ==
  LET safe == SafeIdentifier(name)
  IN  IF IsSignalNameReserved(safe) THEN safe \o <<U, "local">> ELSE safe

\* emit_variable_reference: a double underscore is the parser's a.b.
Decode(out, c) ==
  IF c = U /\ out # <<>> /\ Last(out) = U THEN Append(Front(out), ".")
  ELSE Append(out, c)
Decoded(name) == FoldLeft(Decode, <<>>, name)
\* Fault: a reference is mapped like a declaration.
MappedReference(name) == MappedSignalName(name)
VariableReference(name) ==
  IF HasDouble(name) THEN Decoded(name) ELSE MappedSignalName(name)

Field(name, field)    == name \o <<".">> \o field      \* in VHDL
Encoded(name, field)  == name \o <<U, U>> \o field     \* in the tree

-----------------------------------------------------------------------------
(* The program.  A variable has a name, a struct's name or <<>> for its     *)
(* type, and may be an array.                                               *)

NoStruct == <<>>
Variables == parameters \o locals
Variable(name, type, array) == [name |-> name, type |-> type, array |-> array]

\* C's rule: two parameters differ in name; a local variable may hide another.
Declarable(v) ==
  /\ phase = "parse" /\ ~errors /\ Len(Variables) < MaxVariables
  /\ \A i \in DOMAIN parameters : parameters[i].name # v.name
  /\ v.type # NoStruct => \E i \in DOMAIN defined : defined[i].name = v.type

Types == {NoStruct} \cup StructNames

\* parse_struct, before the function.
DefineStruct ==
  /\ phase = "parse" /\ Variables = <<>>
  /\ \E name \in StructNames, fields \in FieldLists :
       /\ Len(defined) < MaxStructs + 1
       /\ ParseStruct(name, fields)
       /\ defined' = Append(defined, [name |-> name, fields |-> fields])
  /\ UNCHANGED <<parameters, locals, phase, records, ports, signals, resets,
                 reference>>

ParseSingleParameter ==
  /\ locals = <<>>
  /\ \E name \in Names, type \in Types :
       LET v == Variable(name, type, FALSE) IN
       Declarable(v) /\ parameters' = Append(parameters, v)
  /\ UNCHANGED <<tableVars, defined, locals, phase, records, ports, signals,
                 resets, reference>>

\* No arrays of structs: docs/source/known_issues.rst.
ParseVariableDeclaration ==
  /\ \E name \in Names, type \in Types, array \in BOOLEAN :
       LET v == Variable(name, type, array) IN
       /\ array => type = NoStruct
       /\ Declarable(v) /\ locals' = Append(locals, v)
  /\ UNCHANGED <<tableVars, defined, parameters, phase, records, ports,
                 signals, resets, reference>>

\* A program with an error is not translated.
EndOfProgram ==
  /\ phase = "parse" /\ ~errors /\ phase' = "records"
  /\ UNCHANGED <<program, records, ports, signals, resets, reference>>

-----------------------------------------------------------------------------
(* Code generation. *)

StructIndex(v) == FindStructIndex(structs, v.type)
IsStruct(v)    == StructIndex(v) # NotFound
FieldsOf(v)    == structs[StructIndex(v)].fields

EmitAllStructDeclarations ==
  /\ phase = "records" /\ phase' = "ports"
  /\ records' = structs
  /\ UNCHANGED <<program, ports, signals, resets, reference>>

EmitEntityDeclaration ==
  /\ phase = "ports" /\ Len(parameters) <= MaxParameters
  /\ phase' = "signals"
  /\ ports' = [i \in DOMAIN parameters |-> MappedSignalName(parameters[i].name)]
  /\ UNCHANGED <<program, records, signals, resets, reference>>

\* generate_function_declaration refuses the function before its entity.
TooManyParameters ==
  /\ phase = "ports" /\ Len(parameters) > MaxParameters
  /\ phase' = "end" /\ errors' = TRUE
  /\ UNCHANGED <<structs, defined, parameters, locals, records, ports, signals,
                 resets, reference>>

\* An array has a type of its own; one whose name does not fit the buffer is
\* not declared.
FitsArrayName(v)           == Len(v.name) < ArrayNameSize
ArraySignalDeclaration(v)  ==
  IF FitsArrayName(v) THEN <<v.name \o <<U, "type">>, v.name>> ELSE <<>>
StructSignalDeclaration(v) == <<v.name>>
SimpleSignalDeclaration(v) == <<MappedSignalName(v.name)>>

SignalDeclaration(v) ==
  IF IsStruct(v) THEN StructSignalDeclaration(v)
  ELSE IF v.array THEN ArraySignalDeclaration(v)
  ELSE SimpleSignalDeclaration(v)

EmitFunctionLocalSignals ==
  /\ phase = "signals" /\ phase' = "reset"
  /\ signals' = FlattenSeq([i \in DOMAIN locals |-> SignalDeclaration(locals[i])])
  /\ UNCHANGED <<program, records, ports, resets, reference>>

FieldNamesOf(v) == [k \in DOMAIN FieldsOf(v) |-> Field(v.name, FieldsOf(v)[k])]

\* Fault: a simple variable is reset under its own name.
ResetUnmapped(v) == IF IsStruct(v) THEN FieldNamesOf(v) ELSE <<v.name>>
ResetAssignment(v) ==
  IF v.array THEN <<Cut(v.name, ArrayNameSize)>>
  ELSE IF IsStruct(v) THEN FieldNamesOf(v)
  ELSE <<MappedSignalName(v.name)>>

EmitFunctionResetLogic ==
  /\ phase = "reset" /\ phase' = "body"
  /\ resets' = FlattenSeq([i \in DOMAIN locals |-> ResetAssignment(locals[i])])
  /\ UNCHANGED <<program, records, ports, signals, reference>>

\* The names a use of a variable is emitted as.  An array whose name does not
\* fit the buffer is an error.
ArrayElementAccess(v)     == IF FitsArrayName(v) THEN {v.name} ELSE {}
ArrayElementAssignment(v) == IF FitsArrayName(v) THEN {v.name} ELSE {}
TypedOperand(text)        == {VariableReference(text)}
VariableAssignment(text)  == {VariableReference(text)}
VariableInitializer(v)    == {MappedSignalName(v.name)}
StructFieldInitializations(v) == ToSet(FieldNamesOf(v))
StructFieldCopyToResult(v)    == ToSet(FieldNamesOf(v))
EncodedFields(v) == {Encoded(v.name, FieldsOf(v)[k]) : k \in DOMAIN FieldsOf(v)}

Emitted(v, position) ==
  CASE position = "value" -> {VariableReference(v.name)}
    [] position = "operand" -> TypedOperand(v.name)
    [] position = "target" -> VariableAssignment(v.name)
    [] position = "initialized" -> VariableInitializer(v)
    [] position = "negated value" -> {v.name}
    [] position = "negated operand" -> TypedOperand(<<"-">> \o v.name)
    [] position = "element operand" ->
         TypedOperand(v.name \o <<"[", "1", "]">>)
    [] position = "element" -> ArrayElementAccess(v)
    [] position = "element assigned" -> ArrayElementAssignment(v)
    [] position = "field" -> {VariableReference(f) : f \in EncodedFields(v)}
    [] position = "field assigned" ->
         UNION {VariableAssignment(f) : f \in EncodedFields(v)}
    [] position = "fields initialized" -> StructFieldInitializations(v)
    [] position = "fields returned" -> StructFieldCopyToResult(v)
    [] position \in {"array index", "list element"} -> {v.name}

Simple(v) == ~v.array /\ v.type = NoStruct
Usable(v, position) ==
  CASE position \in {"element", "element assigned", "element operand"} -> v.array
    [] position \in {"field", "field assigned", "fields initialized",
                     "fields returned"} -> IsStruct(v)
    [] position \in {"value", "target"} -> ~v.array
    [] OTHER -> Simple(v)

GenerateReference ==
  /\ phase = "body" /\ phase' = "end"
  /\ \E i \in DOMAIN Variables, position \in Positions :
       /\ Usable(Variables[i], position)
       /\ reference' = <<[variable |-> i, position |-> position,
                          emitted |-> Emitted(Variables[i], position)]>>
  /\ UNCHANGED <<program, records, ports, signals, resets>>

Init ==
  /\ ResetStructTable
  /\ defined = <<>> /\ parameters = <<>> /\ locals = <<>>
  /\ phase = "parse"
  /\ records = <<>> /\ ports = <<>> /\ signals = <<>> /\ resets = <<>>
  /\ reference = <<>>

Next ==
  \/ DefineStruct \/ ParseSingleParameter \/ ParseVariableDeclaration
  \/ EndOfProgram
  \/ EmitAllStructDeclarations \/ EmitEntityDeclaration \/ TooManyParameters
  \/ EmitFunctionLocalSignals \/ EmitFunctionResetLogic \/ GenerateReference

Spec == Init /\ [][Next]_vars

-----------------------------------------------------------------------------
(* Properties. *)

\* The type invariant: the tables keep their bounds, and code is generated
\* for programs without an error only.
TypeOK ==
  /\ TableOK
  /\ phase \in {"parse", "records", "ports", "signals", "reset", "body", "end"}
  /\ errors => phase \in {"parse", "end"} /\ ports = <<>>
  /\ Len(ports) \in {0, Len(parameters)} /\ Len(reference) <= 1

\* VHDL's own words: a letter, then letters and digits, with single
\* underscores between them; and none of its reserved words.
IsBasicIdentifier(name) ==
  /\ name # <<>> /\ name[1] \in Words
  /\ \A i \in 2..Len(name) :
       name[i] \notin Words => \/ IsDigit(name[i])
                               \/ /\ name[i] = U /\ i < Len(name)
                                  /\ name[i + 1] # U
  /\ name \notin Reserved

\* Whatever a C program calls its parameters and its simple variables, their
\* ports and signals have legal names that are not the result port's.
NamesAreLegal ==
  \A name \in ToSet(ports)
              \cup {MappedSignalName(locals[i].name) :
                      i \in {j \in DOMAIN locals :
                               signals # <<>> /\ Simple(locals[j])}} :
    IsBasicIdentifier(name) /\ name # Result

\* A struct is one record type, however often it is defined, and no field of a
\* definition is lost: a definition that does not fit is an error.  This is so
\* where the names of structs and fields fit their buffers.
NamesFit ==
  \A i \in DOMAIN defined :
    /\ Len(defined[i].name) < NameLength
    /\ \A k \in DOMAIN defined[i].fields : Len(defined[i].fields[k]) < NameLength
FieldsDefinedAs(name) ==
  FlattenSeq([i \in DOMAIN defined |->
                IF defined[i].name = name THEN defined[i].fields ELSE <<>>])
RecordsMatchDefinitions ==
  phase \in {"ports", "signals", "reset", "body", "end"} /\ NamesFit =>
    /\ \A i, j \in DOMAIN records : records[i].name = records[j].name => i = j
    /\ {defined[i].name : i \in DOMAIN defined}
         = {records[i].name : i \in DOMAIN records}
    /\ \A i \in DOMAIN records :
         records[i].fields = FieldsDefinedAs(records[i].name)

\* Names that mean the same in C and in VHDL.
Plain(name) == MappedSignalName(name) = name
Declared(v) == IF Simple(v) THEN MappedSignalName(v.name) ELSE v.name
FieldsDefined(v) == UNION {ToSet(defined[i].fields) :
                             i \in {j \in DOMAIN defined : defined[j].name = v.type}}

\* The reset branch mirrors the declarations: it assigns every signal of the
\* architecture, a record field by field, and nothing that is not declared;
\* where the names fit their buffers.
ResetMirrorsSignals ==
  /\ phase \in {"body", "end"} /\ ~errors /\ NamesFit
  /\ \A v \in ToSet(locals) : v.array => Len(v.name) < ArrayNameSize
  =>
    /\ ToSet(signals) \cup UNION {{Field(v.name, f) : f \in FieldsDefined(v)} :
                                    v \in ToSet(locals)}
         = ToSet(resets)
           \cup {v.name : v \in {w \in ToSet(locals) : w.type # NoStruct}}
           \cup {v.name \o <<U, "type">> : v \in {w \in ToSet(locals) : w.array}}
    /\ \A v \in ToSet(locals) : Simple(v) => Declared(v) \in ToSet(resets)

\* What the body calls a variable is what its declaration calls it, also where
\* the name had to be changed for VHDL, or where it has fields; where the names
\* fit their buffers, and a field has no double underscore of its own.
InMappedPosition(r) ==
  r.position \in {"value", "operand", "target", "initialized"}
Refers(r) ==
  LET v == Variables[r.variable] IN
  r.emitted = IF r.position \in {"field", "field assigned", "fields initialized",
                                 "fields returned"}
              THEN {Field(Declared(v), f) : f \in FieldsDefined(v)}
              ELSE {Declared(v)}
OfNames(r) ==
  r.position \notin {"negated value", "negated operand", "element operand"}

ReferencesResolve ==
  \A r \in ToSet(reference) :
    LET v == Variables[r.variable] IN
    /\ OfNames(r) /\ NamesFit /\ (v.array => FitsArrayName(v))
    /\ \A f \in FieldsDefined(v) : ~HasDouble(f)
    /\ Plain(v.name) \/ (Simple(v) /\ InMappedPosition(r) /\ ~HasDouble(v.name))
    => Refers(r)

\* docs/source/internals/codegen.rst: every declaration, read, and write of a
\* variable goes through the same mapper, so the name is used consistently;
\* also for the operands of arithmetic and of comparisons.
OperandsResolve == \A r \in ToSet(reference) : ~OfNames(r) => Refers(r)

===============================================================================
