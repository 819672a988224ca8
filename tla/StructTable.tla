------------------------------ MODULE StructTable ------------------------------
(***************************************************************************)
(* The struct symbol table (src/symbols/symbol_structs.c), the parser that *)
(* fills it (src/parser/parse_struct.c) and the records code generation    *)
(* makes of it.  A name is a sequence of characters; field types are left  *)
(* out.                                                                    *)
(***************************************************************************)
EXTENDS Integers, Sequences, SequencesExt

CONSTANTS
  MaxStructs,       \* MAX_STRUCTS
  MaxStructFields,  \* MAX_STRUCT_FIELDS
  NameLength        \* STRUCT_NAME_LENGTH and FIELD_NAME_LENGTH, the 0 included

ASSUME StructTableAssumption ==
  /\ MaxStructs \in Nat \ {0} /\ MaxStructFields \in Nat \ {0}
  /\ NameLength \in Nat \ {0}

VARIABLES
  structs, \* g_structs, the entries below g_struct_count
  errors   \* has_errors()

tableVars == <<structs, errors>>

NotFound == 0  \* -1 in the code, whose indices start at 0

\* safe_copy into a name buffer cuts the name off.
Cut(name, size) == SubSeq(name, 1, Min({Len(name), size - 1}))
SafeCopy(name)  == Cut(name, NameLength)

FindStructIndex(table, name) ==
  LET at == {i \in DOMAIN table : table[i].name = name}
  IN  IF at = {} THEN NotFound ELSE CHOOSE i \in at : \A j \in at : i <= j

\* register_struct: the index of the struct, and the table.  A full table
\* refuses even a name it holds.
\* Fault: the table is not searched for the name.
RegisterStructAgain(table, name) ==
  IF Len(table) >= MaxStructs
  THEN [index |-> NotFound, table |-> table]
  ELSE [index |-> Len(table) + 1,
        table |-> Append(table, [name |-> SafeCopy(name), fields |-> <<>>])]
RegisterStruct(table, name) ==
  LET existing == FindStructIndex(table, name) IN
  IF Len(table) >= MaxStructs
  THEN [index |-> NotFound, table |-> table]
  ELSE IF existing # NotFound THEN [index |-> existing, table |-> table]
  ELSE [index |-> Len(table) + 1,
        table |-> Append(table, [name |-> SafeCopy(name), fields |-> <<>>])]

\* register_struct_field, on a struct that is registered: a field more than
\* the entry holds is an error.
\* Fault: the bound is off by one.
FieldsFullLate(entry) == Len(entry.fields) > MaxStructFields
FieldsFull(entry)     == Len(entry.fields) >= MaxStructFields

RegisterStructField(state, index, field) ==
  IF FieldsFull(state.table[index])
  THEN [table |-> state.table, errors |-> TRUE]
  ELSE [table |-> [state.table EXCEPT ![index].fields =
                                        Append(@, SafeCopy(field))],
        errors |-> FALSE]

\* parse_struct: the fields are registered one by one, up to the first error.
RegisterFields(table, index, fields) ==
  FoldLeft(LAMBDA state, field :
             IF state.errors THEN state
             ELSE RegisterStructField(state, index, field),
           [table |-> table, errors |-> FALSE], fields)

ParseStruct(name, fields) ==
  LET registered == RegisterStruct(structs, name)
      filled == RegisterFields(registered.table, registered.index, fields)
  IN  /\ ~errors
      /\ IF registered.index = NotFound
         THEN errors' = TRUE /\ UNCHANGED structs
         ELSE errors' = filled.errors /\ structs' = filled.table

ResetStructTable == structs = <<>> /\ errors = FALSE

\* The type invariant of the table.
TableOK ==
  /\ errors \in BOOLEAN
  /\ Len(structs) <= MaxStructs
  /\ \A i \in DOMAIN structs :
       /\ Len(structs[i].name) < NameLength
       /\ Len(structs[i].fields) <= MaxStructFields
       /\ \A k \in DOMAIN structs[i].fields :
            Len(structs[i].fields[k]) < NameLength

===============================================================================
