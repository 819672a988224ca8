------------------------------ MODULE ArrayTable ------------------------------
(***************************************************************************)
(* The array symbol table (src/symbols/symbol_arrays.c) and its callers in *)
(* the parser: the declaration of an array, the bounds checks of constant  *)
(* indices in expressions and on left-hand sides, and the reset at the     *)
(* start of each function.  Stored gives what the entry of a name holds,   *)
(* its first 63 characters.  Names contain no "__", by which the parser    *)
(* joins a field to its struct.                                            *)
(***************************************************************************)
EXTENDS Integers, Sequences

CONSTANTS
  Name,       \* array names
  Stored,     \* the name an entry holds, for each name
  MaxArrays,  \* MAX_ARRAYS
  IntMax      \* INT_MAX

ASSUME ArrayAssumption ==
  /\ Stored \in [Name -> Name] /\ \A n \in Name : Stored[Stored[n]] = Stored[n]
  /\ MaxArrays \in Nat \ {0} /\ IntMax \in Nat \ {0}

\* The values of number literals: those of an int, and one that is none.
Literal    == -1..(IntMax + 1)
FitsInt(i) == i <= IntMax

VARIABLES
  arrays,     \* g_arrays[0 .. g_array_count - 1]
  call,       \* history: the last call of the parser, and its answer
  diagnosed   \* has_errors()

vars == <<arrays, call, diagnosed>>

Entry == [name : Name, size : 1..IntMax]
Call  == [op : {"none", "enter"}]
           \cup [op : {"declare"}, name : Name, size : Literal, refused : BOOLEAN]
           \cup [op : {"access"}, name : Name, index : Literal, rejected : BOOLEAN]

TypeOK ==
  /\ arrays \in Seq(Entry) /\ Len(arrays) <= MaxArrays
  /\ call \in Call
  /\ diagnosed \in BOOLEAN

\* The linear search: the entries of table a with a name, and the first of them.
Matching(a, n) == {k \in DOMAIN a : a[k].name = n}
First(a, n)    == CHOOSE k \in Matching(a, n) : \A j \in Matching(a, n) : k <= j
FindArraySize(a, n) ==
  IF Matching(a, n) = {} THEN -1 ELSE a[First(a, n)].size

-----------------------------------------------------------------------------
Init == arrays = <<>> /\ call = [op |-> "none"] /\ diagnosed = FALSE

ResetArrayTable ==
  /\ call' = [op |-> "enter"] /\ arrays' = <<>>
  /\ UNCHANGED diagnosed

\* Fault: the capacity check is off by one.
FullLate == Len(arrays) > MaxArrays
Full     == Len(arrays) >= MaxArrays

\* Fault: the last entry of the name is updated, find_array_size reads the first.
UpdateLast(n, s) ==
  LET last == CHOOSE k \in Matching(arrays, n) : \A j \in Matching(arrays, n) : j <= k IN
  arrays' = [arrays EXCEPT ![last].size = s]

Update(n, s) == arrays' = [arrays EXCEPT ![First(arrays, n)].size = s]

Insert(n, s) == arrays' = Append(arrays, [name |-> Stored[n], size |-> s])

Unfit(s) == ~FitsInt(s) \/ s <= 0

\* A size that is no int is refused by parse_variable_declaration already.
RegisterArray(n, s) ==
  /\ call' = [op |-> "declare", name |-> n, size |-> s, refused |-> Unfit(s) \/ Full]
  /\ \/ (Unfit(s) \/ Full) /\ diagnosed' = TRUE /\ UNCHANGED arrays
     \/ /\ ~Unfit(s) /\ ~Full /\ Matching(arrays, n) # {}
        /\ Update(n, s) /\ UNCHANGED diagnosed
     \/ /\ ~Unfit(s) /\ ~Full /\ Matching(arrays, n) = {}
        /\ Insert(n, s) /\ UNCHANGED diagnosed

Rejects(n, i) ==
  /\ FitsInt(i) /\ FindArraySize(arrays, n) > 0
  /\ i < 0 \/ i >= FindArraySize(arrays, n)

ValidateArrayBounds(n, i) ==
  /\ call' = [op |-> "access", name |-> n, index |-> i, rejected |-> Rejects(n, i)]
  /\ diagnosed' = (diagnosed \/ Rejects(n, i))
  /\ UNCHANGED arrays

Next ==
  \/ ResetArrayTable
  \/ \E n \in Name, s \in Literal \ {-1} : RegisterArray(n, s)
  \/ \E n \in Name, i \in Literal : ValidateArrayBounds(n, i)

Spec == Init /\ [][Next]_vars

-----------------------------------------------------------------------------
(* Properties. *)

\* The table as the lookup sees it: the size of the first entry of each name.
KnownIn(a) == [n \in {a[k].name : k \in DOMAIN a} |-> FindArraySize(a, n)]
Known      == KnownIn(arrays)

\* The table with its linear searches, its limit and its truncated names is the
\* array scope of one function: an index is checked against the last declared
\* size, whatever longer names were truncated to the same entry, and nothing of
\* the previous function is left.
Fitting == {n \in Name : Stored[n] = n}
Scope == INSTANCE ArrayScope WITH
           size <- Known, Short <- Fitting, Size <- 1..IntMax,
           Checked <- {i \in Literal : FitsInt(i)}
ImplementsArrayScope == Scope!Spec

=============================================================================
