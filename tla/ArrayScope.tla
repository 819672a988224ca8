------------------------------ MODULE ArrayScope ------------------------------
(***************************************************************************)
(* What the array table promises the parser inside one function: the size  *)
(* of an array is the one of its last declaration, an access with a        *)
(* constant index is rejected when the index is outside that size and only *)
(* then, and the next function starts with no arrays.  A name that is too  *)
(* long for an entry is not an array to the table, and declaring it does   *)
(* not change the arrays there are.                                        *)
(***************************************************************************)
EXTENDS Integers

CONSTANTS
  Name,     \* array names
  Short,    \* those that fit an entry
  Size,     \* sizes an array can have
  Literal,  \* the sizes and constant indices of the input
  Checked   \* the indices that are checked

VARIABLES
  size,       \* the declared arrays of the function and their sizes
  call,       \* the last call and its answer
  diagnosed   \* something was logged

vars == <<size, call, diagnosed>>

NoArrays == [n \in {} |-> 0]
With(f, n, s) == [m \in DOMAIN f \cup {n} |-> IF m = n THEN s ELSE f[m]]

Init == size = NoArrays /\ call = [op |-> "none"] /\ diagnosed = FALSE

EnterFunction ==
  /\ call' = [op |-> "enter"] /\ size' = NoArrays
  /\ UNCHANGED diagnosed

Declare(n, s) ==
  /\ call' = [op |-> "declare", name |-> n, size |-> s, refused |-> FALSE]
  /\ \/ n \in Short /\ size' = With(size, n, s)
     \/ n \notin Short /\ UNCHANGED size
     \/ n \notin Short /\ \E t \in Short \ DOMAIN size : size' = With(size, t, s)
  /\ UNCHANGED diagnosed

\* A declaration may be refused, with a diagnostic.
Refuse(n, s) ==
  /\ call' = [op |-> "declare", name |-> n, size |-> s, refused |-> TRUE]
  /\ diagnosed' = TRUE
  /\ UNCHANGED size

OutOfBounds(n, i) == n \in DOMAIN size /\ i \notin 0..(size[n] - 1)

Access(n, i) ==
  LET rejected == i \in Checked /\ OutOfBounds(n, i) IN
  /\ call' = [op |-> "access", name |-> n, index |-> i, rejected |-> rejected]
  /\ diagnosed' = (diagnosed \/ rejected)
  /\ UNCHANGED size

Next ==
  \/ EnterFunction
  \/ \E n \in Name, s \in Size : Declare(n, s)
  \/ \E n \in Name, s \in Literal : Refuse(n, s)
  \/ \E n \in Name, i \in Literal : Access(n, i)

Spec == Init /\ [][Next]_vars

==============================================================================
