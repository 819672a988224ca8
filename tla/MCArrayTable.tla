----------------------------- MODULE MCArrayTable -----------------------------
(* Two arrays, and a name longer than an entry that truncates to one of them. *)
EXTENDS ArrayTable

MCName   == {"a", "b", "b_long"}
MCStored == [n \in MCName |-> IF n = "b_long" THEN "b" ELSE n]

==============================================================================
