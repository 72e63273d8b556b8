----------------------------- MODULE MCRecords -----------------------------
(* An empty database. *)
EXTENDS Records, TLC

NoSeed == <<>>
Symmetry == Permutations(Request) \cup Permutations(Name)
=============================================================================
