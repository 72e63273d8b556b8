----------------------------- MODULE MCSessions -----------------------------
(***************************************************************************)
(* Small instances of Sessions: one user with up to three tokens, and two  *)
(* users with one and two.                                                 *)
(***************************************************************************)
EXTENDS Sessions, TLC

CONSTANTS u1, u2, t1, t2, t3

OneUser == {u1}
TwoUsers == {u1, u2}

\* All tokens belong to u1.
OwnerOfAll == [t \in Token |-> u1]

\* u2 has one token, u1 the others.
OwnerShared == [t \in Token |-> IF t = t3 THEN u2 ELSE u1]

\* Requests are interchangeable, and so are the tokens of one user.
Symmetry == Permutations(Request) \cup Permutations(Token)
RequestSymmetry == Permutations(Request)
=============================================================================
