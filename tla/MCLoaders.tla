----------------------------- MODULE MCLoaders -----------------------------
(* Two users; the first has written a post, and the second comments on it *)
(* and may write one, too.                                                *)
EXTENDS Loaders, TLC

CONSTANTS u1, u2, p1, p2, k1, k2

Writers == p1 :> u1 @@ p2 :> u2 @@ k1 :> u2 @@ k2 :> u1
Abouts == k1 :> p1 @@ k2 :> p1
Seed == [users |-> {u1}, posts |-> {p1}, comments |-> {k2}]
=============================================================================
