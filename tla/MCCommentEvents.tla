-------------------------- MODULE MCCommentEvents --------------------------
(***************************************************************************)
(* Small instances of CommentEvents.                                       *)
(***************************************************************************)
EXTENDS CommentEvents, TLC

Symmetry ==
    Permutations(Request) \cup Permutations(Instance) \cup Permutations(Comment)
=============================================================================
