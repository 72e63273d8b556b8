---------------------------- MODULE MCLoginLimit ----------------------------
(***************************************************************************)
(* Small instances of LoginLimit: three attempts in flight, of which       *)
(* two are admitted per window.                                            *)
(***************************************************************************)
EXTENDS LoginLimit, TLC

Symmetry == Permutations(Request)
=============================================================================
