--------------------------- MODULE MCGameSession ---------------------------
(***************************************************************************)
(* Instances of GameSession for TLC.                                       *)
(***************************************************************************)
EXTENDS GameSession, TLC

Symmetry == Permutations(Joins) \cup Permutations(Resumes) \cup Permutations(Conns)
=============================================================================
