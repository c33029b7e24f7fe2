----------------------------- MODULE MCBuilder -----------------------------
(***************************************************************************)
(* A quiz of two questions and one that may be added.                      *)
(***************************************************************************)
EXTENDS Builder

CONSTANTS q1, q2

MCOriginals == <<q1, q2>>
=============================================================================
