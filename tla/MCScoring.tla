----------------------------- MODULE MCScoring -----------------------------
(***************************************************************************)
(* Instances of Scoring and Results for TLC: ties rounded both ways.       *)
(***************************************************************************)
EXTENDS Results

SomeTies == {<<pts, ms>> \in (1 .. MaxPoints) \X (0 .. Limit) : ms = Limit \/ ms % 2 = 0}
=============================================================================
