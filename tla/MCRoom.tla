------------------------------- MODULE MCRoom -------------------------------
(***************************************************************************)
(* Instances of Room for TLC.                                              *)
(***************************************************************************)
EXTENDS Room, TLC

\* Quizzes: one that is empty, one with a question of each kind; or one question.
TwoQuestions == {<<>>, <<"single", "multiple">>}
OneQuestion  == {<<"single">>}

\* Two players are exchangeable in every safety property.
PlayerSymmetry == Permutations(Players)
=============================================================================
