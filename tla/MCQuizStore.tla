----------------------------- MODULE MCQuizStore -----------------------------
EXTENDS QuizStore, TLC

CONSTANTS q1, q2
TwoQuestions == q1 :> 0 @@ q2 :> 1

\* A finished single- and multiple-choice question, an unfinished one, one that
\* is refused, a change of the type alone and one of the options alone.
FewForms == {[type |-> "single", keys |-> 1], [type |-> "multiple", keys |-> 2],
             [type |-> "multiple", keys |-> 0], [type |-> "single", keys |-> 2],
             [type |-> "single", keys |-> None], [type |-> None, keys |-> 2]}
=============================================================================
