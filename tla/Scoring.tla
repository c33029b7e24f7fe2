------------------------------ MODULE Scoring ------------------------------
(***************************************************************************)
(* What an answer is worth and how players are ranked: the arithmetic of   *)
(* one question, from its start to the leaderboard, that Room abstracts    *)
(* into a set of awards.                                                   *)
(*                                                                         *)
(* calcScore computes in float64.  Its exact value is                      *)
(* points * (2 * limit - ms) / (2 * limit), and rounding it to the nearest *)
(* integer is exact except half-way between two integers, where the error  *)
(* of the division decides: TiesUp are the pairs that come out upwards.    *)
(***************************************************************************)
EXTENDS Integers, FiniteSets, Sequences, Functions

CONSTANTS Players,
          Options,           \* the question's options
          MaxPoints,         \* points are in 1 .. MaxPoints
          Limit,             \* the time limit, in the clock's unit
          Late,              \* bound: how long after the limit an answer may be handled
          TiesUp,
          Totals             \* the totals players may have before the question

ASSUME ScoringAssumption ==
  /\ MaxPoints \in Nat /\ Limit \in Nat \ {0} /\ Late \in Nat /\ Totals \subseteq Nat
  /\ IsFiniteSet(Options) /\ IsFiniteSet(Players)
  /\ \A points \in 1 .. MaxPoints : <<points, Limit>> \in TiesUp

VARIABLES
  points, correct,           \* the question
  clock,                     \* time since questionStartTS
  answers,                   \* r.answers, NoAnswer for no entry
  scores,                    \* r.scores
  gone,                      \* players who left
  board                      \* the leaderboard sent, <<>> before the end

vars == <<points, correct, clock, answers, scores, gone, board>>

NoAnswer == [ms |-> 0, right |-> FALSE, score |-> 0, given |-> FALSE]

Init ==
  /\ points \in 1 .. MaxPoints
  /\ correct \in SUBSET Options
  /\ clock = 0
  /\ answers = [p \in Players |-> NoAnswer]
  /\ scores \in [Players -> Totals]
  /\ gone = {}
  /\ board = <<>>

-----------------------------------------------------------------------------
\* The strict test: as many options as are correct, and every correct one.
IsCorrect(selected, right) ==
  Cardinality(selected) = Cardinality(right) /\ right \subseteq selected

\* Mutant: the elapsed time is used as it is.
Elapsed(t) == t

\* The response time, clamped to the limit.
ResponseTime(t) == IF t > Limit THEN Limit ELSE t

\* Mutant: the time factor grows with the time.
RisingWorth(pts, ms) == (pts * (Limit + ms)) \div (2 * Limit)

\* calcScore of a right answer.
Worth(pts, ms) ==
  LET num  == pts * (2 * Limit - ms)
      down == num \div (2 * Limit)
      rest == num % (2 * Limit)
  IN  IF rest > Limit \/ (rest = Limit /\ <<pts, ms>> \in TiesUp) THEN down + 1 ELSE down

Pass ==
  /\ board = <<>> /\ clock < Limit + Late
  /\ clock' = clock + 1
  /\ UNCHANGED <<points, correct, answers, scores, gone, board>>

\* handleAnswerSubmit.
Answer(p) ==
  /\ board = <<>> /\ ~answers[p].given
  /\ \E selected \in SUBSET Options :
       LET ms    == ResponseTime(clock)
           right == IsCorrect(selected, correct)
       IN  answers' = [answers EXCEPT ![p] =
             [ms |-> ms, right |-> right, given |-> TRUE,
              score |-> IF right THEN Worth(points, ms) ELSE 0]]
  /\ UNCHANGED <<points, correct, clock, scores, gone, board>>

\* A player may leave at any time, the leaderboard being sent or not.
Leave(p) ==
  /\ p \notin gone
  /\ gone' = gone \cup {p}
  /\ UNCHANGED <<points, correct, clock, answers, scores, board>>

\* Mutant: the lowest score comes first.
Ahead(a, b) == a <= b

\* sort.Slice keeps no order among equal scores, nor does the map it reads.
NotBehind(a, b) == a >= b

Boards(present, total) ==
  LET places == 1 .. Cardinality(present)
  IN  {b \in Injection(places, present) :
         \A i, j \in places : i < j => NotBehind(total[b[i]], total[b[j]])}

\* finishQuestion: every answer is credited, those of players who left too, and the
\* players in the room are ranked.
Finish ==
  /\ board = <<>>
  /\ scores' = [p \in Players |-> scores[p] + answers[p].score]
  /\ board' \in Boards(Players \ gone, scores') \ {<<>>}
  /\ UNCHANGED <<points, correct, clock, answers, gone>>

Next == Pass \/ Finish \/ \E p \in Players : Answer(p) \/ Leave(p)

Spec == Init /\ [][Next]_vars

-----------------------------------------------------------------------------
(***************************************************************************)
(* What players are promised.                                              *)
(***************************************************************************)
\* Every variable has its type.
TypeOK ==
  /\ points \in 1 .. MaxPoints
  /\ correct \subseteq Options
  /\ clock \in 0 .. Limit + Late
  /\ answers \in [Players -> [ms : 0 .. Limit, right : BOOLEAN, score : 0 .. MaxPoints,
                              given : BOOLEAN]]
  /\ scores \in [Players -> Nat]
  /\ gone \subseteq Players
  /\ board \in Seq(Players)

\* Of two right answers the earlier is worth at least as much.
FasterIsNeverWorse ==
  \A p, q \in Players :
    answers[p].right /\ answers[q].right /\ answers[p].ms <= answers[q].ms
      => answers[p].score >= answers[q].score

\* A right answer is worth between half the points, rounded up, and all of them; a
\* wrong one nothing.
WorthIsBounded ==
  \A p \in Players :
    LET a == answers[p]
    IN  IF a.right THEN points <= 2 * a.score /\ a.score <= points ELSE a.score = 0

\* calcScore, however its float arithmetic rounds and however late an answer is
\* handled: neither does the order of time turn around, nor leaves a score its bounds.
WorthIsFair == FasterIsNeverWorse /\ WorthIsBounded

\* The rank of ListHistory: one more than the participants with a higher total.
HistoryRank(p) == 1 + Cardinality({q \in Players : scores[q] > scores[p]})

\* The rank a player is shown and the rank in the history differ by ties and by players
\* who left, and by nothing else.
RankAgreesWithHistory ==
  \A i \in 1 .. Len(board) :
    LET p    == board[i]
        ties == Cardinality({q \in Players \ {p} : scores[q] = scores[p]})
    IN  /\ i <= HistoryRank(p) + ties
        /\ gone = {} => HistoryRank(p) <= i
=============================================================================
