--------------------------- MODULE ScoringProofs ---------------------------
(***************************************************************************)
(* Proofs about Scoring, for every limit, all points, every way the float  *)
(* division rounds ties, and any number of players; and, in the second     *)
(* part, about Results: what the results pages mark as a player's own, for *)
(* any number of podium places.                                            *)
(***************************************************************************)
EXTENDS Results, TLAPS, FiniteSetTheorems

\* An answer carries what calcScore gives for it.
ScoredByCalc ==
  \A p \in Players :
    answers[p].score = IF answers[p].right THEN Worth(points, answers[p].ms) ELSE 0

\* Once sent, the board ranks by the scores they have all players but some who left.
BoardIsSorted ==
  board # <<>> => \E left \in SUBSET gone : board \in Boards(Players \ left, scores)

IInv == TypeOK /\ ScoredByCalc /\ BoardIsSorted

-----------------------------------------------------------------------------
(***************************************************************************)
(* The arithmetic of calcScore.                                            *)
(***************************************************************************)

\* Division by a positive number, as the provers use it.
LEMMA Division ==
  ASSUME NEW a \in Nat, NEW b \in Nat \ {0}
  PROVE  /\ a \div b \in Nat
         /\ a % b \in 0 .. (b - 1)
         /\ a = b * (a \div b) + (a % b)
<1>1. a \div b \in Int /\ a % b \in 0 .. (b - 1) /\ a = b * (a \div b) + (a % b)
  BY SMT
<1>2. a \div b >= 0
  BY <1>1, SMT
<1>. QED
  BY <1>1, <1>2

\* The score is an integer nearest to the exact value.
LEMMA Nearest ==
  ASSUME NEW pts \in 1 .. MaxPoints, NEW ms \in 0 .. Limit
  PROVE  /\ Worth(pts, ms) \in Nat
         /\ 2 * Limit * Worth(pts, ms) <= pts * (2 * Limit - ms) + Limit
         /\ 2 * Limit * Worth(pts, ms) >= pts * (2 * Limit - ms) - Limit
         /\ 2 * Limit * Worth(pts, ms) = pts * (2 * Limit - ms) - Limit
              => <<pts, ms>> \notin TiesUp
<1> DEFINE num  == pts * (2 * Limit - ms)
           down == num \div (2 * Limit)
           rest == num % (2 * Limit)
<1>1. num \in Nat /\ 2 * Limit \in Nat \ {0} /\ Limit \in Nat \ {0}
  <2>1. pts \in Nat /\ 2 * Limit - ms \in Nat
    BY ScoringAssumption
  <2>. QED
    BY <2>1, ScoringAssumption
<1>2. down \in Nat /\ rest \in 0 .. (2 * Limit - 1) /\ num = 2 * Limit * down + rest
  BY <1>1, Division
<1>3. Worth(pts, ms) =
        IF rest > Limit \/ (rest = Limit /\ <<pts, ms>> \in TiesUp) THEN down + 1 ELSE down
  BY DEF Worth
<1> HIDE DEF num, down, rest
<1>4. 2 * Limit * (down + 1) = 2 * Limit * down + 2 * Limit
  BY <1>1, <1>2
<1>5. CASE rest > Limit \/ (rest = Limit /\ <<pts, ms>> \in TiesUp)
  <2>1. Worth(pts, ms) = down + 1
    BY <1>3, <1>5
  <2>2. 2 * Limit * Worth(pts, ms) = num - rest + 2 * Limit
    BY <1>1, <1>2, <1>4, <2>1
  <2>. QED
    BY <1>1, <1>2, <1>5, <2>1, <2>2 DEF num
<1>6. CASE ~(rest > Limit \/ (rest = Limit /\ <<pts, ms>> \in TiesUp))
  <2>1. Worth(pts, ms) = down
    BY <1>3, <1>6
  <2>2. 2 * Limit * Worth(pts, ms) = num - rest
    BY <1>1, <1>2, <2>1
  <2>. QED
    BY <1>1, <1>2, <1>6, <2>1, <2>2 DEF num
<1>. QED
  BY <1>5, <1>6

\* A score is a natural number.
LEMMA WorthIsNat ==
  ASSUME NEW pts \in 1 .. MaxPoints, NEW ms \in 0 .. Limit
  PROVE  Worth(pts, ms) \in Nat
  BY Nearest

\* A product grows with its factor.
LEMMA Scale ==
  ASSUME NEW a \in Nat, NEW x \in Int, NEW y \in Int, x <= y
  PROVE  a * x <= a * y
<1>1. y - x \in Nat /\ a * (y - x) \in Nat
  OBVIOUS
<1>2. a * (y - x) = a * y - a * x
  OBVIOUS
<1>. QED
  BY <1>1, <1>2

\* Twice a positive factor cannot be gained by less than one.
LEMMA Cancel ==
  ASSUME NEW a \in Nat \ {0}, NEW x \in Int, NEW y \in Int, a * x < a * y + a
  PROVE  x <= y
<1> SUFFICES ASSUME x >= y + 1 PROVE FALSE
  OBVIOUS
<1>1. a * (y + 1) <= a * x
  BY Scale
<1>2. a * (y + 1) = a * y + a
  OBVIOUS
<1>. QED
  BY <1>1, <1>2

\* Between half the points and all of them.
LEMMA ScoreBounds ==
  ASSUME NEW pts \in 1 .. MaxPoints, NEW ms \in 0 .. Limit
  PROVE  /\ Worth(pts, ms) \in 0 .. pts
         /\ pts <= 2 * Worth(pts, ms)
<1> DEFINE s == Worth(pts, ms)
<1>1. s \in Nat /\ pts \in Nat /\ Limit \in Nat \ {0} /\ ms \in 0 .. Limit
  BY WorthIsNat, ScoringAssumption
<1>2. /\ 2 * Limit * s <= pts * (2 * Limit - ms) + Limit
      /\ 2 * Limit * s >= pts * (2 * Limit - ms) - Limit
      /\ 2 * Limit * s = pts * (2 * Limit - ms) - Limit => <<pts, ms>> \notin TiesUp
  BY Nearest
<1> HIDE DEF s
<1>3. pts * (2 * Limit - ms) <= pts * (2 * Limit)
  BY <1>1, Scale
<1>4. pts * Limit <= pts * (2 * Limit - ms)
  BY <1>1, Scale
<1>5. s <= pts
  <2>1. (2 * Limit) * s < (2 * Limit) * pts + 2 * Limit
    BY <1>1, <1>2, <1>3
  <2>. QED
    BY <1>1, <2>1, Cancel
<1>6. pts <= 2 * s
  <2>1. Limit * pts - Limit <= Limit * (2 * s)
    BY <1>1, <1>2, <1>4
  <2>2. CASE ms = Limit
    <3>1. Limit * pts - Limit # Limit * (2 * s)
      BY <1>1, <1>2, <2>2, ScoringAssumption
    <3>2. Limit * pts < Limit * (2 * s) + Limit
      BY <1>1, <2>1, <3>1
    <3>. QED
      BY <1>1, <3>2, Cancel
  <2>3. CASE ms # Limit
    <3>1. pts * (Limit + 1) <= pts * (2 * Limit - ms)
      BY <1>1, <2>3, Scale
    <3>2. pts * (Limit + 1) = Limit * pts + pts
      BY <1>1
    <3>3. Limit * pts < Limit * (2 * s) + Limit
      BY <1>1, <1>2, <3>1, <3>2
    <3>. QED
      BY <1>1, <3>3, Cancel
  <2>. QED
    BY <2>2, <2>3
<1>. QED
  BY <1>1, <1>5, <1>6 DEF s

\* Less time is never worth less.
LEMMA ScoreMonotone ==
  ASSUME NEW pts \in 1 .. MaxPoints, NEW early \in 0 .. Limit, NEW late \in 0 .. Limit,
         early <= late
  PROVE  Worth(pts, late) <= Worth(pts, early)
<1> DEFINE e == Worth(pts, early)
           l == Worth(pts, late)
<1>1. CASE early = late
  BY <1>1, WorthIsNat
<1>2. CASE early # late
  <2>1. e \in Nat /\ l \in Nat /\ pts \in Nat \ {0} /\ Limit \in Nat \ {0}
    BY WorthIsNat, ScoringAssumption
  <2>2. /\ 2 * Limit * l <= pts * (2 * Limit - late) + Limit
        /\ 2 * Limit * e >= pts * (2 * Limit - early) - Limit
    BY Nearest
  <2> HIDE DEF e, l
  <2>3. pts * (2 * Limit - late) + pts <= pts * (2 * Limit - early)
    <3>1. pts * ((2 * Limit - late) + 1) <= pts * (2 * Limit - early)
      BY <1>2, <2>1, Scale
    <3>2. pts * ((2 * Limit - late) + 1) = pts * (2 * Limit - late) + pts
      BY <2>1
    <3>. QED
      BY <3>1, <3>2
  <2>4. (2 * Limit) * l < (2 * Limit) * e + 2 * Limit
    BY <2>1, <2>2, <2>3
  <2>. QED
    BY <2>1, <2>4, Cancel DEF e, l
<1>. QED
  BY <1>1, <1>2

\* Comparing sizes and testing one inclusion, as handleAnswerSubmit does, finds equality.
LEMMA StrictCheckIsEquality ==
  ASSUME NEW selected \in SUBSET Options, NEW right \in SUBSET Options
  PROVE  IsCorrect(selected, right) <=> selected = right
<1>1. IsFiniteSet(selected)
  BY FS_Subset, ScoringAssumption
<1>. QED
  BY <1>1, FS_Subset DEF IsCorrect

-----------------------------------------------------------------------------
(***************************************************************************)
(* The invariant.                                                          *)
(***************************************************************************)
\* The invariant holds when a question starts.
LEMMA InitInv == Init => IInv
<1> SUFFICES ASSUME Init PROVE IInv
  OBVIOUS
<1>1. answers = [p \in Players |-> NoAnswer] /\ 0 \in 0 .. Limit /\ 0 \in 0 .. MaxPoints
  BY ScoringAssumption DEF Init
<1>2. TypeOK
  <2>1. scores \in [Players -> Nat]
    BY ScoringAssumption DEF Init
  <2>2. NoAnswer \in [ms : 0 .. Limit, right : BOOLEAN, score : 0 .. MaxPoints, given : BOOLEAN]
    BY <1>1 DEF NoAnswer
  <2>3. clock \in 0 .. Limit + Late /\ board \in Seq(Players)
    BY ScoringAssumption DEF Init
  <2>. QED
    BY <1>1, <2>1, <2>2, <2>3 DEF Init, TypeOK
<1>3. ScoredByCalc
  BY <1>1 DEF ScoredByCalc, NoAnswer
<1>4. BoardIsSorted
  BY DEF Init, BoardIsSorted
<1>. QED
  BY <1>2, <1>3, <1>4 DEF IInv

\* An accepted answer keeps the invariant: its score is that of its time.
LEMMA AnswerStep ==
  ASSUME IInv, NEW p \in Players, Answer(p)
  PROVE  IInv'
<1>1. PICK selected \in SUBSET Options :
        answers' = [answers EXCEPT ![p] =
          [ms |-> ResponseTime(clock), right |-> IsCorrect(selected, correct),
           score |-> IF IsCorrect(selected, correct)
                     THEN Worth(points, ResponseTime(clock)) ELSE 0,
           given |-> TRUE]]
  BY DEF Answer
<1>2. points \in 1 .. MaxPoints /\ ResponseTime(clock) \in 0 .. Limit
  BY ScoringAssumption DEF IInv, TypeOK, ResponseTime
<1>3. Worth(points, ResponseTime(clock)) \in 0 .. MaxPoints
  BY <1>2, ScoreBounds, ScoringAssumption
<1>4. IsCorrect(selected, correct) \in BOOLEAN
  BY DEF IsCorrect
<1>5. 0 \in 0 .. MaxPoints
  BY ScoringAssumption
<1>6. TypeOK'
  <2>1. answers' \in [Players -> [ms : 0 .. Limit, right : BOOLEAN,
                                 score : 0 .. MaxPoints, given : BOOLEAN]]
    <3> DEFINE a == [ms |-> ResponseTime(clock), right |-> IsCorrect(selected, correct),
                     score |-> IF IsCorrect(selected, correct)
                               THEN Worth(points, ResponseTime(clock)) ELSE 0,
                     given |-> TRUE]
    <3>1. a \in [ms : 0 .. Limit, right : BOOLEAN, score : 0 .. MaxPoints, given : BOOLEAN]
      BY <1>2, <1>3, <1>4, <1>5
    <3>2. answers' = [answers EXCEPT ![p] = a]
      BY <1>1
    <3> HIDE DEF a
    <3>. QED
      BY <3>1, <3>2 DEF IInv, TypeOK
  <2>. QED
    BY <2>1 DEF IInv, TypeOK, Answer
<1>7. ScoredByCalc'
  <2>1. points' = points
    BY DEF Answer
  <2>2. ASSUME NEW q \in Players
        PROVE  answers'[q].score
                 = IF answers'[q].right THEN Worth(points, answers'[q].ms) ELSE 0
    <3>1. CASE q = p
      BY <1>1, <3>1 DEF IInv, TypeOK
    <3>2. CASE q # p
      BY <1>1, <3>2 DEF IInv, TypeOK, ScoredByCalc
    <3>. QED
      BY <3>1, <3>2
  <2>. QED
    BY <2>1, <2>2 DEF ScoredByCalc
<1>8. BoardIsSorted'
  BY DEF Answer, BoardIsSorted
<1>. QED
  BY <1>6, <1>7, <1>8 DEF IInv

\* A function on 1 .. n is a sequence.
LEMMA FunctionIsSequence ==
  ASSUME NEW S, NEW n \in Nat, NEW f \in [1 .. n -> S]
  PROVE  f \in Seq(S) /\ Len(f) = n
  OBVIOUS

\* A board is a sequence of players.
LEMMA BoardsAreSequences ==
  ASSUME NEW present \in SUBSET Players, NEW total, NEW b \in Boards(present, total)
  PROVE  /\ b \in Seq(Players) /\ Len(b) = Cardinality(present)
         /\ Cardinality(present) \in Nat /\ IsFiniteSet(present)
<1>1. IsFiniteSet(present) /\ Cardinality(present) \in Nat
  BY FS_Subset, FS_CardinalityType, ScoringAssumption
<1>2. b \in [1 .. Cardinality(present) -> present]
  BY DEF Boards, Injection
<1>3. b \in [1 .. Cardinality(present) -> Players]
  BY <1>2
<1>. QED
  BY <1>1, <1>3, FunctionIsSequence

\* The end of the question keeps the invariant, and ranks the players.
LEMMA FinishStep ==
  ASSUME IInv, Finish
  PROVE  IInv'
<1>1. board' \in Boards(Players \ gone, scores')
  BY DEF Finish
<1>2. board' \in Seq(Players)
  BY <1>1, BoardsAreSequences
<1>3. scores' \in [Players -> Nat]
  <2>1. \A p \in Players : scores[p] \in Nat /\ answers[p].score \in Nat
    BY DEF IInv, TypeOK
  <2>. QED
    BY <2>1 DEF Finish
<1>4. TypeOK'
  BY <1>2, <1>3 DEF IInv, TypeOK, Finish
<1>5. ScoredByCalc'
  BY DEF IInv, ScoredByCalc, Finish
<1>6. BoardIsSorted'
  BY <1>1 DEF BoardIsSorted, Boards, Finish
<1>. QED
  BY <1>4, <1>5, <1>6 DEF IInv

\* So does a departure: the board may rank somebody who has left.
LEMMA LeaveStep ==
  ASSUME IInv, NEW p \in Players, Leave(p)
  PROVE  IInv'
<1>1. TypeOK' /\ ScoredByCalc'
  BY DEF Leave, IInv, TypeOK, ScoredByCalc
<1>2. BoardIsSorted'
  <2>1. gone \subseteq gone' /\ board' = board /\ scores' = scores
    BY DEF Leave
  <2>. QED
    BY <2>1 DEF IInv, BoardIsSorted, Boards
<1>. QED
  BY <1>1, <1>2 DEF IInv

\* Every step of a question keeps the invariant.
LEMMA NextInv == IInv /\ [Next]_vars => IInv'
<1> SUFFICES ASSUME IInv, [Next]_vars PROVE IInv'
  OBVIOUS
<1>1. CASE Pass
  BY <1>1, ScoringAssumption DEF Pass, IInv, TypeOK, ScoredByCalc, BoardIsSorted
<1>3. CASE UNCHANGED vars
  BY <1>3 DEF vars, IInv, TypeOK, ScoredByCalc, BoardIsSorted, Boards
<1>. QED
  BY <1>1, <1>3, AnswerStep, LeaveStep, FinishStep DEF Next

\* The inductive invariant of Scoring.
LEMMA Invariance == Spec => []IInv
  BY InitInv, NextInv, PTL DEF Spec

-----------------------------------------------------------------------------
\* The types of a question's state (handleAnswerSubmit, finishQuestion).
THEOREM TypeCorrect == Spec => []TypeOK
  BY Invariance, PTL DEF IInv

\* Of two right answers the earlier is worth at least as much, however calcScore's float
\* arithmetic rounds.
THEOREM EarlierIsNotWorse == Spec => []FasterIsNeverWorse
<1>1. IInv => FasterIsNeverWorse
  <2> SUFFICES ASSUME IInv, NEW p \in Players, NEW q \in Players,
                      answers[p].right, answers[q].right, answers[p].ms <= answers[q].ms
               PROVE  answers[p].score >= answers[q].score
    BY DEF FasterIsNeverWorse
  <2>1. /\ answers[p].ms \in 0 .. Limit /\ answers[q].ms \in 0 .. Limit
        /\ points \in 1 .. MaxPoints
    BY DEF IInv, TypeOK
  <2>2. /\ answers[p].score = Worth(points, answers[p].ms)
        /\ answers[q].score = Worth(points, answers[q].ms)
    BY DEF IInv, ScoredByCalc
  <2>3. Worth(points, answers[q].ms) <= Worth(points, answers[p].ms)
    BY <2>1, ScoreMonotone
  <2>. QED
    BY <2>1, <2>2, <2>3, WorthIsNat
<1>. QED
  BY <1>1, Invariance, PTL

\* calcScore gives a right answer between half the points and all of them, a wrong one
\* nothing.
THEOREM ScoresAreBounded == Spec => []WorthIsBounded
<1>1. IInv => WorthIsBounded
  <2> SUFFICES ASSUME IInv, NEW p \in Players
               PROVE  IF answers[p].right
                      THEN points <= 2 * answers[p].score /\ answers[p].score <= points
                      ELSE answers[p].score = 0
    BY DEF WorthIsBounded
  <2>1. answers[p].ms \in 0 .. Limit /\ points \in 1 .. MaxPoints
    BY DEF IInv, TypeOK
  <2>2. answers[p].score = IF answers[p].right THEN Worth(points, answers[p].ms) ELSE 0
    BY DEF IInv, ScoredByCalc
  <2>3. Worth(points, answers[p].ms) \in 0 .. points
        /\ points <= 2 * Worth(points, answers[p].ms)
    BY <2>1, ScoreBounds
  <2>. QED
    BY <2>1, <2>2, <2>3
<1>. QED
  BY <1>1, Invariance, PTL

\* calcScore is fair: both of the above.
THEOREM WorthSafety == Spec => []WorthIsFair
  BY EarlierIsNotWorse, ScoresAreBounded, PTL DEF WorthIsFair

\* An interval of positions has as many elements as its last number.
LEMMA IntervalSize ==
  ASSUME NEW i \in Nat \ {0}
  PROVE  IsFiniteSet(1 .. (i - 1)) /\ Cardinality(1 .. (i - 1)) = i - 1
<1>1. i - 1 \in Int /\ 1 \in Int
  OBVIOUS
<1>2. /\ IsFiniteSet(1 .. (i - 1))
      /\ Cardinality(1 .. (i - 1)) = IF 1 > i - 1 THEN 0 ELSE (i - 1) - 1 + 1
  BY <1>1, FS_Interval
<1>. QED
  BY <1>2

\* A function that is injective on a finite set has an image of the same size.
LEMMA ImageOfInjection ==
  ASSUME NEW D, IsFiniteSet(D), NEW f, \A x, y \in D : f[x] = f[y] => x = y
  PROVE  /\ IsFiniteSet({f[x] : x \in D})
         /\ Cardinality({f[x] : x \in D}) = Cardinality(D)
<1> DEFINE T == {f[x] : x \in D}
           g == [x \in D |-> f[x]]
<1>1. g \in [D -> T]
  OBVIOUS
<1>2. g \in Surjection(D, T)
  BY <1>1 DEF Surjection
<1>3. g \in Injection(D, T)
  BY <1>1 DEF Injection, IsInjective
<1> HIDE DEF g, T
<1>4. IsFiniteSet(T) /\ (Cardinality(T) = Cardinality(D) <=> g \in Injection(D, T))
  BY <1>2, FS_Surjection
<1>. QED
  BY <1>3, <1>4 DEF T

\* The first positions of a board, as an injection into the players before position i.
LEMMA PlacesBefore ==
  ASSUME IInv, NEW i \in 1 .. Len(board)
  PROVE  LET p      == board[i]
             higher == {q \in Players : scores[q] > scores[p]}
             ties   == {q \in Players \ {p} : scores[q] = scores[p]}
             first  == {board[j] : j \in 1 .. (i - 1)}
         IN  /\ p \in Players
             /\ IsFiniteSet(first) /\ Cardinality(first) = i - 1
             /\ first \subseteq higher \cup ties
             /\ gone = {} => higher \subseteq first
<1>a. board # <<>>
  <2>1. Len(<<>>) = 0
    OBVIOUS
  <2>. QED
    BY <2>1 DEF IInv, TypeOK
<1>0. PICK left \in SUBSET gone : board \in Boards(Players \ left, scores)
  BY <1>a DEF IInv, BoardIsSorted
<1> DEFINE p      == board[i]
           higher == {q \in Players : scores[q] > scores[p]}
           ties   == {q \in Players \ {p} : scores[q] = scores[p]}
           first  == {board[j] : j \in 1 .. (i - 1)}
           n      == Cardinality(Players \ left)
<1>1. board \in Boards(Players \ left, scores)
  BY <1>0
<1>2. Len(board) = n /\ n \in Nat /\ IsFiniteSet(Players \ left)
  BY <1>1, BoardsAreSequences
<1>3. /\ board \in Injection(1 .. n, Players \ left)
      /\ \A j, k \in 1 .. n : j < k => scores[board[j]] >= scores[board[k]]
  BY <1>1 DEF Boards, NotBehind
<1>4. /\ board \in [1 .. n -> Players \ left]
      /\ \A j, k \in 1 .. n : board[j] = board[k] => j = k
  BY <1>3 DEF Injection, IsInjective
<1>5. i \in 1 .. n /\ p \in Players /\ scores \in [Players -> Nat]
  BY <1>2, <1>4 DEF IInv, TypeOK
<1>6. IsFiniteSet(first) /\ Cardinality(first) = i - 1
  <2> HIDE DEF n
  <2>1. i \in Nat \ {0} /\ i <= n
    BY <1>2, <1>5
  <2>2. \A j \in 1 .. (i - 1) : j \in 1 .. n
    BY <1>2, <2>1
  <2>3. \A j, k \in 1 .. (i - 1) : board[j] = board[k] => j = k
    BY <1>4, <2>2
  <2> DEFINE D == 1 .. (i - 1)
  <2>4. IsFiniteSet(D) /\ Cardinality(D) = i - 1
    BY <2>1, IntervalSize
  <2>5. \A j, k \in D : board[j] = board[k] => j = k
    BY <2>3
  <2>6. first = {board[j] : j \in D}
    OBVIOUS
  <2> HIDE DEF D, first
  <2>7. IsFiniteSet({board[j] : j \in D}) /\ Cardinality({board[j] : j \in D}) = Cardinality(D)
    BY <2>4, <2>5, ImageOfInjection
  <2>. QED
    BY <2>4, <2>6, <2>7
<1>7. first \subseteq higher \cup ties
  <2> SUFFICES ASSUME NEW j \in 1 .. (i - 1) PROVE board[j] \in higher \cup ties
    OBVIOUS
  <2>1. j \in 1 .. n /\ j < i /\ j # i
    BY <1>2, <1>5
  <2>2. board[j] \in Players /\ board[j] # p /\ scores[board[j]] >= scores[p]
    BY <1>3, <1>4, <1>5, <2>1
  <2>. QED
    BY <1>5, <2>2
<1>8. ASSUME gone = {} PROVE higher \subseteq first
  <2>1. Players \ left = Players
    BY <1>0, <1>8
  <2>2. IsFiniteSet(1 .. n) /\ Cardinality(1 .. n) = n
    BY <1>2, FS_Interval
  <2>3. board \in Surjection(1 .. n, Players)
    BY <1>2, <1>3, <2>1, <2>2, FS_Injection
  <2> SUFFICES ASSUME NEW q \in Players, scores[q] > scores[p] PROVE q \in first
    OBVIOUS
  <2>4. PICK k \in 1 .. n : board[k] = q
    BY <2>3 DEF Surjection
  <2>5. ~(i < k) /\ k # i
    <3>1. scores[q] \in Nat /\ scores[p] \in Nat
      BY <1>5
    <3>2. i < k => scores[p] >= scores[q]
      BY <1>3, <1>5, <2>4
    <3>. QED
      BY <2>4, <3>1, <3>2
  <2>6. k \in 1 .. (i - 1)
    BY <1>2, <1>5, <2>5
  <2>. QED
    BY <2>4, <2>6
<1>. QED
  BY <1>5, <1>6, <1>7, <1>8

\* The rank shown and the rank of ListHistory differ by ties and absent players only.
THEOREM RanksAgree == Spec => []RankAgreesWithHistory
<1>1. IInv => RankAgreesWithHistory
  <2> SUFFICES ASSUME IInv, NEW i \in 1 .. Len(board)
               PROVE  LET p    == board[i]
                          ties == Cardinality({q \in Players \ {p} : scores[q] = scores[p]})
                      IN  /\ i <= HistoryRank(p) + ties
                          /\ gone = {} => HistoryRank(p) <= i
    BY DEF RankAgreesWithHistory
  <2> DEFINE p      == board[i]
             higher == {q \in Players : scores[q] > scores[p]}
             ties   == {q \in Players \ {p} : scores[q] = scores[p]}
             first  == {board[j] : j \in 1 .. (i - 1)}
  <2>1. /\ p \in Players /\ IsFiniteSet(first) /\ Cardinality(first) = i - 1
        /\ first \subseteq higher \cup ties
        /\ gone = {} => higher \subseteq first
    BY PlacesBefore
  <2>2. /\ IsFiniteSet(higher) /\ IsFiniteSet(ties) /\ IsFiniteSet(higher \cup ties)
        /\ Cardinality(higher) \in Nat /\ Cardinality(ties) \in Nat
    <3>1. higher \in SUBSET Players /\ ties \in SUBSET Players
      OBVIOUS
    <3> HIDE DEF higher, ties
    <3>. QED
      BY <3>1, FS_Subset, FS_Union, FS_CardinalityType, ScoringAssumption
  <2>3. Cardinality(higher \cup ties) = Cardinality(higher) + Cardinality(ties)
    <3>1. scores \in [Players -> Nat]
      BY DEF IInv, TypeOK
    <3>2. higher \cap ties = {}
      BY <2>1, <3>1
    <3>3. Cardinality({}) = 0
      BY FS_EmptySet
    <3> HIDE DEF higher, ties
    <3>4. Cardinality(higher \cup ties)
            = Cardinality(higher) + Cardinality(ties) - Cardinality(higher \cap ties)
      BY <2>2, FS_Union
    <3>5. Cardinality(higher \cap ties) = 0
      BY <3>2, <3>3
    <3>. QED
      BY <2>2, <3>4, <3>5
  <2>4. HistoryRank(p) = 1 + Cardinality(higher)
    BY DEF HistoryRank
  <2>5. i \in Nat
    BY DEF IInv, TypeOK
  <2> HIDE DEF higher, ties, first
  <2>6. i <= HistoryRank(p) + Cardinality(ties)
    <3>1. Cardinality(first) <= Cardinality(higher \cup ties)
      BY <2>1, <2>2, FS_Subset
    <3>. QED
      BY <2>1, <2>2, <2>3, <2>4, <2>5, <3>1
  <2>7. ASSUME gone = {} PROVE HistoryRank(p) <= i
    <3>1. Cardinality(higher) <= Cardinality(first)
      BY <2>1, <2>7, FS_Subset
    <3>. QED
      BY <2>1, <2>2, <2>4, <2>5, <3>1
  <2>. QED
    BY <2>6, <2>7 DEF ties
<1>. QED
  BY <1>1, Invariance, PTL

-----------------------------------------------------------------------------
(***************************************************************************)
(* The end of the game, and the results pages.                             *)
(***************************************************************************)
\* The final ranking is one of players of the last leaderboard, and of all who are here.
FinalIsSorted ==
  over => /\ board # <<>>
          /\ \E left \in SUBSET gone : final \in Boards(Players \ left, scores)
          /\ Range(final) \subseteq Range(board)

RInv == IInv /\ FinalIsSorted

-----------------------------------------------------------------------------
\* A ranking of the players in S has every one of them, once.
LEMMA BoardIsPermutation ==
  ASSUME NEW S \in SUBSET Players, NEW total, NEW b, b \in Boards(S, total),
         NEW n, n = Cardinality(S)
  PROVE  /\ n \in Nat /\ IsFiniteSet(S) /\ Len(b) = n /\ b \in [1 .. n -> S]
         /\ \A i, j \in 1 .. n : b[i] = b[j] => i = j
         /\ \A x \in S : \E i \in 1 .. n : b[i] = x
         /\ \A i, j \in 1 .. n : i < j => total[b[i]] >= total[b[j]]
         /\ Range(b) = S
<1>1. n \in Nat /\ IsFiniteSet(S) /\ Len(b) = n
  BY BoardsAreSequences
<1>2. b \in Injection(1 .. n, S) /\ \A i, j \in 1 .. n : i < j => total[b[i]] >= total[b[j]]
  BY DEF Boards, NotBehind
<1>3. b \in [1 .. n -> S] /\ \A i, j \in 1 .. n : b[i] = b[j] => i = j
  BY <1>2 DEF Injection, IsInjective
<1>4. IsFiniteSet(1 .. n) /\ Cardinality(1 .. n) = n
  BY <1>1, FS_Interval
<1>5. b \in Surjection(1 .. n, S)
  BY <1>1, <1>2, <1>4, FS_Injection
<1>6. \A x \in S : \E i \in 1 .. n : b[i] = x
  BY <1>5 DEF Surjection
<1>7. Range(b) = S
  BY <1>3, <1>6 DEF Range
<1>. QED
  BY <1>1, <1>2, <1>3, <1>6, <1>7

\* Two rankings of the same players have the same scores, place by place.
LEMMA SortedTwice ==
  ASSUME NEW S \in SUBSET Players, NEW total \in [Players -> Nat],
         NEW b \in Boards(S, total), NEW c \in Boards(S, total),
         NEW k \in 1 .. Cardinality(S)
  PROVE  total[b[k]] <= total[c[k]]
<1> DEFINE n == Cardinality(S)
<1>1. /\ n \in Nat /\ IsFiniteSet(S) /\ b \in [1 .. n -> S]
      /\ \A i, j \in 1 .. n : b[i] = b[j] => i = j
      /\ \A i, j \in 1 .. n : i < j => total[b[i]] >= total[b[j]]
  BY BoardIsPermutation
<1>2. /\ c \in [1 .. n -> S]
      /\ \A i, j \in 1 .. n : c[i] = c[j] => i = j
      /\ \A x \in S : \E i \in 1 .. n : c[i] = x
      /\ \A i, j \in 1 .. n : i < j => total[c[i]] >= total[c[j]]
  BY BoardIsPermutation
<1> HIDE DEF n
<1>3. k \in 1 .. n /\ k \in Nat \ {0}
  BY <1>1 DEF n
<1> SUFFICES ASSUME total[c[k]] < total[b[k]] PROVE FALSE
  <2>1. total[b[k]] \in Nat /\ total[c[k]] \in Nat
    BY <1>1, <1>2, <1>3
  <2>. QED
    BY <2>1
<1> DEFINE D == 1 .. k
           E == 1 .. (k - 1)
           T == {b[j] : j \in D}
           U == {c[j] : j \in E}
<1>4. IsFiniteSet(T) /\ Cardinality(T) = k
  <2>1. IsFiniteSet(D) /\ Cardinality(D) = k
    BY <1>3, FS_Interval
  <2>2. \A i, j \in D : b[i] = b[j] => i = j
    BY <1>1, <1>3
  <2> HIDE DEF D
  <2>. QED
    BY <2>1, <2>2, ImageOfInjection
<1>5. IsFiniteSet(U) /\ Cardinality(U) = k - 1
  <2>1. IsFiniteSet(E) /\ Cardinality(E) = k - 1
    BY <1>3, IntervalSize
  <2>2. \A j \in E : j \in 1 .. n
    BY <1>1, <1>3
  <2>3. \A i, j \in E : c[i] = c[j] => i = j
    BY <1>2, <2>2
  <2> HIDE DEF E
  <2>. QED
    BY <2>1, <2>3, ImageOfInjection
<1>6. T \subseteq U
  <2> SUFFICES ASSUME NEW j \in D PROVE b[j] \in U
    OBVIOUS
  <2>1. j \in 1 .. n /\ (j = k \/ j < k)
    BY <1>1, <1>3
  <2>2. total[b[j]] \in Nat /\ total[b[k]] \in Nat /\ total[c[k]] \in Nat
    BY <1>1, <1>2, <1>3, <2>1
  <2>3. total[b[j]] > total[c[k]]
    <3>1. total[b[j]] >= total[b[k]]
      BY <1>1, <1>3, <2>1, <2>2
    <3>. QED
      BY <2>2, <3>1
  <2>4. PICK m \in 1 .. n : c[m] = b[j]
    BY <1>1, <1>2, <2>1
  <2>5. m < k
    <3>1. m # k /\ ~(k < m)
      BY <1>2, <1>3, <2>2, <2>3, <2>4
    <3>. QED
      BY <1>1, <1>3, <3>1
  <2>6. m \in E
    BY <1>1, <1>3, <2>5
  <2>. QED
    BY <2>4, <2>6
<1> HIDE DEF T, U
<1>7. Cardinality(T) <= Cardinality(U)
  BY <1>4, <1>5, <1>6, FS_Subset
<1>. QED
  BY <1>3, <1>4, <1>5, <1>7

-----------------------------------------------------------------------------
\* The invariant holds when a question starts.
LEMMA InitResultsInv == InitResults => RInv
  BY InitInv DEF InitResults, RInv, FinalIsSorted

\* The end of the game ranks who is still here.
LEMMA FinishGameStep ==
  ASSUME RInv, FinishGame
  PROVE  RInv'
<1>1. IInv'
  BY DEF FinishGame, vars, RInv, IInv, TypeOK, ScoredByCalc, BoardIsSorted, Boards
<1>2. PICK left \in SUBSET gone : board \in Boards(Players \ left, scores)
  BY DEF RInv, IInv, BoardIsSorted, FinishGame
<1>3. Range(board) = Players \ left
  BY <1>2, BoardIsPermutation
<1>4. final' \in Boards(Players \ gone, scores)
  BY DEF FinishGame
<1>5. Range(final') = Players \ gone
  BY <1>4, BoardIsPermutation
<1>6. board' = board /\ scores' = scores /\ gone' = gone /\ board # <<>>
  BY DEF FinishGame, vars
<1>7. gone \in SUBSET gone' /\ final' \in Boards(Players \ gone, scores')
  BY <1>4, <1>6
<1>8. Range(final') \subseteq Range(board')
  BY <1>2, <1>3, <1>5, <1>6
<1>9. FinalIsSorted'
  BY <1>6, <1>7, <1>8 DEF FinalIsSorted, Boards
<1>. QED
  BY <1>1, <1>9 DEF RInv

\* Every step keeps the invariant.
LEMMA NextResultsInv == RInv /\ [NextResults]_resultVars => RInv'
<1> SUFFICES ASSUME RInv, [NextResults]_resultVars PROVE RInv'
  OBVIOUS
<1>1. CASE Question
  <2>1. IInv'
    BY <1>1, NextInv DEF Question, RInv
  <2>. QED
    BY <1>1, <2>1 DEF Question, RInv, FinalIsSorted
<1>2. CASE UNCHANGED resultVars
  <2>1. IInv'
    BY <1>2, NextInv DEF resultVars, RInv
  <2>2. FinalIsSorted'
    BY <1>2 DEF resultVars, vars, RInv, FinalIsSorted, Boards
  <2>. QED
    BY <2>1, <2>2 DEF RInv
<1>. QED
  BY <1>1, <1>2, FinishGameStep DEF NextResults

\* A player who is in both rankings has one row, and its score if the rankings have the
\* same players.
LEMMA OneMarkedRow ==
  ASSUME RInv, over, NEW p \in Players, Places(final, p) # {}
  PROVE  /\ \E r \in Marked(p) : Marked(p) = {r}
         /\ Range(final) = Range(board) => \A r \in Marked(p) : scores[r.who] = scores[p]
<1>1. PICK left \in SUBSET gone : board \in Boards(Players \ left, scores)
  BY DEF RInv, IInv, BoardIsSorted, FinalIsSorted
<1>2. PICK missing \in SUBSET gone : final \in Boards(Players \ missing, scores)
  BY DEF RInv, FinalIsSorted
<1> DEFINE m == Cardinality(Players \ left)
           n == Cardinality(Players \ missing)
           k == MyRank(p)
<1>n. m = Cardinality(Players \ left) /\ n = Cardinality(Players \ missing)
  OBVIOUS
<1> HIDE DEF m, n
<1>a. Players \ left \in SUBSET Players /\ Players \ missing \in SUBSET Players
  OBVIOUS
<1>3. /\ m \in Nat /\ Len(board) = m /\ board \in [1 .. m -> Players \ left]
      /\ Range(board) = Players \ left
  BY <1>a, <1>n, <1>1, BoardIsPermutation
<1>4. /\ n \in Nat /\ Len(final) = n /\ final \in [1 .. n -> Players \ missing]
      /\ Range(final) = Players \ missing
  BY <1>a, <1>n, <1>2, BoardIsPermutation
<1>5. k \in 1 .. m /\ board[k] = p
  <2>1. PICK i \in 1 .. n : final[i] = p
    BY <1>4 DEF Places
  <2>2. p \in Range(board)
    BY <1>4, <2>1 DEF RInv, FinalIsSorted
  <2>3. Places(board, p) # {}
    BY <1>3, <2>2 DEF Places, Range
  <2>. QED
    BY <1>3, <2>3 DEF MyRank, Places
<1> HIDE DEF k
<1>6. Podium \cup RunnerUps = 1 .. n
  BY <1>4, ResultsAssumption DEF Podium, RunnerUps
<1>7. /\ \A i \in 1 .. n : Row(i, p).who = final[i] /\ (Row(i, p).self <=> k = i)
      /\ Rows(p) = {Row(i, p) : i \in 1 .. n} \cup OwnRow(p)
  BY <1>6 DEF Row, Rows, k
<1>8. CASE k <= n
  <2>1. k \in 1 .. n /\ OwnRow(p) = {}
    BY <1>3, <1>4, <1>5, <1>8 DEF OwnRow, k
  <2>2. Marked(p) = {Row(k, p)} /\ Row(k, p).who = final[k]
    BY <1>7, <2>1 DEF Marked
  <2>3. ASSUME Range(final) = Range(board) PROVE scores[final[k]] = scores[p]
    <3>1. Players \ left = Players \ missing
      BY <1>3, <1>4, <2>3
    <3>2. scores \in [Players -> Nat] /\ k \in 1 .. Cardinality(Players \ missing)
      BY <2>1 DEF n, RInv, IInv, TypeOK
    <3>3. board \in Boards(Players \ missing, scores)
      BY <1>1, <3>1
    <3>4. scores[board[k]] <= scores[final[k]] /\ scores[final[k]] <= scores[board[k]]
      BY <1>a, <1>2, <3>2, <3>3, SortedTwice
    <3>5. scores[final[k]] \in Nat /\ scores[p] \in Nat
      BY <1>4, <2>1, <3>2
    <3>. QED
      BY <1>5, <3>4, <3>5
  <2>. QED
    BY <2>2, <2>3
<1>9. CASE k > n
  <2>1. OwnRow(p) = {[rank |-> k, who |-> p, self |-> TRUE]}
    BY <1>3, <1>4, <1>5, <1>9 DEF OwnRow, k
  <2>2. Marked(p) = {[rank |-> k, who |-> p, self |-> TRUE]}
    <3>1. \A i \in 1 .. n : k # i
      BY <1>3, <1>4, <1>5, <1>9
    <3>2. \A i \in 1 .. n : ~Row(i, p).self
      BY <1>7, <3>1
    <3>. QED
      BY <1>7, <2>1, <3>2 DEF Marked
  <2>. QED
    BY <2>2
<1>. QED
  BY <1>3, <1>4, <1>5, <1>8, <1>9

\* The host's page has everybody who stayed, in the order of their scores.
LEMMA HostRowsAreSorted ==
  ASSUME RInv, over
  PROVE  /\ \A w \in Winner, p \in Players \ gone : scores[w] >= scores[p]
         /\ \A p \in Players \ gone : \E r \in HostRows : r.who = p
         /\ \A r, s \in HostRows : r.rank < s.rank => scores[r.who] >= scores[s.who]
<1>1. PICK missing \in SUBSET gone : final \in Boards(Players \ missing, scores)
  BY DEF RInv, FinalIsSorted
<1> DEFINE n == Cardinality(Players \ missing)
<1>2. Players \ missing \in SUBSET Players /\ n = Cardinality(Players \ missing)
  OBVIOUS
<1> HIDE DEF n
<1>3. /\ n \in Nat /\ Len(final) = n /\ final \in [1 .. n -> Players \ missing]
      /\ Range(final) = Players \ missing
      /\ \A i, j \in 1 .. n : i < j => scores[final[i]] >= scores[final[j]]
  BY <1>1, <1>2, BoardIsPermutation
<1>4. Podium \cup RunnerUps = 1 .. n
  BY <1>3, ResultsAssumption DEF Podium, RunnerUps
<1>5. HostRows = {[rank |-> i, who |-> final[i]] : i \in 1 .. n}
  BY <1>4 DEF HostRows
<1>6. ASSUME NEW p \in Players \ gone
      PROVE  /\ \E r \in HostRows : r.who = p
             /\ \A w \in Winner : scores[w] >= scores[p]
  <2>1. PICK i \in 1 .. n : final[i] = p
    BY <1>3 DEF Range
  <2>2. [rank |-> i, who |-> final[i]] \in HostRows
    BY <1>5
  <2>3. scores[p] \in Nat
    BY DEF RInv, IInv, TypeOK
  <2>4. ASSUME NEW w \in Winner PROVE scores[w] >= scores[p]
    <3>1. w = final[1] /\ 1 \in 1 .. n /\ (i = 1 \/ 1 < i)
      BY <1>3, <2>1 DEF Winner
    <3>. QED
      BY <1>3, <2>1, <2>3, <3>1
  <2>. QED
    BY <2>1, <2>2, <2>4
<1>7. ASSUME NEW r \in HostRows, NEW s \in HostRows, r.rank < s.rank
      PROVE  scores[r.who] >= scores[s.who]
  <2>1. PICK i \in 1 .. n : r = [rank |-> i, who |-> final[i]]
    BY <1>5
  <2>2. PICK j \in 1 .. n : s = [rank |-> j, who |-> final[j]]
    BY <1>5
  <2>. QED
    BY <1>3, <1>7, <2>1, <2>2
<1>. QED
  BY <1>6, <1>7

\* The page of a player has one row of theirs, with their score unless somebody left; the
\* host's has everybody who stayed, the best on top.
THEOREM OwnRowIsRight == ResultsSpec => []OwnRowIsMine
<1>1. RInv => OwnRowIsMine
  BY OneMarkedRow, HostRowsAreSorted DEF OwnRowIsMine
<1>. QED
  BY <1>1, InitResultsInv, NextResultsInv, PTL DEF ResultsSpec
=============================================================================
