------------------------------ MODULE Results ------------------------------
(***************************************************************************)
(* The end of a game, as its players see it: finishGame ranks the players  *)
(* anew, and the results page puts that ranking beside the rank and score  *)
(* which the store kept from the last leaderboard.update.  The payload has *)
(* the player's own rank too (me), which no page reads.                    *)
(***************************************************************************)
EXTENDS Scoring

CONSTANT PodiumSize        \* 3 in the code

ASSUME ResultsAssumption == PodiumSize \in Nat

VARIABLES
  over,                    \* game.finished was sent
  final                    \* its podium and runner-ups: players in the order of rank

resultVars == <<vars, over, final>>

InitResults == Init /\ over = FALSE /\ final = <<>>

Question == ~over /\ Next /\ UNCHANGED <<over, final>>

\* finishGame: whoever is in the room is sorted again, ties as they come.
FinishGame ==
  /\ board # <<>> /\ ~over
  /\ over' = TRUE
  /\ final' \in Boards(Players \ gone, scores)
  /\ UNCHANGED vars

NextResults == Question \/ FinishGame

ResultsSpec == InitResults /\ [][NextResults]_resultVars

-----------------------------------------------------------------------------
(***************************************************************************)
(* The results page of player p.                                           *)
(***************************************************************************)
Podium    == {i \in 1 .. Len(final) : i <= PodiumSize}
RunnerUps == {i \in 1 .. Len(final) : i > PodiumSize}
Places(seq, p) == {i \in 1 .. Len(seq) : seq[i] = p}

\* myRank: the place in the last leaderboard, 0 without one.
MyRank(p) == IF Places(board, p) = {} THEN 0 ELSE CHOOSE i \in Places(board, p) : TRUE

Row(i, p) == [rank |-> i, who |-> final[i], self |-> MyRank(p) = i]

\* Mutant: only the rows of the payload are shown.
OwnRowNever(p) == {}

\* "Вы", added when no row has the player's rank.
OwnRow(p) ==
  IF MyRank(p) > 0 /\ MyRank(p) \notin 1 .. Len(final)
  THEN {[rank |-> MyRank(p), who |-> p, self |-> TRUE]} ELSE {}

Rows(p)   == {Row(i, p) : i \in Podium \cup RunnerUps} \cup OwnRow(p)
Marked(p) == {r \in Rows(p) : r.self}

\* The host's page: the name of the first, and the same columns and rows, none marked.
Winner   == IF final = <<>> THEN {} ELSE {final[1]}
HostRows == {[rank |-> i, who |-> final[i]] : i \in Podium \cup RunnerUps}

-----------------------------------------------------------------------------
\* Each player whom the end of the game reaches finds one row marked as theirs.  When
\* nobody left since the last leaderboard it shows their score, although ties were
\* sorted twice and it may carry another's name.  The host reads a best score on top
\* and everybody who stayed, in the order of their scores.
\* (PlayerResultsPage and HostResultsPage against finishQuestion and finishGame)
OwnRowIsMine ==
  over =>
    /\ \A p \in Players : Places(final, p) # {} =>
         /\ \E r \in Marked(p) : Marked(p) = {r}
         /\ Range(final) = Range(board) =>
              \A r \in Marked(p) : scores[r.who] = scores[p]
    /\ \A w \in Winner, p \in Players \ gone : scores[w] >= scores[p]
    /\ \A p \in Players \ gone : \E r \in HostRows : r.who = p
    /\ \A r, s \in HostRows : r.rank < s.rank => scores[r.who] >= scores[s.who]
=============================================================================
