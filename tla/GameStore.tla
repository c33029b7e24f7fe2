----------------------------- MODULE GameStore -----------------------------
(***************************************************************************)
(* The frames of the live game's protocol and the browser's store that     *)
(* folds them: what `handle` makes of each message, without the socket     *)
(* that brings it.                                                         *)
(*                                                                         *)
(* A question is a pair <<game, index>>, an option a pair <<question,      *)
(* name>>.  Texts, labels and images are left out; a score is the number   *)
(* of right answers, and a leaderboard is known by the question it follows.*)
(***************************************************************************)
EXTENDS Integers, Sequences, FiniteSets

CONSTANTS Games,
          NQ,          \* questions in a game's quiz
          People,      \* participant ids
          None

Indexes   == 1 .. NQ
Questions == Games \X Indexes
Options   == Questions \X {"right", "wrong"}
Statuses  == {"none", "lobby", "in_progress", "finished"}

-----------------------------------------------------------------------------
(***************************************************************************)
(* Server to client.                                                       *)
(***************************************************************************)
Frames ==
       [type : {"room.state"}, game : Games, status : Statuses, who : SUBSET People]
  \cup [type : {"participant.joined", "participant.left", "participant.status"}, who : People]
  \cup [type : {"question.start"}, question : Questions]
  \cup [type : {"question.end"}, question : Questions, right : BOOLEAN, score : Nat]
  \cup [type : {"leaderboard.update"}, question : Questions, score : Nat]
  \cup [type : {"powerup.applied"}, hidden : SUBSET Options]
  \cup [type : {"game.finished"}, game : Games]
  \cup [type : {"error"}]

(***************************************************************************)
(* The store.                                                              *)
(***************************************************************************)
Rooms   == [game : Games, status : Statuses, who : SUBSET People, ready : SUBSET People]
Results == [question : Questions, right : BOOLEAN]

ASSUME StoreAssumption ==
  /\ NQ \in Nat \ {0}
  /\ None \notin Games \cup People \cup Questions \cup Options \cup Rooms \cup Results

Stores ==
  [room     : Rooms \cup {None},          \* roomState
   question : Questions \cup {None},      \* activeQuestion
   result   : Results \cup {None},        \* questionResult
   board    : Questions \cup {None},      \* leaderboard, by the question it follows
   answer   : Options \cup {None},        \* myAnswer
   score    : Nat,                        \* myScore
   me       : People \cup {None},         \* myParticipantId
   finished : Games \cup {None},          \* finishedPayload
   powerups : {0, 1},                     \* powerupsLeft
   hidden   : SUBSET Options]             \* hiddenOptionIds

\* What a page load and disconnect() leave.
Fresh ==
  [room |-> None, question |-> None, result |-> None, board |-> None, answer |-> None,
   score |-> 0, me |-> None, finished |-> None, powerups |-> 1, hidden |-> {}]

OnRoomState(s, m) ==
  [s EXCEPT !.room = [game |-> m.game, status |-> m.status, who |-> m.who, ready |-> {}]]

\* The three participant messages change a room state that is there.
OnJoined(s, m) ==
  IF s.room = None THEN s ELSE [s EXCEPT !.room.who = @ \cup {m.who}]

OnLeft(s, m) ==
  IF s.room = None THEN s
  ELSE [s EXCEPT !.room.who = @ \ {m.who}, !.room.ready = @ \ {m.who}]

OnStatus(s, m) ==
  IF s.room = None THEN s
  ELSE [s EXCEPT !.room.ready = @ \cup ({m.who} \cap s.room.who)]

\* Mutant: the choice made for the last question is kept.
OnStartKeepingAnswer(s, m) ==
  [s EXCEPT !.question = m.question, !.result = None, !.hidden = {}]

OnQuestionStart(s, m) ==
  [s EXCEPT !.question = m.question, !.result = None, !.answer = None, !.hidden = {}]

OnPowerup(s, m) == [s EXCEPT !.hidden = m.hidden]

\* Mutant: a result takes the choice off the screen.
OnEndForgettingAnswer(s, m) ==
  [s EXCEPT !.result = [question |-> m.question, right |-> m.right], !.score = m.score,
            !.answer = None]

OnQuestionEnd(s, m) ==
  [s EXCEPT !.result = [question |-> m.question, right |-> m.right], !.score = m.score]

OnBoard(s, m) == [s EXCEPT !.board = m.question, !.score = m.score]

OnFinished(s, m) == [s EXCEPT !.finished = m.game]

Handle(s, m) ==
  CASE m.type = "room.state"         -> OnRoomState(s, m)
    [] m.type = "participant.joined" -> OnJoined(s, m)
    [] m.type = "participant.left"   -> OnLeft(s, m)
    [] m.type = "participant.status" -> OnStatus(s, m)
    [] m.type = "question.start"     -> OnQuestionStart(s, m)
    [] m.type = "powerup.applied"    -> OnPowerup(s, m)
    [] m.type = "question.end"       -> OnQuestionEnd(s, m)
    [] m.type = "leaderboard.update" -> OnBoard(s, m)
    [] m.type = "game.finished"      -> OnFinished(s, m)
    [] OTHER                         -> s
=============================================================================
