-------------------------------- MODULE Room --------------------------------
(***************************************************************************)
(* One game room: the goroutine of backend/internal/realtime/room.go, with *)
(* the question timer goroutine it starts and the rows it writes.          *)
(*                                                                         *)
(* The room serves four channels with one select: register, unregister,   *)
(* inbound and the current question's timer.  Go picks among the ready     *)
(* ones at random, so nothing orders a client's registration, its messages *)
(* and its unregistration relative to each other: they sit in different    *)
(* channels.  Here a channel is the set of the clients waiting in it, and  *)
(* a message of any client whose connection was opened may be received at  *)
(* any time, its departure included; RoomIO gives the channels their order *)
(* and capacity.                                                           *)
(*                                                                         *)
(* A client stands for its participantID: a ticket is redeemed once, hence *)
(* no two connections of a room ever carry the same one.                   *)
(***************************************************************************)
EXTENDS Integers, Sequences, FiniteSets

CONSTANTS Players,     \* participants that are not the host
          Hosts,       \* the host's connections (one per create or resume)
          NoHost,      \* r.host before a host joined
          Quizzes,     \* the question lists the database may return at start
          Awards,      \* the values calcScore may return
          NoAnswer,    \* marks a question that a player has not answered
          DBMayFail    \* whether statements sent to the database may fail

Kinds == {"single", "multiple"}

ASSUME ClientsAssumption == /\ IsFiniteSet(Players)
                            /\ Players \cap Hosts = {}
                            /\ NoHost \notin Hosts
ASSUME QuizzesAssumption == Quizzes \subseteq Seq(Kinds)
ASSUME AwardsAssumption  == Awards \subseteq Nat /\ NoAnswer \notin Awards
ASSUME FailureAssumption == DBMayFail \in BOOLEAN

Clients == Players \cup Hosts
NoTimer == -1          \* r.questionFired = nil
Blank   == [p \in Players |-> NoAnswer]

VARIABLES
  \* connections, as the room's channels see them
  opened,              \* clients whose ServeWS reached the room
  registering,         \* clients in the register channel
  unregistering,       \* clients in the unregister channel
  ended,               \* clients whose readPump has ended
  \* the room, in memory
  clients, host, status, questions, currentIdx, questionActive,
  answers,             \* the award of each accepted answer, or NoAnswer
  scores, powerupsLeft, powerupUsed,
  questionFired,       \* the question whose timer the select listens to
  running,             \* questions whose timer goroutine is waiting
  fired,               \* questions whose timer channel is closed
  closedSend,          \* clients whose send channel is closed
  up,                  \* FALSE once a panic has ended the process
  \* the database
  dbStatus,            \* game_sessions.status
  rows,                \* participant_answers: the award stored, per question
  dbScore              \* game_participants.total_score

connVars  == <<opened, registering, unregistering, ended>>
peerVars  == <<clients, host, closedSend>>
timerVars == <<questionFired, running, fired>>
playVars  == <<currentIdx, questionActive, answers, powerupUsed, timerVars>>
dbVars    == <<dbStatus, rows, dbScore>>
gameVars  == <<status, questions, scores, powerupsLeft, playVars, dbVars>>
vars      == <<connVars, peerVars, gameVars, up>>

Indices  == UNION {0 .. (Len(q) - 1) : q \in Quizzes}
Answered(ans) == {p \in Players : ans[p] # NoAnswer}
Present  == clients \cap Players      \* the connected non-hosts

Init ==
  /\ opened = {} /\ registering = {} /\ unregistering = {} /\ ended = {}
  /\ clients = {} /\ host = NoHost /\ closedSend = {}
  /\ status = "lobby" /\ questions = <<>>
  /\ currentIdx = 0 /\ questionActive = FALSE
  /\ answers = Blank
  /\ scores = [p \in Players |-> 0]
  /\ powerupsLeft = [p \in Players |-> 0] /\ powerupUsed = {}
  /\ questionFired = NoTimer /\ running = {} /\ fired = {}
  /\ up = TRUE
  /\ dbStatus = "lobby"
  /\ rows = [p \in Players |-> [i \in Indices |-> NoAnswer]]
  /\ dbScore = [p \in Players |-> 0]

-----------------------------------------------------------------------------
(***************************************************************************)
(* Sending.  A send to a full buffer is dropped and changes nothing here;  *)
(* a send to a closed channel panics, and a panic in the room's goroutine  *)
(* ends the process.                                                       *)
(***************************************************************************)
SendTo(cs) == up' = (cs \cap closedSend = {})

\* An error reply to c, the only effect of a handler that refuses.
Refuse(c) == SendTo({c}) /\ UNCHANGED <<connVars, peerVars, gameVars>>

(***************************************************************************)
(* The environment: connections open and end; the timer goroutine fires.   *)
(***************************************************************************)
\* ServeWS hands a new client to the room.
Connect(c) ==
  /\ up /\ c \notin opened
  /\ opened' = opened \cup {c}
  /\ registering' = registering \cup {c}
  /\ UNCHANGED <<unregistering, ended, peerVars, gameVars, up>>

\* readPump ends: its deferred function unregisters the client.
Disconnect(c) ==
  /\ up /\ c \in opened \ ended
  /\ ended' = ended \cup {c}
  /\ unregistering' = unregistering \cup {c}
  /\ UNCHANGED <<opened, registering, peerVars, gameVars, up>>

\* The deadline of question i passes before its context is cancelled.
TimerExpire(i) ==
  /\ up /\ i \in running
  /\ running' = running \ {i}
  /\ fired' = fired \cup {i}
  /\ UNCHANGED <<connVars, peerVars, status, questions, scores, powerupsLeft,
                 currentIdx, questionActive, answers, powerupUsed,
                 questionFired, dbVars, up>>

-----------------------------------------------------------------------------
(***************************************************************************)
(* The question's life: the helpers every handler below shares.            *)
(***************************************************************************)
\* Mutant: the goroutine keeps waiting.
CancelTimerKeepsGoroutine ==
  questionFired' = NoTimer /\ UNCHANGED <<running, fired>>

\* cancelTimer: nobody listens to the timer any more, and its goroutine ends.
CancelTimer ==
  /\ questionFired' = NoTimer
  /\ running' = running \ {questionFired}
  /\ UNCHANGED fired

\* Mutant: the new timer is set before the old one is cancelled.
StartQuestionThenCancel(i) ==
  /\ currentIdx' = i /\ questionActive' = TRUE
  /\ answers' = Blank /\ powerupUsed' = {}
  /\ questionFired' = NoTimer
  /\ running' = running \ {questionFired} /\ UNCHANGED fired

\* startQuestion: cancel what ran, open question i with no answers, arm its timer.
StartQuestion(i) ==
  /\ currentIdx' = i
  /\ questionActive' = TRUE
  /\ answers' = Blank
  /\ powerupUsed' = {}
  /\ questionFired' = i
  /\ running' = (running \ {questionFired}) \cup {i}
  /\ UNCHANGED fired

\* What the statements of one call may do: all succeed, or some set of them fails.
Failures(ps) == IF DBMayFail THEN SUBSET ps ELSE {{}}

\* An answer's award as a number: an absent answer awards nothing.
Award(ans, p) == IF ans[p] = NoAnswer THEN 0 ELSE ans[p]

\* Mutant: only the connected players are credited.
CreditConnected(ans, p) == IF p \in clients THEN scores[p] + Award(ans, p) ELSE scores[p]

\* r.scores[p] += scoreAwarded, whether or not p is still connected.
Credit(ans, p) == scores[p] + Award(ans, p)

\* InsertParticipantAnswer: ON CONFLICT DO NOTHING keeps the row already there.
InsertRow(old, award) == IF old = NoAnswer THEN award ELSE old

\* finishQuestion, its effect on the scores and on the database: every answer in
\* ans is credited, stored and added to the player's total.  The two statements
\* of an answer fail separately and an error is only logged.
ScoreQuestion(ans) ==
  /\ scores' = [p \in Players |-> Credit(ans, p)]
  /\ \E notInserted \in Failures(Answered(ans)) :
       rows' = [p \in Players |->
         IF p \in Answered(ans) \ notInserted
         THEN [rows[p] EXCEPT ![currentIdx] = InsertRow(@, ans[p])]
         ELSE rows[p]]
  /\ \E notAdded \in Failures(Answered(ans)) :
       dbScore' = [p \in Players |->
         IF p \in notAdded THEN dbScore[p] ELSE dbScore[p] + Award(ans, p)]

\* finishQuestion(false) after a cancelled or handled timer.
CloseQuestion ==
  /\ questionActive' = FALSE
  /\ CancelTimer
  /\ UNCHANGED <<currentIdx, powerupUsed>>

\* finishGame; the error of FinishGameSession is ignored.  Its callers have
\* cancelled the timer, unless no question is open and there is none.
FinishGame ==
  /\ status' = "finished"
  /\ dbStatus' \in {"finished"} \cup (IF DBMayFail THEN {dbStatus} ELSE {})
  /\ CloseQuestion
  /\ UNCHANGED answers

\* advanceOrFinish
AdvanceOrFinish ==
  IF currentIdx + 1 >= Len(questions)
  THEN FinishGame
  ELSE StartQuestion(currentIdx + 1) /\ UNCHANGED <<status, dbStatus>>

-----------------------------------------------------------------------------
(***************************************************************************)
(* The handlers of the room's goroutine.                                   *)
(***************************************************************************)
HandleJoin(c) ==
  /\ up /\ c \in registering
  /\ registering' = registering \ {c}
  /\ clients' = clients \cup {c}
  /\ host' = IF c \in Hosts THEN c ELSE host
  /\ SendTo(IF c \in Hosts THEN {c} ELSE clients')
  /\ UNCHANGED <<opened, unregistering, ended, closedSend, gameVars>>

\* Mutant: the entry stays in the map.
RemoveClientKeepsEntry(c) == closedSend' = closedSend \cup {c} /\ UNCHANGED clients

\* The client leaves the map and its send channel is closed.
RemoveClient(c) ==
  /\ clients' = clients \ {c}
  /\ closedSend' = closedSend \cup {c}

\* A client that is not in the map, because its registration has not been
\* handled yet, is ignored: it will be registered later and never leave.
HandleLeave(c) ==
  /\ up /\ c \in unregistering
  /\ unregistering' = unregistering \ {c}
  /\ IF c \in clients
     THEN /\ RemoveClient(c)
          /\ up' = (c \notin closedSend /\ clients' \cap closedSend' = {})
     ELSE UNCHANGED <<clients, closedSend, up>>
  /\ UNCHANGED <<opened, registering, ended, host, gameVars>>

\* The select's timer case.
HandleTimer ==
  /\ up /\ questionFired \in fired
  /\ IF questionActive
     THEN /\ CloseQuestion
          /\ ScoreQuestion(answers)
          /\ SendTo(clients)
          /\ UNCHANGED answers
     ELSE /\ CancelTimer
          /\ UNCHANGED <<currentIdx, questionActive, answers, powerupUsed,
                         scores, rows, dbScore, up>>
  /\ UNCHANGED <<connVars, peerVars, status, questions, powerupsLeft, dbStatus>>

\* A message of c is received from the inbound channel.
Receive(c) == up /\ c \in opened

HandleParticipantReady(c) ==
  /\ Receive(c)
  /\ SendTo(clients)
  /\ UNCHANGED <<connVars, peerVars, gameVars>>

QuestionOpen == status = "in_progress" /\ questionActive

\* Mutant: the budget is not checked.
MayUsePowerupAlways(c) ==
  c \in Players /\ QuestionOpen /\ questions[currentIdx + 1] = "single"

\* The checks of handlePowerupUse and applyFiftyFifty; the only power-up hides
\* wrong options of a single-choice question.
MayUsePowerup(c) ==
  /\ c \in Players
  /\ QuestionOpen
  /\ powerupsLeft[c] > 0
  /\ c \notin powerupUsed
  /\ questions[currentIdx + 1] = "single"

HandlePowerupUse(c) ==
  /\ Receive(c)
  /\ \E wellFormed \in BOOLEAN :
       \/ /\ ~(wellFormed /\ MayUsePowerup(c))
          /\ Refuse(c)
       \/ /\ wellFormed /\ MayUsePowerup(c)
          /\ powerupsLeft' = [powerupsLeft EXCEPT ![c] = @ - 1]
          /\ powerupUsed' = powerupUsed \cup {c}
          /\ SendTo({c})
          /\ UNCHANGED <<connVars, peerVars, status, questions, scores, currentIdx,
                         questionActive, answers, timerVars, dbVars>>

\* Mutant: a finished game may be started again.
MayRestart(c) == c \in Hosts /\ status # "in_progress"

MayStart(c) == c \in Hosts /\ status = "lobby"

\* The players a power-up is granted to when the game starts.
Granted == Present

\* An empty quiz or a failed read is refused; a failed StartGameSession is ignored.
HandleHostStartGame(c) ==
  /\ Receive(c)
  /\ \/ ~MayStart(c) /\ Refuse(c)
     \/ MayStart(c) /\ (DBMayFail \/ <<>> \in Quizzes) /\ Refuse(c)
     \/ \E quiz \in Quizzes \ {<<>>} :
          /\ MayStart(c)
          /\ questions' = quiz
          /\ status' = "in_progress"
          /\ dbStatus' \in {"in_progress"} \cup (IF DBMayFail THEN {dbStatus} ELSE {})
          /\ powerupsLeft' = [p \in Players |-> IF p \in Granted THEN 1 ELSE powerupsLeft[p]]
          /\ StartQuestion(0)
          /\ SendTo(clients)
          /\ UNCHANGED <<connVars, peerVars, scores, rows, dbScore>>

\* Mutant: the status is not checked.
MayAdvanceAlways(c) == c \in Hosts /\ questions # <<>>

\* host.next_question and host.skip_question.
MayAdvance(c) == c \in Hosts /\ status = "in_progress"

\* Mutant: the last question is scored again when the host moves on.
ScoreOnEveryAdvance == ScoreQuestion(answers)

\* An open question ends early and what exists is scored.
ScoreOnAdvance ==
  IF questionActive THEN ScoreQuestion(answers) ELSE UNCHANGED <<scores, rows, dbScore>>

HandleHostAdvance(c) ==
  /\ Receive(c)
  /\ \/ ~MayAdvance(c) /\ Refuse(c)
     \/ /\ MayAdvance(c)
        /\ ScoreOnAdvance
        /\ AdvanceOrFinish
        /\ SendTo(clients)
        /\ UNCHANGED <<connVars, peerVars, questions, powerupsLeft>>

\* host.end_game: no check of the status, and the answers of an open question
\* are not scored.
HandleHostEndGame(c) ==
  /\ Receive(c)
  /\ \/ c \notin Hosts /\ Refuse(c)
     \/ /\ c \in Hosts
        /\ FinishGame
        /\ SendTo(clients)
        /\ UNCHANGED <<connVars, peerVars, questions, scores, powerupsLeft, rows, dbScore>>

\* Mutant: an answer may be replaced.
MayAnswerAgain(c) == c \in Players /\ QuestionOpen

MayAnswer(c) == c \in Players /\ QuestionOpen /\ answers[c] = NoAnswer

\* Mutant: the host's connection is counted too.
EveryoneAnsweredWithHost(ans) ==
  Present # {} /\ Cardinality(Answered(ans)) >= Cardinality(clients)

\* The auto-finish test compares two counts.
EveryoneAnswered(ans) ==
  Present # {} /\ Cardinality(Answered(ans)) >= Cardinality(Present)

HandleAnswerSubmit(c) ==
  /\ Receive(c)
  /\ \E wellFormed \in BOOLEAN :
       \/ ~(wellFormed /\ MayAnswer(c)) /\ Refuse(c)
       \/ /\ wellFormed /\ MayAnswer(c)
          /\ \E award \in Awards :
               LET accepted == [answers EXCEPT ![c] = award]
               IN  /\ answers' = accepted
                   /\ IF EveryoneAnswered(accepted)
                      THEN CloseQuestion /\ ScoreQuestion(accepted) /\ SendTo(clients)
                      ELSE UNCHANGED <<currentIdx, questionActive, powerupUsed,
                                       timerVars, scores, rows, dbScore, up>>
          /\ UNCHANGED <<connVars, peerVars, status, questions, powerupsLeft, dbStatus>>

\* handleMessage: the dispatch on the message's type (an unknown one is ignored).
HandleMessage(c) ==
  \/ HandleParticipantReady(c)
  \/ HandlePowerupUse(c)
  \/ HandleHostStartGame(c)
  \/ HandleHostAdvance(c)
  \/ HandleHostEndGame(c)
  \/ HandleAnswerSubmit(c)

Next ==
  \/ \E c \in Clients : \/ Connect(c)
                        \/ Disconnect(c)
                        \/ HandleJoin(c)
                        \/ HandleLeave(c)
                        \/ HandleMessage(c)
  \/ \E i \in Indices : TimerExpire(i)
  \/ HandleTimer

Spec == Init /\ [][Next]_vars

(***************************************************************************)
(* Fairness: a sleeping goroutine wakes up when its deadline passes, and   *)
(* the room's select, which picks at random, does not neglect a ready      *)
(* channel for ever.                                                       *)
(***************************************************************************)
Fairness == /\ WF_vars(\E i \in Indices : TimerExpire(i))
            /\ WF_vars(HandleTimer)

FairSpec == Spec /\ Fairness

-----------------------------------------------------------------------------
(***************************************************************************)
(* What the room promises.                                                 *)
(***************************************************************************)
ConnTypeOK ==
  /\ opened \subseteq Clients /\ registering \subseteq opened
  /\ ended \subseteq opened /\ unregistering \subseteq ended
  /\ clients \subseteq opened \ registering
  /\ closedSend \subseteq ended
  /\ host \in Hosts \cup {NoHost}
  /\ up \in BOOLEAN

PlayTypeOK ==
  /\ status \in {"lobby", "in_progress", "finished"}
  /\ questions \in Quizzes \cup {<<>>}
  /\ currentIdx \in Nat
  /\ questionActive \in BOOLEAN
  /\ answers \in [Players -> Awards \cup {NoAnswer}]
  /\ powerupsLeft \in [Players -> {0, 1}] /\ powerupUsed \subseteq Players
  /\ questionFired \in Nat \cup {NoTimer}
  /\ running \subseteq Indices /\ fired \subseteq Indices

LedgerTypeOK ==
  /\ scores \in [Players -> Nat]
  /\ dbStatus \in {"lobby", "in_progress", "finished"}
  /\ rows \in [Players -> [Indices -> Awards \cup {NoAnswer}]]
  /\ dbScore \in [Players -> Nat]

\* Every variable has its type; in particular a power-up budget is 0 or 1 and the
\* keys of the per-question maps are participants and questions of the quiz.
TypeOK == ConnTypeOK /\ PlayTypeOK /\ LedgerTypeOK

\* room.go's timer discipline: the select listens to a timer exactly while a
\* question is open, it is the timer of that question, that timer is waiting or has
\* fired, and no other timer goroutine is alive.  Broken by a cancel that is
\* forgotten on one of the five ways a question ends: a stale timer would cut the
\* next question short, a lost one would leave the room waiting for the host.
TimerFollowsQuestion ==
  /\ questionFired = IF questionActive THEN currentIdx ELSE NoTimer
  /\ running \subseteq {questionFired}
  /\ questionActive => /\ QuestionOpen
                       /\ currentIdx < Len(questions)
                       /\ currentIdx \in running \cup fired

\* Nobody the room broadcasts to has a closed send channel, so no broadcast panics:
\* a departure is out of the map for good before its channel is closed, and only a
\* reply to a departed client can hit a closed channel.
NoClosedReceivers == clients \cap closedSend = {}

\* InsertParticipantAnswer's ON CONFLICT DO NOTHING never swallows an answer: while
\* a question is open nobody has a row for it, and later questions have none.
InsertNeverConflicts ==
  \A p \in Players : \A i \in Indices :
    rows[p][i] # NoAnswer => i < currentIdx \/ (i = currentIdx /\ ~questionActive)

StatusRank == [lobby |-> 0, in_progress |-> 1, finished |-> 2]

\* However statements fail, the database trails the room: it never holds a total
\* above the player's score nor a status the room has not reached.
DatabaseNeverAhead ==
  /\ \A p \in Players : dbScore[p] <= scores[p]
  /\ StatusRank[dbStatus] <= StatusRank[status]

\* While no statement fails the database agrees with the room on the game's status
\* and on every player's total.
DatabaseAgrees == ~DBMayFail => dbStatus = status /\ dbScore = scores

\* The ledger of a room whose statements succeed is exact: no answer's row is dropped
\* as a duplicate, and status and totals are the room's at every step.
LedgerIsExact == InsertNeverConflicts /\ DatabaseAgrees

\* While no statement fails a score is what the stored answers add up to, question by
\* question (total): no answer is stored without being credited, credited twice, or
\* credited unstored, and none is stored beyond the game's quiz.
RowsExplainScores ==
  ~DBMayFail => \A p \in Players :
    /\ \A i \in Indices : rows[p][i] # NoAnswer => i < Len(questions)
    /\ \E total \in [0 .. Len(questions) -> 0 .. scores[p]] :
         /\ total[0] = 0 /\ total[Len(questions)] = scores[p]
         /\ \A i \in 1 .. Len(questions) : total[i] = total[i - 1] + Award(rows[p], i - 1)

ForwardStep ==
  /\ StatusRank[status'] >= StatusRank[status]
  /\ currentIdx' # currentIdx =>
       status = "in_progress" /\ currentIdx' = currentIdx + 1

\* A game only goes forward: the status never returns, and the question index moves
\* only while the game is in progress, one question at a time.
GameMovesForward == [][ForwardStep]_vars

FinalAnswerStep ==
  \A p \in Players : questionActive /\ answers[p] # NoAnswer =>
    IF questionActive' /\ currentIdx' = currentIdx
    THEN answers'[p] = answers[p] /\ scores'[p] = scores[p]
    ELSE \/ scores'[p] = scores[p] + answers[p]
         \/ \E h \in Hosts : HandleHostEndGame(h)

\* An accepted answer is final and counts once: while its question stays open it is
\* neither replaced nor credited, and the step that closes the question credits it
\* to its player, connected or not - unless the host ends the game, which drops it.
AnswersAreFinal == [][FinalAnswerStep]_vars

\* Scores move only when a question closes, and a closed question's answers are
\* never credited again: between two questions, in the lobby and after the end
\* every score stands still.
NoCreditOutsideQuestions == [][~questionActive => scores' = scores]_vars

\* An accepted answer counts exactly once, in the step that closes its question, and
\* nothing else moves a score.
AnswersCountOnce == AnswersAreFinal /\ NoCreditOutsideQuestions

ExactFinishStep ==
  /\ Answered(answers) # Answered(answers')
  /\ Answered(answers) \subseteq Answered(answers')
  /\ Answered(answers') \subseteq clients
  => (~questionActive' <=> Present \subseteq Answered(answers'))

\* When all who answered are still connected, comparing two counts is the same as
\* comparing the sets: the answer ends the question exactly when it is the last
\* one missing among the connected players.
AutoFinishExact == [][ExactFinishStep]_vars

\* Every question ends, whatever the host and the players do, unless a panic ends
\* the process first: its timer fires and the room handles it.
QuestionEnds ==
  \A i \in Indices :
    (questionActive /\ currentIdx = i) ~> (~up \/ ~questionActive \/ currentIdx # i)

-----------------------------------------------------------------------------
(***************************************************************************)
(* What a comment of the code says of it, and the code does not do.        *)
(***************************************************************************)
\* client.go:106 "sendMsg encodes and queues a message; non-blocking (drops on full
\* buffer).": sending to a client always returns, so the process stays up.
SendAlwaysReturns == up
=============================================================================
