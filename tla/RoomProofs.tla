----------------------------- MODULE RoomProofs -----------------------------
(***************************************************************************)
(* Proofs of Room's safety properties, for every set of players and hosts, *)
(* every set of quizzes and awards, with and without failing statements.   *)
(***************************************************************************)
EXTENDS Room, TLAPS, FiniteSetTheorems

\* A client is registered once: a closed channel's client never joins again.
JoinsOnce == closedSend \cap registering = {}

\* Before the start nothing has happened.
LobbyIsBlank ==
  status = "lobby" => /\ currentIdx = 0 /\ ~questionActive
                      /\ \A p \in Players : \A i \in Indices : rows[p][i] = NoAnswer

\* The inductive invariant, in three parts that disturb each other little: the
\* connections, the question being played, and the scores with their rows.
ConnInv   == ConnTypeOK /\ NoClosedReceivers /\ JoinsOnce
PlayInv   == PlayTypeOK /\ TimerFollowsQuestion
LedgerInv == LedgerTypeOK /\ InsertNeverConflicts /\ LobbyIsBlank /\ DatabaseNeverAhead
IInv      == ConnInv /\ PlayInv /\ LedgerInv

-----------------------------------------------------------------------------
(***************************************************************************)
(* Lemmas about the helpers.                                               *)
(***************************************************************************)

\* A question index of a quiz is a natural number, and every position of a loaded
\* quiz is an index.
LEMMA IndicesAreNat == Indices \subseteq Nat
  BY QuizzesAssumption DEF Indices

\* The current question's position is an index of the quiz.
LEMMA PositionIsIndex ==
  ASSUME NEW quiz \in Quizzes \cup {<<>>}, NEW i \in Nat, i < Len(quiz)
  PROVE  i \in Indices
<1>1. quiz \in Quizzes
  OBVIOUS
<1>2. Len(quiz) \in Nat /\ i \in 0 .. (Len(quiz) - 1)
  BY <1>1, QuizzesAssumption
<1>. QED
  BY <1>1, <1>2 DEF Indices

\* What an answer awards is a natural number.
LEMMA AwardIsNat ==
  ASSUME NEW ans \in [Players -> Awards \cup {NoAnswer}], NEW p \in Players
  PROVE  Award(ans, p) \in Nat
  BY AwardsAssumption DEF Award

\* The invariant holds in a new room.
LEMMA InitInv == Init => IInv
<1> SUFFICES ASSUME Init PROVE IInv
  OBVIOUS
<1>1. ConnInv
  BY DEF Init, ConnInv, ConnTypeOK, NoClosedReceivers, JoinsOnce
<1>2. PlayInv
  BY DEF Init, PlayInv, PlayTypeOK, TimerFollowsQuestion, NoTimer, Blank
<1>3. LedgerInv
  BY DEF Init, LedgerInv, LedgerTypeOK, InsertNeverConflicts, LobbyIsBlank,
         DatabaseNeverAhead, StatusRank
<1>. QED
  BY <1>1, <1>2, <1>3 DEF IInv

\* Scoring keeps the ledger's types, writes rows of the current question only, and
\* leaves every total at or below the player's score.
LEMMA ScoreKeepsLedger ==
  ASSUME LedgerTypeOK, \A p \in Players : dbScore[p] <= scores[p],
         currentIdx \in Indices,
         NEW ans \in [Players -> Awards \cup {NoAnswer}],
         ScoreQuestion(ans)
  PROVE  /\ scores' \in [Players -> Nat]
         /\ dbScore' \in [Players -> Nat]
         /\ rows' \in [Players -> [Indices -> Awards \cup {NoAnswer}]]
         /\ \A p \in Players : dbScore'[p] <= scores'[p]
         /\ \A p \in Players : \A i \in Indices :
              rows'[p][i] # NoAnswer => rows[p][i] # NoAnswer \/ i = currentIdx
<1> DEFINE D(N) == [p \in Players |-> IF p \in N THEN dbScore[p] ELSE dbScore[p] + Award(ans, p)]
           W(N) == [p \in Players |->
                      IF p \in Answered(ans) \ N
                      THEN [rows[p] EXCEPT ![currentIdx] = InsertRow(@, ans[p])]
                      ELSE rows[p]]
<1>1. PICK notInserted, notAdded \in Failures(Answered(ans)) :
        rows' = W(notInserted) /\ dbScore' = D(notAdded)
  BY DEF ScoreQuestion
<1>2. scores' = [p \in Players |-> scores[p] + Award(ans, p)]
  BY DEF ScoreQuestion, Credit
<1>3. \A p \in Players : Award(ans, p) \in Nat
  BY AwardIsNat
<1>4. /\ scores' \in [Players -> Nat]
      /\ dbScore' \in [Players -> Nat]
      /\ \A p \in Players : dbScore'[p] <= scores'[p]
  <2> HIDE DEF W
  <2>. QED
    BY <1>1, <1>2, <1>3 DEF LedgerTypeOK
<1>5. ASSUME NEW p \in Players
      PROVE  /\ rows'[p] \in [Indices -> Awards \cup {NoAnswer}]
             /\ \A i \in Indices :
                  rows'[p][i] # NoAnswer => rows[p][i] # NoAnswer \/ i = currentIdx
  <2>1. rows[p] \in [Indices -> Awards \cup {NoAnswer}] /\ ans[p] \in Awards \cup {NoAnswer}
    BY DEF LedgerTypeOK
  <2>2. InsertRow(rows[p][currentIdx], ans[p]) \in Awards \cup {NoAnswer}
    BY <2>1 DEF InsertRow
  <2>3. \/ rows'[p] = rows[p]
        \/ rows'[p] = [rows[p] EXCEPT ![currentIdx] = InsertRow(rows[p][currentIdx], ans[p])]
    BY <1>1
  <2>. QED
    BY <2>1, <2>2, <2>3
<1>6. rows' \in [Players -> [Indices -> Awards \cup {NoAnswer}]]
  <2>1. rows' = [p \in Players |-> rows'[p]]
    BY <1>1
  <2>. QED
    BY <1>5, <2>1
<1>. QED
  BY <1>4, <1>5, <1>6

\* A started question is well formed: one timer, its own, and an index of the quiz.
LEMMA StartKeepsPlay ==
  ASSUME PlayInv, NEW i \in Nat, StartQuestion(i),
         questions' \in Quizzes \cup {<<>>}, i < Len(questions'),
         status' = "in_progress", powerupsLeft' \in [Players -> {0, 1}]
  PROVE  PlayInv'
<1>1. i \in Indices
  BY PositionIsIndex
<1>2. /\ currentIdx' = i /\ questionActive' = TRUE
      /\ answers' = Blank /\ powerupUsed' = {}
      /\ questionFired' = i
      /\ running' = (running \ {questionFired}) \cup {i}
      /\ fired' = fired
  BY DEF StartQuestion
<1>3. PlayTypeOK'
  BY <1>1, <1>2 DEF PlayInv, PlayTypeOK, Blank
<1>4. TimerFollowsQuestion'
  BY <1>1, <1>2 DEF PlayInv, TimerFollowsQuestion, QuestionOpen
<1>. QED
  BY <1>3, <1>4 DEF PlayInv

\* A closed question leaves no timer behind.
LEMMA CloseKeepsPlay ==
  ASSUME PlayInv, CloseQuestion,
         status' \in {"lobby", "in_progress", "finished"},
         questions' = questions, powerupsLeft' = powerupsLeft,
         answers' \in [Players -> Awards \cup {NoAnswer}]
  PROVE  PlayInv'
<1>1. /\ questionActive' = FALSE /\ currentIdx' = currentIdx
      /\ powerupUsed' = powerupUsed
      /\ questionFired' = NoTimer
      /\ running' = running \ {questionFired}
      /\ fired' = fired
  BY DEF CloseQuestion, CancelTimer
<1>2. PlayTypeOK'
  BY <1>1 DEF PlayInv, PlayTypeOK
<1>3. TimerFollowsQuestion'
  BY <1>1 DEF PlayInv, TimerFollowsQuestion
<1>. QED
  BY <1>2, <1>3 DEF PlayInv

\* The invariant's parts depend on few variables.
LEMMA ConnInvFrame ==
  ASSUME ConnInv, UNCHANGED <<connVars, peerVars>>, up' \in BOOLEAN
  PROVE  ConnInv'
  BY DEF ConnInv, ConnTypeOK, NoClosedReceivers, JoinsOnce, connVars, peerVars, Clients

\* A step that leaves the game alone keeps what the invariant says of it.
LEMMA GameInvFrame ==
  ASSUME PlayInv, LedgerInv, UNCHANGED gameVars
  PROVE  PlayInv' /\ LedgerInv'
<1> USE DEF gameVars, playVars, timerVars, dbVars
<1>1. PlayInv'
  BY DEF PlayInv, PlayTypeOK, TimerFollowsQuestion, QuestionOpen
<1>2. LedgerInv'
  BY DEF LedgerInv, LedgerTypeOK, InsertNeverConflicts, LobbyIsBlank, DatabaseNeverAhead
<1>. QED
  BY <1>1, <1>2

\* A refusal changes nothing but, perhaps, the process's life.
LEMMA RefuseKeepsInv ==
  ASSUME IInv, NEW c \in Clients, Refuse(c)
  PROVE  IInv'
<1>1. ConnInv'
  BY ConnInvFrame DEF IInv, Refuse, SendTo
<1>2. PlayInv' /\ LedgerInv'
  BY GameInvFrame DEF IInv, Refuse
<1>. QED
  BY <1>1, <1>2 DEF IInv

\* The ledger after a step that leaves the lobby, in which the rows that appear are
\* those of a question that is no longer open.
LEMMA LedgerStep ==
  ASSUME LedgerInv, PlayInv,
         scores' \in [Players -> Nat], dbScore' \in [Players -> Nat],
         rows' \in [Players -> [Indices -> Awards \cup {NoAnswer}]],
         \A p \in Players : dbScore'[p] <= scores'[p],
         \A p \in Players : \A i \in Indices :
           rows'[p][i] # NoAnswer =>
             rows[p][i] # NoAnswer \/ (questionActive /\ i = currentIdx),
         status' \in {"in_progress", "finished"},
         dbStatus' \in {dbStatus, status'},
         StatusRank[status] <= StatusRank[status'],
         \/ currentIdx' = currentIdx /\ (questionActive' => questionActive /\ rows' = rows)
         \/ currentIdx' \in Nat /\ currentIdx < currentIdx'
         \/ status = "lobby" /\ rows' = rows /\ currentIdx' = 0
  PROVE  LedgerInv'
<1> USE DEF LedgerInv, PlayInv
<1>1. LedgerTypeOK'
  BY DEF LedgerTypeOK
<1>2. DatabaseNeverAhead'
  BY DEF DatabaseNeverAhead, LedgerTypeOK, PlayTypeOK, StatusRank
<1>3. LobbyIsBlank'
  BY DEF LobbyIsBlank
<1>4. InsertNeverConflicts'
  <2> SUFFICES ASSUME NEW p \in Players, NEW i \in Indices, rows'[p][i] # NoAnswer
               PROVE  i < currentIdx' \/ (i = currentIdx' /\ ~questionActive')
    BY DEF InsertNeverConflicts
  <2> i \in Nat /\ currentIdx \in Nat
    BY IndicesAreNat DEF PlayTypeOK
  <2>1. i < currentIdx \/ i = currentIdx
    BY DEF InsertNeverConflicts
  <2>2. CASE currentIdx' = currentIdx /\ (questionActive' => questionActive /\ rows' = rows)
    BY <2>1, <2>2 DEF InsertNeverConflicts
  <2>3. CASE currentIdx' \in Nat /\ currentIdx < currentIdx'
    BY <2>1, <2>3
  <2>4. CASE status = "lobby" /\ rows' = rows /\ currentIdx' = 0
    BY <2>4 DEF LobbyIsBlank
  <2>. QED
    BY <2>2, <2>3, <2>4
<1>. QED
  BY <1>1, <1>2, <1>3, <1>4

\* A question that is open stands at an index of the quiz.
LEMMA OpenIsIndex ==
  ASSUME PlayInv, questionActive
  PROVE  currentIdx \in Indices /\ currentIdx < Len(questions) /\ QuestionOpen
  BY PositionIsIndex DEF PlayInv, PlayTypeOK, TimerFollowsQuestion

\* advanceOrFinish keeps the question's part of the invariant.
LEMMA AdvanceKeepsPlay ==
  ASSUME PlayInv, AdvanceOrFinish, status = "in_progress",
         questions' = questions, powerupsLeft' = powerupsLeft
  PROVE  /\ PlayInv'
         /\ \/ /\ status' = "finished" /\ ~questionActive' /\ currentIdx' = currentIdx
               /\ dbStatus' \in {dbStatus, status'}
            \/ /\ status' = status /\ currentIdx' = currentIdx + 1
               /\ dbStatus' = dbStatus
<1>1. CASE currentIdx + 1 >= Len(questions)
  <2>1. FinishGame
    BY <1>1 DEF AdvanceOrFinish
  <2>2. PlayInv'
    BY <2>1, CloseKeepsPlay DEF FinishGame, PlayInv, PlayTypeOK
  <2>. QED
    BY <2>1, <2>2 DEF FinishGame, CloseQuestion
<1>2. CASE ~(currentIdx + 1 >= Len(questions))
  <2>1. StartQuestion(currentIdx + 1) /\ UNCHANGED <<status, dbStatus>>
    BY <1>2 DEF AdvanceOrFinish
  <2>2. questions \in Seq(Kinds) /\ currentIdx + 1 < Len(questions) /\ currentIdx + 1 \in Nat
    BY <1>2, QuizzesAssumption DEF PlayInv, PlayTypeOK
  <2>3. PlayInv'
    BY <2>1, <2>2, StartKeepsPlay DEF PlayInv, PlayTypeOK
  <2>. QED
    BY <2>1, <2>3 DEF StartQuestion
<1>. QED
  BY <1>1, <1>2

-----------------------------------------------------------------------------
(***************************************************************************)
(* One lemma for each class of steps.                                      *)
(***************************************************************************)
\* Connections open, join, leave and end without touching the game.
LEMMA ConnectionSteps ==
  ASSUME IInv, NEW c \in Clients,
         Connect(c) \/ Disconnect(c) \/ HandleJoin(c) \/ HandleLeave(c)
  PROVE  IInv'
<1> USE DEF IInv, ConnInv, ConnTypeOK, NoClosedReceivers, JoinsOnce, connVars, peerVars
<1>1. UNCHANGED gameVars
  BY DEF Connect, Disconnect, HandleJoin, HandleLeave
<1>2. ConnInv'
  <2>1. CASE Connect(c)
    BY <2>1 DEF Connect
  <2>2. CASE Disconnect(c)
    BY <2>2 DEF Disconnect
  <2>3. CASE HandleJoin(c)
    BY <2>3 DEF HandleJoin, SendTo, Clients
  <2>4. CASE HandleLeave(c)
    BY <2>4 DEF HandleLeave, RemoveClient
  <2>. QED
    BY <2>1, <2>2, <2>3, <2>4
<1>. QED
  BY <1>1, <1>2, GameInvFrame

\* A timer fires, and the room handles it.
LEMMA TimerExpireStep ==
  ASSUME IInv, NEW i \in Indices, TimerExpire(i)
  PROVE  IInv'
<1>1. ConnInv'
  BY ConnInvFrame DEF IInv, ConnInv, ConnTypeOK, TimerExpire
<1>2. PlayInv'
  BY DEF IInv, PlayInv, PlayTypeOK, TimerFollowsQuestion, QuestionOpen, TimerExpire
<1>3. LedgerInv'
  BY DEF IInv, LedgerInv, LedgerTypeOK, InsertNeverConflicts, LobbyIsBlank,
         DatabaseNeverAhead, TimerExpire, dbVars
<1>. QED
  BY <1>1, <1>2, <1>3 DEF IInv

\* The expiry of the open question's timer keeps the invariant.
LEMMA HandleTimerStep ==
  ASSUME IInv, HandleTimer
  PROVE  IInv'
<1>1. questionActive
  <2>1. questionFired \in Nat
    BY IndicesAreNat DEF IInv, PlayInv, PlayTypeOK, HandleTimer
  <2>. QED
    BY <2>1 DEF IInv, PlayInv, TimerFollowsQuestion, NoTimer
<1>2. CloseQuestion /\ ScoreQuestion(answers) /\ SendTo(clients) /\ answers' = answers
  BY <1>1 DEF HandleTimer
<1>3. UNCHANGED <<connVars, peerVars, status, questions, powerupsLeft, dbStatus>>
  BY DEF HandleTimer
<1>4. ConnInv'
  BY <1>2, <1>3, ConnInvFrame DEF IInv, SendTo
<1>5. PlayInv'
  BY <1>2, <1>3, CloseKeepsPlay DEF IInv, PlayInv, PlayTypeOK
<1>6. LedgerInv'
  <2>1. status = "in_progress" /\ currentIdx \in Indices
    BY <1>1, OpenIsIndex DEF IInv, QuestionOpen
  <2>2. currentIdx' = currentIdx /\ ~questionActive'
    BY <1>2 DEF CloseQuestion
  <2>. QED
    BY <1>1, <1>2, <1>3, <2>1, <2>2, ScoreKeepsLedger, LedgerStep
       DEF IInv, LedgerInv, PlayInv, PlayTypeOK, DatabaseNeverAhead, StatusRank
<1>. QED
  BY <1>4, <1>5, <1>6 DEF IInv

\* The messages of players.
LEMMA PlayerMessageSteps ==
  ASSUME IInv, NEW c \in Clients, HandleParticipantReady(c) \/ HandlePowerupUse(c)
  PROVE  IInv'
<1>1. CASE HandleParticipantReady(c)
  <2>1. UNCHANGED gameVars /\ ConnInv'
    BY <1>1, ConnInvFrame DEF IInv, HandleParticipantReady, SendTo
  <2>. QED
    BY <2>1, GameInvFrame DEF IInv
<1>2. CASE HandlePowerupUse(c) /\ ~Refuse(c)
  <2>1. /\ MayUsePowerup(c)
        /\ powerupsLeft' = [powerupsLeft EXCEPT ![c] = @ - 1]
        /\ powerupUsed' = powerupUsed \cup {c}
        /\ SendTo({c})
        /\ UNCHANGED <<connVars, peerVars, status, questions, scores, currentIdx,
                       questionActive, answers, timerVars, dbVars>>
    BY <1>2 DEF HandlePowerupUse
  <2>2. ConnInv'
    BY <2>1, ConnInvFrame DEF IInv, SendTo
  <2>3. PlayInv'
    BY <2>1 DEF IInv, PlayInv, PlayTypeOK, TimerFollowsQuestion, QuestionOpen,
                MayUsePowerup, timerVars
  <2>4. LedgerInv'
    BY <2>1 DEF IInv, LedgerInv, LedgerTypeOK, InsertNeverConflicts, LobbyIsBlank,
                DatabaseNeverAhead, dbVars
  <2>. QED
    BY <2>2, <2>3, <2>4 DEF IInv
<1>. QED
  BY <1>1, <1>2, RefuseKeepsInv

\* The host starts the game.
LEMMA StartGameStep ==
  ASSUME IInv, NEW c \in Clients, HandleHostStartGame(c)
  PROVE  IInv'
<1>1. CASE Refuse(c)
  BY <1>1, RefuseKeepsInv
<1>2. CASE ~Refuse(c)
  <2>1. PICK quiz \in Quizzes \ {<<>>} :
          /\ MayStart(c)
          /\ questions' = quiz
          /\ status' = "in_progress"
          /\ dbStatus' \in {"in_progress"} \cup (IF DBMayFail THEN {dbStatus} ELSE {})
          /\ powerupsLeft' = [p \in Players |-> IF p \in Granted THEN 1 ELSE powerupsLeft[p]]
          /\ StartQuestion(0)
          /\ SendTo(clients)
          /\ UNCHANGED <<connVars, peerVars, scores, rows, dbScore>>
    BY <1>2 DEF HandleHostStartGame
  <2>2. quiz \in Seq(Kinds) /\ 0 < Len(quiz)
    BY <2>1, QuizzesAssumption
  <2>3. ConnInv'
    BY <2>1, ConnInvFrame DEF IInv, SendTo
  <2>4. powerupsLeft' \in [Players -> {0, 1}]
    BY <2>1 DEF IInv, PlayInv, PlayTypeOK
  <2>5. PlayInv'
    BY <2>1, <2>2, <2>4, StartKeepsPlay DEF IInv
  <2>6. currentIdx' = 0 /\ status = "lobby"
    BY <2>1 DEF StartQuestion, MayStart
  <2>7. LedgerInv'
    BY <2>1, <2>6, LedgerStep
       DEF IInv, LedgerInv, LedgerTypeOK, DatabaseNeverAhead, StatusRank
  <2>. QED
    BY <2>3, <2>5, <2>7 DEF IInv
<1>. QED
  BY <1>1, <1>2

\* The host moves on, scoring an open question.
LEMMA AdvanceStep ==
  ASSUME IInv, NEW c \in Clients, HandleHostAdvance(c)
  PROVE  IInv'
<1>1. CASE Refuse(c)
  BY <1>1, RefuseKeepsInv
<1>2. CASE ~Refuse(c)
  <2>1. /\ status = "in_progress" /\ ScoreOnAdvance /\ AdvanceOrFinish /\ SendTo(clients)
        /\ UNCHANGED <<connVars, peerVars, questions, powerupsLeft>>
    BY <1>2 DEF HandleHostAdvance, MayAdvance
  <2>2. ConnInv'
    BY <2>1, ConnInvFrame DEF IInv, SendTo
  <2>3. /\ PlayInv'
        /\ \/ /\ status' = "finished" /\ ~questionActive' /\ currentIdx' = currentIdx
              /\ dbStatus' \in {dbStatus, status'}
           \/ /\ status' = status /\ currentIdx' = currentIdx + 1
              /\ dbStatus' = dbStatus
    BY <2>1, AdvanceKeepsPlay DEF IInv
  <2>4. /\ scores' \in [Players -> Nat] /\ dbScore' \in [Players -> Nat]
        /\ rows' \in [Players -> [Indices -> Awards \cup {NoAnswer}]]
        /\ \A p \in Players : dbScore'[p] <= scores'[p]
        /\ \A p \in Players : \A i \in Indices :
             rows'[p][i] # NoAnswer =>
               rows[p][i] # NoAnswer \/ (questionActive /\ i = currentIdx)
    <3>1. CASE questionActive
      <4>1. ScoreQuestion(answers) /\ currentIdx \in Indices
        BY <2>1, <3>1, OpenIsIndex DEF IInv, ScoreOnAdvance
      <4>. QED
        BY <3>1, <4>1, ScoreKeepsLedger
           DEF IInv, PlayInv, PlayTypeOK, LedgerInv, DatabaseNeverAhead
    <3>2. CASE ~questionActive
      BY <2>1, <3>2 DEF IInv, ScoreOnAdvance, LedgerInv, LedgerTypeOK, DatabaseNeverAhead
    <3>. QED
      BY <3>1, <3>2
  <2>5. currentIdx \in Nat
    BY DEF IInv, PlayInv, PlayTypeOK
  <2>6. /\ status' \in {"in_progress", "finished"}
        /\ StatusRank[status] <= StatusRank[status']
        /\ dbStatus' \in {dbStatus, status'}
        /\ \/ currentIdx' = currentIdx /\ (questionActive' => questionActive /\ rows' = rows)
           \/ currentIdx' \in Nat /\ currentIdx < currentIdx'
    BY <2>1, <2>3, <2>5 DEF StatusRank
  <2>7. LedgerInv'
    BY <2>4, <2>6, LedgerStep DEF IInv
  <2>. QED
    BY <2>2, <2>3, <2>7 DEF IInv
<1>. QED
  BY <1>1, <1>2

\* The host ends the game, in any status.
LEMMA EndGameStep ==
  ASSUME IInv, NEW c \in Clients, HandleHostEndGame(c)
  PROVE  IInv'
<1>1. CASE Refuse(c)
  BY <1>1, RefuseKeepsInv
<1>2. CASE ~Refuse(c)
  <2>1. /\ FinishGame /\ SendTo(clients)
        /\ UNCHANGED <<connVars, peerVars, questions, scores, powerupsLeft, rows, dbScore>>
    BY <1>2 DEF HandleHostEndGame
  <2>2. ConnInv'
    BY <2>1, ConnInvFrame DEF IInv, SendTo
  <2>3. PlayInv'
    BY <2>1, CloseKeepsPlay DEF IInv, PlayInv, PlayTypeOK, FinishGame
  <2>4. /\ status' = "finished" /\ ~questionActive' /\ currentIdx' = currentIdx
        /\ dbStatus' \in {dbStatus, status'}
    BY <2>1 DEF FinishGame, CloseQuestion
  <2>5. StatusRank[status] <= StatusRank[status']
    BY <2>4 DEF IInv, PlayInv, PlayTypeOK, StatusRank
  <2>6. LedgerInv'
    BY <2>1, <2>4, <2>5, LedgerStep DEF IInv, LedgerInv, LedgerTypeOK, DatabaseNeverAhead
  <2>. QED
    BY <2>2, <2>3, <2>6 DEF IInv
<1>. QED
  BY <1>1, <1>2

\* A player answers, and perhaps ends the question by it.
LEMMA AnswerStep ==
  ASSUME IInv, NEW c \in Clients, HandleAnswerSubmit(c)
  PROVE  IInv'
<1>1. CASE Refuse(c)
  BY <1>1, RefuseKeepsInv
<1>2. CASE ~Refuse(c)
  <2> DEFINE Accepted(a) == [answers EXCEPT ![c] = a]
  <2>1. PICK award \in Awards :
          /\ answers' = Accepted(award)
          /\ IF EveryoneAnswered(Accepted(award))
             THEN CloseQuestion /\ ScoreQuestion(Accepted(award)) /\ SendTo(clients)
             ELSE UNCHANGED <<currentIdx, questionActive, powerupUsed,
                              timerVars, scores, rows, dbScore, up>>
    BY <1>2 DEF HandleAnswerSubmit
  <2>2. /\ MayAnswer(c)
        /\ UNCHANGED <<connVars, peerVars, status, questions, powerupsLeft, dbStatus>>
    BY <1>2 DEF HandleAnswerSubmit
  <2>3. answers' \in [Players -> Awards \cup {NoAnswer}]
    BY <2>1, <2>2 DEF IInv, PlayInv, PlayTypeOK, MayAnswer
  <2>4. ConnInv'
    BY <2>1, <2>2, ConnInvFrame DEF IInv, ConnInv, ConnTypeOK, SendTo
  <2>5. CASE EveryoneAnswered(answers')
    <3>1. CloseQuestion /\ ScoreQuestion(answers')
      BY <2>1, <2>5
    <3>2. PlayInv'
      BY <2>2, <2>3, <3>1, CloseKeepsPlay DEF IInv, PlayInv, PlayTypeOK
    <3>3. status = "in_progress" /\ questionActive /\ currentIdx \in Indices
      BY <2>2, OpenIsIndex DEF IInv, MayAnswer, QuestionOpen
    <3>4. currentIdx' = currentIdx /\ ~questionActive'
      BY <3>1 DEF CloseQuestion
    <3>5. LedgerInv'
      BY <2>2, <2>3, <3>1, <3>3, <3>4, ScoreKeepsLedger, LedgerStep
         DEF IInv, LedgerInv, PlayInv, PlayTypeOK, DatabaseNeverAhead, StatusRank
    <3>. QED
      BY <2>4, <3>2, <3>5 DEF IInv
  <2>6. CASE ~EveryoneAnswered(answers')
    <3>1. UNCHANGED <<currentIdx, questionActive, powerupUsed, timerVars,
                      scores, rows, dbScore, up>>
      BY <2>1, <2>6
    <3>2. PlayInv'
      BY <2>2, <2>3, <3>1 DEF IInv, PlayInv, PlayTypeOK, TimerFollowsQuestion,
                              QuestionOpen, timerVars
    <3>3. LedgerInv'
      BY <2>2, <3>1 DEF IInv, LedgerInv, LedgerTypeOK, InsertNeverConflicts,
                        LobbyIsBlank, DatabaseNeverAhead
    <3>. QED
      BY <2>4, <3>2, <3>3 DEF IInv
  <2>. QED
    BY <2>5, <2>6
<1>. QED
  BY <1>1, <1>2

\* Every handler, connection and timer step keeps the invariant.
LEMMA NextInv == IInv /\ [Next]_vars => IInv'
<1> SUFFICES ASSUME IInv, [Next]_vars PROVE IInv'
  OBVIOUS
<1>1. CASE UNCHANGED vars
  BY <1>1, ConnInvFrame, GameInvFrame DEF vars, IInv, ConnInv, ConnTypeOK
<1>2. ASSUME NEW c \in Clients,
             Connect(c) \/ Disconnect(c) \/ HandleJoin(c) \/ HandleLeave(c)
      PROVE  IInv'
  BY <1>2, ConnectionSteps
<1>3. ASSUME NEW c \in Clients, HandleMessage(c)
      PROVE  IInv'
  BY <1>3, PlayerMessageSteps, StartGameStep, AdvanceStep, EndGameStep, AnswerStep
     DEF HandleMessage
<1>4. ASSUME NEW i \in Indices, TimerExpire(i)
      PROVE  IInv'
  BY <1>4, TimerExpireStep
<1>5. CASE HandleTimer
  BY <1>5, HandleTimerStep
<1>. QED
  BY <1>1, <1>2, <1>3, <1>4, <1>5 DEF Next

-----------------------------------------------------------------------------
(***************************************************************************)
(* The theorems.                                                           *)
(***************************************************************************)
LEMMA Invariance == Spec => []IInv
<1>. QED
  BY InitInv, NextInv, PTL DEF Spec

\* In every reachable state of the room every variable has its type.
THEOREM TypeCorrect == Spec => []TypeOK
<1>1. IInv => TypeOK
  BY DEF IInv, ConnInv, PlayInv, LedgerInv, TypeOK
<1>. QED
  BY <1>1, Invariance, PTL

\* The timer the select of run() listens to is always the open question's own, and
\* no other timer goroutine is alive.
THEOREM TimerSafety == Spec => []TimerFollowsQuestion
<1>1. IInv => TimerFollowsQuestion
  BY DEF IInv, PlayInv
<1>. QED
  BY <1>1, Invariance, PTL

\* No broadcast of the room ever meets a channel that handleLeave closed.
THEOREM BroadcastSafety == Spec => []NoClosedReceivers
<1>1. IInv => NoClosedReceivers
  BY DEF IInv, ConnInv
<1>. QED
  BY <1>1, Invariance, PTL

\* ON CONFLICT DO NOTHING of InsertParticipantAnswer never drops an answer.
THEOREM InsertSafety == Spec => []InsertNeverConflicts
<1>1. IInv => InsertNeverConflicts
  BY DEF IInv, LedgerInv
<1>. QED
  BY <1>1, Invariance, PTL

\* Whatever statements fail, the database never runs ahead of the room.
THEOREM LedgerSafety == Spec => []DatabaseNeverAhead
<1>1. IInv => DatabaseNeverAhead
  BY DEF IInv, LedgerInv
<1>. QED
  BY <1>1, Invariance, PTL

\* The game never goes back: not its status, not its question.
THEOREM GameGoesForward == Spec => GameMovesForward
<1>1. IInv /\ [Next]_vars => [ForwardStep]_vars
  <2> SUFFICES ASSUME IInv, Next PROVE ForwardStep
    BY DEF vars
  <2>1. ASSUME UNCHANGED <<status, currentIdx>>
        PROVE  ForwardStep
    BY <2>1 DEF IInv, PlayInv, PlayTypeOK, ForwardStep, StatusRank
  <2>2. ASSUME NEW c \in Clients, HandleHostStartGame(c), ~Refuse(c)
        PROVE  ForwardStep
    <3>1. status = "lobby" /\ status' = "in_progress" /\ currentIdx' = 0
      BY <2>2 DEF HandleHostStartGame, MayStart, StartQuestion
    <3>. QED
      BY <3>1 DEF IInv, LedgerInv, LobbyIsBlank, ForwardStep, StatusRank
  <2>3. ASSUME NEW c \in Clients, HandleHostAdvance(c), ~Refuse(c)
        PROVE  ForwardStep
    <3>1. /\ status = "in_progress"
          /\ \/ status' = status /\ currentIdx' = currentIdx + 1
             \/ status' = "finished" /\ currentIdx' = currentIdx
      BY <2>3 DEF HandleHostAdvance, MayAdvance, AdvanceOrFinish, StartQuestion,
                  FinishGame, CloseQuestion
    <3>. QED
      BY <3>1 DEF IInv, PlayInv, PlayTypeOK, ForwardStep, StatusRank
  <2>4. ASSUME NEW c \in Clients, HandleHostEndGame(c), ~Refuse(c)
        PROVE  ForwardStep
    <3>1. status' = "finished" /\ currentIdx' = currentIdx
      BY <2>4 DEF HandleHostEndGame, FinishGame, CloseQuestion
    <3>. QED
      BY <3>1 DEF IInv, PlayInv, PlayTypeOK, ForwardStep, StatusRank
  <2>5. ASSUME NEW c \in Clients, Refuse(c)
        PROVE  ForwardStep
    BY <2>1, <2>5 DEF Refuse, gameVars, playVars
  <2>6. ASSUME NEW c \in Clients,
               \/ Connect(c) \/ Disconnect(c) \/ HandleJoin(c) \/ HandleLeave(c)
               \/ HandleParticipantReady(c)
        PROVE  ForwardStep
    BY <2>1, <2>6 DEF Connect, Disconnect, HandleJoin, HandleLeave,
                      HandleParticipantReady, gameVars, playVars
  <2>7. ASSUME NEW c \in Clients, HandlePowerupUse(c) \/ HandleAnswerSubmit(c), ~Refuse(c)
        PROVE  ForwardStep
    BY <2>1, <2>7 DEF HandlePowerupUse, HandleAnswerSubmit, CloseQuestion
  <2>8. ASSUME HandleTimer \/ \E i \in Indices : TimerExpire(i)
        PROVE  ForwardStep
    BY <2>1, <2>8 DEF HandleTimer, TimerExpire, CloseQuestion
  <2>. QED
    BY <2>2, <2>3, <2>4, <2>5, <2>6, <2>7, <2>8 DEF Next, HandleMessage
<1>. QED
  BY <1>1, Invariance, PTL DEF Spec, GameMovesForward

\* Which steps move the scores: those that score an open question.
LEMMA StepsThatScore ==
  ASSUME IInv, Next
  PROVE  \/ scores' = scores
         \/ /\ questionActive
            /\ \/ ScoreQuestion(answers) /\ AdvanceOrFinish
               \/ ScoreQuestion(answers) /\ CloseQuestion
               \/ ScoreQuestion(answers') /\ CloseQuestion
<1>1. ASSUME NEW c \in Clients, HandleHostAdvance(c), ~Refuse(c)
      PROVE  \/ scores' = scores
             \/ questionActive /\ ScoreQuestion(answers) /\ AdvanceOrFinish
  BY <1>1 DEF HandleHostAdvance, ScoreOnAdvance
<1>2. ASSUME NEW c \in Clients, HandleAnswerSubmit(c), ~Refuse(c)
      PROVE  \/ scores' = scores
             \/ questionActive /\ ScoreQuestion(answers') /\ CloseQuestion
  BY <1>2 DEF HandleAnswerSubmit, MayAnswer, QuestionOpen
<1>3. ASSUME HandleTimer
      PROVE  \/ scores' = scores
             \/ questionActive /\ ScoreQuestion(answers) /\ CloseQuestion
  BY <1>3 DEF HandleTimer
<1>4. ASSUME NEW c \in Clients, Refuse(c)
      PROVE  scores' = scores
  BY <1>4 DEF Refuse, gameVars
<1>5. ASSUME NEW c \in Clients,
             \/ Connect(c) \/ Disconnect(c) \/ HandleJoin(c) \/ HandleLeave(c)
             \/ HandleParticipantReady(c)
      PROVE  scores' = scores
  BY <1>5 DEF Connect, Disconnect, HandleJoin, HandleLeave, HandleParticipantReady, gameVars
<1>6. ASSUME NEW c \in Clients,
             HandlePowerupUse(c) \/ HandleHostStartGame(c) \/ HandleHostEndGame(c),
             ~Refuse(c)
      PROVE  scores' = scores
  BY <1>6 DEF HandlePowerupUse, HandleHostStartGame, HandleHostEndGame
<1>7. ASSUME NEW i \in Indices, TimerExpire(i)
      PROVE  scores' = scores
  BY <1>7 DEF TimerExpire
<1>. QED
  BY <1>1, <1>2, <1>3, <1>4, <1>5, <1>6, <1>7 DEF Next, HandleMessage

\* Scores move only in the step that closes a question.
THEOREM ScoresStandStill == Spec => NoCreditOutsideQuestions
<1>1. IInv /\ [Next]_vars => [~questionActive => scores' = scores]_vars
  BY StepsThatScore DEF vars
<1>. QED
  BY <1>1, Invariance, PTL DEF Spec, NoCreditOutsideQuestions

\* As long as nobody who answered has left, an answer ends the question exactly when
\* every connected player has answered.
THEOREM AutoFinishIsExact == Spec => AutoFinishExact
<1>1. IInv /\ [Next]_vars => [ExactFinishStep]_vars
  <2> SUFFICES ASSUME IInv, Next,
                      Answered(answers) # Answered(answers'),
                      Answered(answers) \subseteq Answered(answers'),
                      Answered(answers') \subseteq clients
               PROVE  ~questionActive' <=> Present \subseteq Answered(answers')
    BY DEF vars, ExactFinishStep
  <2>1. answers' # answers /\ answers' # Blank
    BY DEF Answered, Blank
  <2>2. PICK c \in Clients : HandleAnswerSubmit(c) /\ ~Refuse(c)
    <3>1. ASSUME NEW c \in Clients, Refuse(c)
          PROVE  answers' = answers
      BY <3>1 DEF Refuse, gameVars, playVars
    <3>2. ASSUME NEW c \in Clients,
                 \/ Connect(c) \/ Disconnect(c) \/ HandleJoin(c) \/ HandleLeave(c)
                 \/ HandleParticipantReady(c)
          PROVE  answers' = answers
      BY <3>2 DEF Connect, Disconnect, HandleJoin, HandleLeave, HandleParticipantReady,
                  gameVars, playVars
    <3>3. ASSUME NEW c \in Clients,
                 \/ HandlePowerupUse(c) \/ HandleHostStartGame(c)
                 \/ HandleHostAdvance(c) \/ HandleHostEndGame(c), ~Refuse(c)
          PROVE  answers' \in {answers, Blank}
      BY <3>3 DEF HandlePowerupUse, HandleHostStartGame, HandleHostAdvance,
                  HandleHostEndGame, AdvanceOrFinish, StartQuestion, FinishGame
    <3>4. ASSUME HandleTimer \/ \E i \in Indices : TimerExpire(i)
          PROVE  answers' = answers
      BY <3>4 DEF HandleTimer, TimerExpire
    <3>. QED
      BY <2>1, <3>1, <3>2, <3>3, <3>4 DEF Next, HandleMessage
  <2>3. /\ questionActive /\ c \in Players
        /\ \E award \in Awards : answers' = [answers EXCEPT ![c] = award]
        /\ IF EveryoneAnswered(answers')
           THEN ~questionActive'
           ELSE questionActive' = questionActive
    BY <2>2 DEF HandleAnswerSubmit, MayAnswer, QuestionOpen, CloseQuestion
  <2>4. c \in Answered(answers') /\ Answered(answers') \subseteq Present
    BY <2>3, AwardsAssumption DEF IInv, PlayInv, PlayTypeOK, Answered, Present
  <2>5. IsFiniteSet(Present)
    BY ClientsAssumption, FS_Subset DEF Present
  <2>6. /\ Cardinality(Answered(answers')) \in Nat /\ Cardinality(Present) \in Nat
        /\ Cardinality(Answered(answers')) <= Cardinality(Present)
        /\ Cardinality(Answered(answers')) = Cardinality(Present)
             => Answered(answers') = Present
    BY <2>4, <2>5, FS_Subset, FS_CardinalityType
  <2>7. EveryoneAnswered(answers') <=> Present \subseteq Answered(answers')
    BY <2>4, <2>6 DEF EveryoneAnswered
  <2>. QED
    BY <2>3, <2>7
<1>. QED
  BY <1>1, Invariance, PTL DEF Spec, AutoFinishExact

\* An accepted answer is final and is credited exactly when its question closes.
THEOREM AnswersStand == Spec => AnswersAreFinal
<1>1. IInv /\ [Next]_vars => [FinalAnswerStep]_vars
  <2> SUFFICES ASSUME IInv, Next,
                      NEW p \in Players, questionActive, answers[p] # NoAnswer
               PROVE  IF questionActive' /\ currentIdx' = currentIdx
                      THEN answers'[p] = answers[p] /\ scores'[p] = scores[p]
                      ELSE \/ scores'[p] = scores[p] + answers[p]
                           \/ \E h \in Hosts : HandleHostEndGame(h)
    BY DEF vars, FinalAnswerStep
  <2> DEFINE Kept    == /\ UNCHANGED <<questionActive, currentIdx>>
                        /\ answers'[p] = answers[p] /\ scores'[p] = scores[p]
             Counted == /\ ~(questionActive' /\ currentIdx' = currentIdx)
                        /\ scores'[p] = scores[p] + answers[p]
  <2> currentIdx \in Nat
    BY DEF IInv, PlayInv, PlayTypeOK
  <2>1. ASSUME NEW ans, ScoreQuestion(ans), ans[p] = answers[p]
        PROVE  scores'[p] = scores[p] + answers[p]
    BY <2>1 DEF ScoreQuestion, Credit, Award
  <2>2. ASSUME NEW c \in Clients, Refuse(c)
        PROVE  Kept
    BY <2>2 DEF Refuse, gameVars, playVars
  <2>3. ASSUME NEW c \in Clients,
               \/ Connect(c) \/ Disconnect(c) \/ HandleJoin(c) \/ HandleLeave(c)
               \/ HandleParticipantReady(c)
        PROVE  Kept
    BY <2>3 DEF Connect, Disconnect, HandleJoin, HandleLeave, HandleParticipantReady,
                gameVars, playVars
  <2>4. ASSUME NEW c \in Clients, HandlePowerupUse(c), ~Refuse(c)
        PROVE  Kept
    BY <2>4 DEF HandlePowerupUse
  <2>5. ASSUME NEW c \in Clients, HandleHostStartGame(c), ~Refuse(c)
        PROVE  FALSE
    BY <2>5, OpenIsIndex DEF HandleHostStartGame, MayStart, IInv, QuestionOpen
  <2>6. ASSUME NEW c \in Clients, HandleHostAdvance(c), ~Refuse(c)
        PROVE  Counted
    <3>1. ScoreQuestion(answers) /\ AdvanceOrFinish
      BY <2>6 DEF HandleHostAdvance, ScoreOnAdvance
    <3>2. ~(questionActive' /\ currentIdx' = currentIdx)
      BY <3>1 DEF AdvanceOrFinish, FinishGame, CloseQuestion, StartQuestion
    <3>. QED
      BY <2>1, <3>1, <3>2
  <2>7. ASSUME NEW c \in Clients, HandleHostEndGame(c), ~Refuse(c)
        PROVE  ~questionActive' /\ c \in Hosts
    BY <2>7 DEF HandleHostEndGame, FinishGame, CloseQuestion
  <2>8. ASSUME NEW c \in Clients, HandleAnswerSubmit(c), ~Refuse(c)
        PROVE  Kept \/ Counted
    <3> DEFINE Accepted(a) == [answers EXCEPT ![c] = a]
    <3>1. PICK award \in Awards :
            /\ answers' = Accepted(award)
            /\ IF EveryoneAnswered(Accepted(award))
               THEN CloseQuestion /\ ScoreQuestion(Accepted(award)) /\ SendTo(clients)
               ELSE UNCHANGED <<currentIdx, questionActive, powerupUsed,
                                timerVars, scores, rows, dbScore, up>>
      BY <2>8 DEF HandleAnswerSubmit
    <3>2. c # p
      BY <2>8 DEF HandleAnswerSubmit, MayAnswer
    <3>3. answers'[p] = answers[p]
      BY <3>1, <3>2 DEF IInv, PlayInv, PlayTypeOK
    <3>4. CASE EveryoneAnswered(answers')
      <4>1. CloseQuestion /\ ScoreQuestion(answers')
        BY <3>1, <3>4
      <4>. QED
        BY <2>1, <3>3, <4>1 DEF CloseQuestion
    <3>5. CASE ~EveryoneAnswered(answers')
      BY <3>1, <3>3, <3>5
    <3>. QED
      BY <3>4, <3>5
  <2>9. ASSUME HandleTimer
        PROVE  Counted
    BY <2>1, <2>9 DEF HandleTimer, CloseQuestion
  <2>10. ASSUME NEW i \in Indices, TimerExpire(i)
         PROVE  Kept
    BY <2>10 DEF TimerExpire
  <2>11. \/ Kept \/ Counted
         \/ ~questionActive' /\ \E h \in Hosts : HandleHostEndGame(h)
    <3> HIDE DEF Kept, Counted
    <3>. QED
      BY <2>2, <2>3, <2>4, <2>5, <2>6, <2>7, <2>8, <2>9, <2>10 DEF Next, HandleMessage
  <2>. QED
    BY <2>11
<1>. QED
  BY <1>1, Invariance, PTL DEF Spec, AnswersAreFinal

\* While no statement fails, status and totals of the database are the room's.
THEOREM DatabaseIsLedger == Spec => []DatabaseAgrees
<1>1. Init => DatabaseAgrees
  BY DEF Init, DatabaseAgrees
<1>2. IInv /\ DatabaseAgrees /\ [Next]_vars => DatabaseAgrees'
  <2> SUFFICES ASSUME IInv, dbStatus = status, dbScore = scores, ~DBMayFail, [Next]_vars
               PROVE  dbStatus' = status' /\ dbScore' = scores'
    BY DEF DatabaseAgrees
  <2>1. ASSUME NEW ans, ScoreQuestion(ans)
        PROVE  dbScore' = scores'
    BY <2>1 DEF ScoreQuestion, Credit, Failures
  <2>2. ASSUME UNCHANGED gameVars \/ UNCHANGED vars
        PROVE  UNCHANGED <<status, scores, dbStatus, dbScore>>
    BY <2>2 DEF vars, gameVars, dbVars
  <2>3. ASSUME NEW c \in Clients,
               \/ Refuse(c) \/ Connect(c) \/ Disconnect(c) \/ HandleJoin(c) \/ HandleLeave(c)
               \/ HandleParticipantReady(c)
        PROVE  UNCHANGED gameVars
    BY <2>3 DEF Refuse, Connect, Disconnect, HandleJoin, HandleLeave, HandleParticipantReady
  <2>4. ASSUME NEW c \in Clients, HandlePowerupUse(c) \/ HandleHostStartGame(c), ~Refuse(c)
        PROVE  dbStatus' = status' /\ dbScore' = scores'
    BY <2>4 DEF HandlePowerupUse, HandleHostStartGame, dbVars
  <2>5. ASSUME NEW c \in Clients, HandleHostAdvance(c) \/ HandleHostEndGame(c), ~Refuse(c)
        PROVE  dbStatus' = status' /\ dbScore' = scores'
    <3>1. dbScore' = scores'
      BY <2>1, <2>5 DEF HandleHostAdvance, HandleHostEndGame, ScoreOnAdvance
    <3>2. FinishGame \/ UNCHANGED <<status, dbStatus>>
      BY <2>5 DEF HandleHostAdvance, HandleHostEndGame, AdvanceOrFinish
    <3>. QED
      BY <3>1, <3>2 DEF FinishGame
  <2>6. ASSUME NEW c \in Clients, HandleAnswerSubmit(c), ~Refuse(c)
        PROVE  dbStatus' = status' /\ dbScore' = scores'
    BY <2>1, <2>6 DEF HandleAnswerSubmit
  <2>7. ASSUME HandleTimer
        PROVE  dbStatus' = status' /\ dbScore' = scores'
    BY <2>1, <2>7 DEF HandleTimer
  <2>8. ASSUME NEW i \in Indices, TimerExpire(i)
        PROVE  UNCHANGED <<status, scores, dbStatus, dbScore>>
    BY <2>8 DEF TimerExpire, dbVars
  <2>. QED
    BY <2>2, <2>3, <2>4, <2>5, <2>6, <2>7, <2>8 DEF Next, HandleMessage
<1>. QED
  BY <1>1, <1>2, Invariance, PTL DEF Spec

-----------------------------------------------------------------------------
(***************************************************************************)
(* The rows add up to the scores.                                          *)
(***************************************************************************)
\* Nobody has a score before the start.
LobbyIsScoreless == status = "lobby" => \A p \in Players : scores[p] = 0

\* A score that consists of the stored rows still does after the open question is
\* scored: every total from that question on grows by the award of its answer.
LEMMA ScoringKeepsSums ==
  ASSUME IInv, ~DBMayFail, RowsExplainScores, questionActive, questions' = questions,
         NEW ans \in [Players -> Awards \cup {NoAnswer}], ScoreQuestion(ans)
  PROVE  RowsExplainScores'
<1> DEFINE n == Len(questions)
<1>1. /\ currentIdx \in Indices /\ currentIdx \in Nat /\ n \in Nat /\ currentIdx < n
      /\ Indices \subseteq Nat
  BY OpenIsIndex, IndicesAreNat, QuizzesAssumption DEF IInv, PlayInv, PlayTypeOK
<1> SUFFICES ASSUME NEW p \in Players
             PROVE  /\ \A i \in Indices : rows'[p][i] # NoAnswer => i < n
                    /\ \E total \in [0 .. n -> 0 .. scores'[p]] :
                         /\ total[0] = 0 /\ total[n] = scores'[p]
                         /\ \A i \in 1 .. n : total[i] = total[i - 1] + Award(rows'[p], i - 1)
  BY DEF RowsExplainScores
<1>2. /\ scores[p] \in Nat /\ rows[p] \in [Indices -> Awards \cup {NoAnswer}]
      /\ rows[p][currentIdx] = NoAnswer
  BY <1>1 DEF IInv, LedgerInv, LedgerTypeOK, InsertNeverConflicts
<1>3. Award(ans, p) \in Nat
  BY AwardIsNat
<1>4. scores'[p] = scores[p] + Award(ans, p)
  BY DEF ScoreQuestion, Credit
<1>5. rows'[p] = IF ans[p] # NoAnswer THEN [rows[p] EXCEPT ![currentIdx] = ans[p]] ELSE rows[p]
  BY <1>2 DEF ScoreQuestion, Failures, Answered, InsertRow
<1>6. \A i \in Indices : i # currentIdx => rows'[p][i] = rows[p][i]
  BY <1>2, <1>5
<1>7. rows'[p][currentIdx] = ans[p]
  BY <1>1, <1>2, <1>5
<1>8. \A i \in Indices : rows'[p][i] # NoAnswer => i < n
  BY <1>1, <1>6 DEF RowsExplainScores
<1>9. PICK total \in [0 .. n -> 0 .. scores[p]] :
        /\ total[0] = 0 /\ total[n] = scores[p]
        /\ \A i \in 1 .. n : total[i] = total[i - 1] + Award(rows[p], i - 1)
  BY DEF RowsExplainScores
<1> DEFINE grown == [i \in 0 .. n |-> IF i <= currentIdx THEN total[i] ELSE total[i] + Award(ans, p)]
<1>10. grown \in [0 .. n -> 0 .. scores'[p]] /\ grown[0] = 0 /\ grown[n] = scores'[p]
  BY <1>1, <1>2, <1>3, <1>4, <1>9
<1>11. ASSUME NEW i \in 1 .. n
       PROVE  grown[i] = grown[i - 1] + Award(rows'[p], i - 1)
  <2>1. /\ i \in Nat /\ i - 1 \in 0 .. n /\ i \in 0 .. n /\ i - 1 \in Indices
        /\ total[i] = total[i - 1] + Award(rows[p], i - 1)
        /\ total[i] \in Nat /\ total[i - 1] \in Nat
    <3>1. i - 1 \in Nat /\ i - 1 < n
      BY <1>1
    <3>2. i - 1 \in Indices
      BY <3>1, PositionIsIndex DEF IInv, PlayInv, PlayTypeOK
    <3>. QED
      BY <1>1, <1>2, <1>9, <3>1, <3>2
  <2>2. CASE i - 1 = currentIdx
    <3>1. Award(rows[p], i - 1) = 0 /\ Award(rows'[p], i - 1) = Award(ans, p)
      BY <1>2, <1>7, <2>2 DEF Award
    <3>. QED
      BY <1>1, <1>3, <2>1, <2>2, <3>1
  <2>3. CASE i - 1 # currentIdx
    <3>1. Award(rows'[p], i - 1) = Award(rows[p], i - 1)
      BY <1>6, <2>1, <2>3 DEF Award
    <3>2. Award(rows[p], i - 1) \in Nat
      BY <1>2, <2>1, AwardsAssumption DEF Award
    <3>. QED
      BY <1>1, <1>3, <2>1, <2>3, <3>1, <3>2
  <2>. QED
    BY <2>2, <2>3
<1>. QED
  <2> HIDE DEF grown, n
  <2>. QED
    BY <1>8, <1>10, <1>11

\* What it depends on.
LEMMA SumsFrame ==
  ASSUME RowsExplainScores, UNCHANGED <<questions, rows, scores>>
  PROVE  RowsExplainScores'
  BY DEF RowsExplainScores

\* While no statement fails, the rows of a player add up to the player's score.
THEOREM SumsAreExact == Spec => []RowsExplainScores
<1>1. Init => RowsExplainScores /\ LobbyIsScoreless
  <2> SUFFICES ASSUME Init PROVE RowsExplainScores /\ LobbyIsScoreless
    OBVIOUS
  <2>1. LobbyIsScoreless
    BY DEF Init, LobbyIsScoreless
  <2>2. Len(questions) = 0
    BY DEF Init
  <2>3. ASSUME NEW p \in Players
        PROVE  /\ \A i \in Indices : rows[p][i] # NoAnswer => i < Len(questions)
               /\ \E total \in [0 .. Len(questions) -> 0 .. scores[p]] :
                    /\ total[0] = 0 /\ total[Len(questions)] = scores[p]
                    /\ \A i \in 1 .. Len(questions) :
                         total[i] = total[i - 1] + Award(rows[p], i - 1)
    <3> DEFINE none == [i \in 0 .. 0 |-> 0]
    <3>1. scores[p] = 0 /\ \A i \in Indices : rows[p][i] = NoAnswer
      BY DEF Init
    <3>2. none \in [0 .. 0 -> 0 .. 0] /\ none[0] = 0 /\ 1 .. 0 = {}
      OBVIOUS
    <3> HIDE DEF none
    <3>. QED
      BY <2>2, <3>1, <3>2
  <2>. QED
    BY <2>1, <2>3 DEF RowsExplainScores
<1>2. IInv /\ RowsExplainScores /\ LobbyIsScoreless /\ [Next]_vars
        => RowsExplainScores' /\ LobbyIsScoreless'
  <2> SUFFICES ASSUME IInv, RowsExplainScores, LobbyIsScoreless, [Next]_vars
               PROVE  RowsExplainScores' /\ LobbyIsScoreless'
    OBVIOUS
  <2>1. CASE UNCHANGED <<questions, rows, scores>> /\ (status' = status \/ status' # "lobby")
    BY <2>1, SumsFrame DEF LobbyIsScoreless
  <2>2. ASSUME NEW ans \in [Players -> Awards \cup {NoAnswer}], ScoreQuestion(ans),
               questionActive, questions' = questions, status' = status \/ status' # "lobby"
        PROVE  RowsExplainScores' /\ LobbyIsScoreless'
    <3>1. RowsExplainScores'
      BY <2>2, ScoringKeepsSums DEF RowsExplainScores
    <3>2. status = "in_progress"
      BY <2>2, OpenIsIndex DEF IInv, QuestionOpen
    <3>. QED
      BY <2>2, <3>1, <3>2 DEF LobbyIsScoreless
  <2>3. CASE UNCHANGED gameVars \/ UNCHANGED vars
    BY <2>1, <2>3 DEF vars, gameVars, dbVars
  <2>4. ASSUME NEW c \in Clients,
               \/ Refuse(c) \/ Connect(c) \/ Disconnect(c) \/ HandleJoin(c) \/ HandleLeave(c)
               \/ HandleParticipantReady(c)
        PROVE  UNCHANGED gameVars
    BY <2>4 DEF Refuse, Connect, Disconnect, HandleJoin, HandleLeave, HandleParticipantReady
  <2>5. ASSUME NEW c \in Clients, HandlePowerupUse(c) \/ HandleHostEndGame(c), ~Refuse(c)
        PROVE  UNCHANGED <<questions, rows, scores>> /\ (status' = status \/ status' # "lobby")
    BY <2>5 DEF HandlePowerupUse, HandleHostEndGame, FinishGame, dbVars
  <2>6. ASSUME NEW c \in Clients, HandleHostStartGame(c), ~Refuse(c)
        PROVE  RowsExplainScores' /\ LobbyIsScoreless'
    <3>1. /\ status = "lobby" /\ status' = "in_progress" /\ questions' \in Quizzes
          /\ UNCHANGED <<rows, scores>>
      BY <2>6 DEF HandleHostStartGame, MayStart
    <3>2. /\ \A p \in Players : scores[p] = 0
          /\ \A p \in Players : \A i \in Indices : rows[p][i] = NoAnswer
      BY <3>1 DEF LobbyIsScoreless, IInv, LedgerInv, LobbyIsBlank
    <3>3. Len(questions') \in Nat /\ \A i \in 1 .. Len(questions') : i - 1 \in Indices
      <4>1. questions' \in Seq(Kinds) /\ Len(questions') \in Nat
        BY <3>1, QuizzesAssumption
      <4>2. ASSUME NEW i \in 1 .. Len(questions') PROVE i - 1 \in Nat /\ i - 1 < Len(questions')
        BY <4>1
      <4>. QED
        BY <3>1, <4>1, <4>2, PositionIsIndex
    <3>4. ASSUME NEW p \in Players
          PROVE  /\ \A i \in Indices : rows'[p][i] # NoAnswer => i < Len(questions')
                 /\ \E total \in [0 .. Len(questions') -> 0 .. scores'[p]] :
                      /\ total[0] = 0 /\ total[Len(questions')] = scores'[p]
                      /\ \A i \in 1 .. Len(questions') :
                           total[i] = total[i - 1] + Award(rows'[p], i - 1)
      <4> DEFINE m == Len(questions')
                 none == [i \in 0 .. m |-> 0]
      <4>1. none \in [0 .. m -> 0 .. scores'[p]] /\ none[0] = 0 /\ none[m] = scores'[p]
        BY <3>1, <3>2, <3>3
      <4>2. ASSUME NEW i \in 1 .. m PROVE none[i] = none[i - 1] + Award(rows'[p], i - 1)
        <5>1. Award(rows'[p], i - 1) = 0
          BY <3>1, <3>2, <3>3 DEF Award
        <5>. QED
          BY <3>3, <5>1
      <4> HIDE DEF none
      <4>. QED
        BY <3>1, <3>2, <4>1, <4>2
    <3>. QED
      BY <3>1, <3>4 DEF RowsExplainScores, LobbyIsScoreless
  <2>7. ASSUME NEW c \in Clients, HandleHostAdvance(c), ~Refuse(c)
        PROVE  RowsExplainScores' /\ LobbyIsScoreless'
    <3>1. /\ ScoreOnAdvance /\ questions' = questions /\ status = "in_progress"
          /\ status' = status \/ status' = "finished"
      BY <2>7 DEF HandleHostAdvance, AdvanceOrFinish, FinishGame, MayAdvance
    <3>. QED
      BY <2>1, <2>2, <3>1 DEF ScoreOnAdvance, IInv, PlayInv, PlayTypeOK
  <2>8. ASSUME NEW c \in Clients, HandleAnswerSubmit(c), ~Refuse(c)
        PROVE  RowsExplainScores' /\ LobbyIsScoreless'
    <3>1. PICK award \in Awards :
            /\ questionActive /\ questions' = questions /\ status' = status
            /\ \/ ScoreQuestion([answers EXCEPT ![c] = award])
               \/ UNCHANGED <<rows, scores>>
      BY <2>8 DEF HandleAnswerSubmit, MayAnswer, QuestionOpen
    <3>2. [answers EXCEPT ![c] = award] \in [Players -> Awards \cup {NoAnswer}]
      BY DEF IInv, PlayInv, PlayTypeOK
    <3>. QED
      BY <2>1, <2>2, <3>1, <3>2
  <2>9. ASSUME HandleTimer
        PROVE  RowsExplainScores' /\ LobbyIsScoreless'
    <3>1. /\ questions' = questions /\ status' = status
          /\ \/ questionActive /\ ScoreQuestion(answers)
             \/ UNCHANGED <<rows, scores>>
      BY <2>9 DEF HandleTimer
    <3>. QED
      BY <2>1, <2>2, <3>1 DEF IInv, PlayInv, PlayTypeOK
  <2>10. ASSUME NEW i \in Indices, TimerExpire(i)
         PROVE  UNCHANGED <<questions, rows, scores, status>>
    BY <2>10 DEF TimerExpire, dbVars
  <2>. QED
    BY <2>1, <2>3, <2>4, <2>5, <2>6, <2>7, <2>8, <2>9, <2>10 DEF Next, HandleMessage
<1>. QED
  BY <1>1, <1>2, Invariance, PTL DEF Spec

\* While no statement fails, no row of an answer is dropped and the totals in the
\* database are the room's.
THEOREM LedgerIsSafe == Spec => []LedgerIsExact
  BY InsertSafety, DatabaseIsLedger, PTL DEF LedgerIsExact

\* Every accepted answer is credited once, in the step that closes its question, and
\* scores move in no other step.
THEOREM CreditIsExact == Spec => AnswersCountOnce
  BY AnswersStand, ScoresStandStill DEF AnswersCountOnce
=============================================================================
