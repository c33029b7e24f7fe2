-------------------------- MODULE GameSessionProofs --------------------------
(***************************************************************************)
(* Proofs about GameSession, for any number of sessions, requests, users,  *)
(* codes and connections, any number of restarts, and statements that may  *)
(* fail.                                                                   *)
(***************************************************************************)
EXTENDS GameSession, TLAPS

\* A request past its first step knows a session that has a row.
RequestInv ==
  /\ \A q \in Requests :
       at[q] # "idle" => target[q] \in Sessions /\ dbStatus[target[q]] # "none"
  /\ \A s \in Sessions : target[s] = s

\* Whoever has a ticket has a row, and a row belongs to a join that is past its INSERT.
RowInv ==
  \A j \in Joins : /\ at[j] \in {"stored", "done"} => j \in participants
                   /\ j \in participants => at[j] \notin {"idle", "checked"}

\* A redeemed ticket is gone for good: its request is done and issues no other.
TicketInv ==
  \A c \in Conns :
    /\ conn[c] = "idle" <=> ticketOf[c] = None
    /\ ticketOf[c] # None => at[ticketOf[c]] = "done" /\ ticketOf[c] \notin tickets

\* While a session has no room, the requests about to make one found it unfinished, and
\* it cannot be finished without a room.
RoomInv ==
  /\ NoLiveRoomForFinished
  /\ \A s \in Sessions :
       room[s] = "absent" =>
         /\ s \notin hasQuiz
         /\ at[s] \in {"stored", "issued"} => dbStatus[s] # "finished"
         /\ \A r \in Resumes :
              at[r] = "checked" /\ target[r] = s => dbStatus[s] # "finished"

IInv == TypeOK /\ RequestInv /\ RowInv /\ TicketInv /\ RoomInv /\ OneConnectionPerTicket
        /\ UserJoinsOnce

-----------------------------------------------------------------------------
\* The invariant holds at the start, when there is no row, request or room.
LEMMA InitInv == Init => IInv
  BY SessionsAssumption
     DEF Init, Life!Init, IInv, TypeOK, RequestInv, RowInv, TicketInv, RoomInv,
         NoLiveRoomForFinished, OneConnectionPerTicket, UserJoinsOnce, Active, Requests


\* Every step keeps the types.
LEMMA TypeStep ==
  ASSUME TypeOK, RequestInv, TicketInv, [Next]_vars
  PROVE  TypeOK'
<1>. USE DEF Requests, rowVars, reqVars, roomVars, connVars, TypeOK, RequestInv,
             TicketInv, Active
<1>1. ASSUME NEW s \in Sessions, CreateInsert(s) PROVE TypeOK'
  BY <1>1, SessionsAssumption DEF CreateInsert, Move, Life!Open
<1>2. ASSUME NEW s \in Sessions, CreateIssue(s) PROVE TypeOK'
  BY <1>2, SessionsAssumption DEF CreateIssue, Move, Issue
<1>3. ASSUME NEW s \in Sessions, CreateRoom(s) PROVE TypeOK'
  BY <1>3, SessionsAssumption DEF CreateRoom, Move, EnsureRoom
<1>4. ASSUME NEW s \in Sessions, StartGame(s) PROVE TypeOK'
  BY <1>4, SessionsAssumption DEF StartGame, SetStatus
<1>5. ASSUME NEW s \in Sessions, FinishGame(s) PROVE TypeOK'
  BY <1>5, SessionsAssumption DEF FinishGame, SetStatus
<1>6. ASSUME NEW j \in Joins, JoinLookup(j) PROVE TypeOK'
  BY <1>6, SessionsAssumption DEF JoinLookup, Move
<1>7. ASSUME NEW j \in Joins, JoinInsert(j) PROVE TypeOK'
  BY <1>7, SessionsAssumption DEF JoinInsert, Move
<1>8. ASSUME NEW j \in Joins, JoinIssue(j) PROVE TypeOK'
  BY <1>8, SessionsAssumption DEF JoinIssue, Move, Issue
<1>9. ASSUME NEW r \in Resumes, ResumeLookup(r) PROVE TypeOK'
  BY <1>9, SessionsAssumption DEF ResumeLookup, Move, MayResume
<1>10. ASSUME NEW r \in Resumes, ResumeRoom(r) PROVE TypeOK'
  BY <1>10, SessionsAssumption DEF ResumeRoom, Move, EnsureRoom
<1>11. ASSUME NEW r \in Resumes, ResumeIssue(r) PROVE TypeOK'
  BY <1>11, SessionsAssumption DEF ResumeIssue, Move, Issue
<1>12. ASSUME NEW t \in Requests, Expire(t) PROVE TypeOK'
  BY <1>12, SessionsAssumption DEF Expire
<1>13. ASSUME NEW c \in Conns, Enter(c) PROVE TypeOK'
  BY <1>13, SessionsAssumption DEF Enter, BareRoom, EnsureRoom
<1>14. ASSUME NEW c \in Conns, Leave(c) PROVE TypeOK'
  BY <1>14, SessionsAssumption DEF Leave
<1>15. ASSUME NEW c \in Conns, NEW t \in Requests, Redeem(c, t) PROVE TypeOK'
  BY <1>15, SessionsAssumption DEF Redeem, Spend
<1>16. ASSUME Restart PROVE TypeOK'
  BY <1>16, SessionsAssumption DEF Restart
<1>17. ASSUME UNCHANGED vars PROVE TypeOK'
  BY <1>17 DEF vars
<1>. QED
  BY <1>1, <1>2, <1>3, <1>4, <1>5, <1>6, <1>7, <1>8, <1>9, <1>10, <1>11, <1>12, <1>13,
     <1>14, <1>15, <1>16, <1>17 DEF Next

\* A step keeps what requests know: no row is removed, and a target is chosen once.
LEMMA RequestStep ==
  ASSUME TypeOK, RequestInv, TicketInv, [Next]_vars
  PROVE  RequestInv'
<1>. USE DEF Requests, rowVars, reqVars, roomVars, connVars, TypeOK, RequestInv, TicketInv
<1>1. ASSUME NEW s \in Sessions, CreateInsert(s) PROVE RequestInv'
  BY <1>1, SessionsAssumption DEF CreateInsert, Move, Life!Open
<1>2. ASSUME NEW s \in Sessions, CreateIssue(s) PROVE RequestInv'
  BY <1>2, SessionsAssumption DEF CreateIssue, Move, Issue
<1>3. ASSUME NEW s \in Sessions, CreateRoom(s) PROVE RequestInv'
  BY <1>3, SessionsAssumption DEF CreateRoom, Move, EnsureRoom
<1>4. ASSUME NEW s \in Sessions, StartGame(s) PROVE RequestInv'
  BY <1>4, SessionsAssumption DEF StartGame, SetStatus
<1>5. ASSUME NEW s \in Sessions, FinishGame(s) PROVE RequestInv'
  BY <1>5, SessionsAssumption DEF FinishGame, SetStatus
<1>6. ASSUME NEW j \in Joins, JoinLookup(j) PROVE RequestInv'
  BY <1>6, SessionsAssumption DEF JoinLookup, Move
<1>7. ASSUME NEW j \in Joins, JoinInsert(j) PROVE RequestInv'
  BY <1>7, SessionsAssumption DEF JoinInsert, Move
<1>8. ASSUME NEW j \in Joins, JoinIssue(j) PROVE RequestInv'
  BY <1>8, SessionsAssumption DEF JoinIssue, Move, Issue
<1>9. ASSUME NEW r \in Resumes, ResumeLookup(r) PROVE RequestInv'
  BY <1>9, SessionsAssumption DEF ResumeLookup, Move, MayResume, Active
<1>10. ASSUME NEW r \in Resumes, ResumeRoom(r) PROVE RequestInv'
  BY <1>10, SessionsAssumption DEF ResumeRoom, Move, EnsureRoom
<1>11. ASSUME NEW r \in Resumes, ResumeIssue(r) PROVE RequestInv'
  BY <1>11, SessionsAssumption DEF ResumeIssue, Move, Issue
<1>12. ASSUME NEW t \in Requests, Expire(t) PROVE RequestInv'
  BY <1>12, SessionsAssumption DEF Expire
<1>13. ASSUME NEW c \in Conns, Enter(c) PROVE RequestInv'
  BY <1>13, SessionsAssumption DEF Enter, BareRoom, EnsureRoom
<1>14. ASSUME NEW c \in Conns, Leave(c) PROVE RequestInv'
  BY <1>14, SessionsAssumption DEF Leave
<1>15. ASSUME NEW c \in Conns, NEW t \in Requests, Redeem(c, t) PROVE RequestInv'
  BY <1>15, SessionsAssumption DEF Redeem, Spend
<1>16. ASSUME Restart PROVE RequestInv'
  BY <1>16, SessionsAssumption DEF Restart
<1>17. ASSUME UNCHANGED vars PROVE RequestInv'
  BY <1>17 DEF vars
<1>. QED
  BY <1>1, <1>2, <1>3, <1>4, <1>5, <1>6, <1>7, <1>8, <1>9, <1>10, <1>11, <1>12, <1>13,
     <1>14, <1>15, <1>16, <1>17 DEF Next

\* A step keeps the rows of those who have tickets.
LEMMA RowStep ==
  ASSUME TypeOK, RowInv, [Next]_vars
  PROVE  RowInv'
<1>. USE DEF Requests, rowVars, reqVars, roomVars, connVars, TypeOK, RowInv
<1>1. ASSUME NEW s \in Sessions, CreateInsert(s) PROVE RowInv'
  BY <1>1, SessionsAssumption DEF CreateInsert, Move
<1>2. ASSUME NEW s \in Sessions, CreateIssue(s) PROVE RowInv'
  BY <1>2, SessionsAssumption DEF CreateIssue, Move, Issue
<1>3. ASSUME NEW s \in Sessions, CreateRoom(s) PROVE RowInv'
  BY <1>3, SessionsAssumption DEF CreateRoom, Move, EnsureRoom
<1>4. ASSUME NEW s \in Sessions, StartGame(s) PROVE RowInv'
  BY <1>4, SessionsAssumption DEF StartGame, SetStatus
<1>5. ASSUME NEW s \in Sessions, FinishGame(s) PROVE RowInv'
  BY <1>5, SessionsAssumption DEF FinishGame, SetStatus
<1>6. ASSUME NEW j \in Joins, JoinLookup(j) PROVE RowInv'
  BY <1>6, SessionsAssumption DEF JoinLookup, Move
<1>7. ASSUME NEW j \in Joins, JoinInsert(j) PROVE RowInv'
  BY <1>7, SessionsAssumption DEF JoinInsert, Move
<1>8. ASSUME NEW j \in Joins, JoinIssue(j) PROVE RowInv'
  BY <1>8, SessionsAssumption DEF JoinIssue, Move, Issue
<1>9. ASSUME NEW r \in Resumes, ResumeLookup(r) PROVE RowInv'
  BY <1>9, SessionsAssumption DEF ResumeLookup, Move, MayResume
<1>10. ASSUME NEW r \in Resumes, ResumeRoom(r) PROVE RowInv'
  BY <1>10, SessionsAssumption DEF ResumeRoom, Move, EnsureRoom
<1>11. ASSUME NEW r \in Resumes, ResumeIssue(r) PROVE RowInv'
  BY <1>11, SessionsAssumption DEF ResumeIssue, Move, Issue
<1>12. ASSUME NEW t \in Requests, Expire(t) PROVE RowInv'
  BY <1>12, SessionsAssumption DEF Expire
<1>13. ASSUME NEW c \in Conns, Enter(c) PROVE RowInv'
  BY <1>13, SessionsAssumption DEF Enter, BareRoom, EnsureRoom
<1>14. ASSUME NEW c \in Conns, Leave(c) PROVE RowInv'
  BY <1>14, SessionsAssumption DEF Leave
<1>15. ASSUME NEW c \in Conns, NEW t \in Requests, Redeem(c, t) PROVE RowInv'
  BY <1>15, SessionsAssumption DEF Redeem, Spend
<1>16. ASSUME Restart PROVE RowInv'
  BY <1>16, SessionsAssumption DEF Restart
<1>17. ASSUME UNCHANGED vars PROVE RowInv'
  BY <1>17 DEF vars
<1>. QED
  BY <1>1, <1>2, <1>3, <1>4, <1>5, <1>6, <1>7, <1>8, <1>9, <1>10, <1>11, <1>12, <1>13,
     <1>14, <1>15, <1>16, <1>17 DEF Next

\* A step keeps redeemed tickets spent.
LEMMA TicketStep ==
  ASSUME TypeOK, TicketInv, OneConnectionPerTicket, [Next]_vars
  PROVE  TicketInv' /\ OneConnectionPerTicket'
<1>. USE DEF Requests, rowVars, reqVars, roomVars, connVars, TypeOK, TicketInv,
             OneConnectionPerTicket
<1>1. ASSUME NEW s \in Sessions, CreateInsert(s) PROVE TicketInv' /\ OneConnectionPerTicket'
  BY <1>1, SessionsAssumption DEF CreateInsert, Move
<1>2. ASSUME NEW s \in Sessions, CreateIssue(s) PROVE TicketInv' /\ OneConnectionPerTicket'
  BY <1>2, SessionsAssumption DEF CreateIssue, Move, Issue
<1>3. ASSUME NEW s \in Sessions, CreateRoom(s) PROVE TicketInv' /\ OneConnectionPerTicket'
  BY <1>3, SessionsAssumption DEF CreateRoom, Move, EnsureRoom
<1>4. ASSUME NEW s \in Sessions, StartGame(s) PROVE TicketInv' /\ OneConnectionPerTicket'
  BY <1>4, SessionsAssumption DEF StartGame, SetStatus
<1>5. ASSUME NEW s \in Sessions, FinishGame(s) PROVE TicketInv' /\ OneConnectionPerTicket'
  BY <1>5, SessionsAssumption DEF FinishGame, SetStatus
<1>6. ASSUME NEW j \in Joins, JoinLookup(j) PROVE TicketInv' /\ OneConnectionPerTicket'
  BY <1>6, SessionsAssumption DEF JoinLookup, Move
<1>7. ASSUME NEW j \in Joins, JoinInsert(j) PROVE TicketInv' /\ OneConnectionPerTicket'
  BY <1>7, SessionsAssumption DEF JoinInsert, Move
<1>8. ASSUME NEW j \in Joins, JoinIssue(j) PROVE TicketInv' /\ OneConnectionPerTicket'
  BY <1>8, SessionsAssumption DEF JoinIssue, Move, Issue
<1>9. ASSUME NEW r \in Resumes, ResumeLookup(r) PROVE TicketInv' /\ OneConnectionPerTicket'
  BY <1>9, SessionsAssumption DEF ResumeLookup, Move, MayResume
<1>10. ASSUME NEW r \in Resumes, ResumeRoom(r) PROVE TicketInv' /\ OneConnectionPerTicket'
  BY <1>10, SessionsAssumption DEF ResumeRoom, Move, EnsureRoom
<1>11. ASSUME NEW r \in Resumes, ResumeIssue(r) PROVE TicketInv' /\ OneConnectionPerTicket'
  BY <1>11, SessionsAssumption DEF ResumeIssue, Move, Issue
<1>12. ASSUME NEW t \in Requests, Expire(t) PROVE TicketInv' /\ OneConnectionPerTicket'
  BY <1>12, SessionsAssumption DEF Expire
<1>13. ASSUME NEW c \in Conns, Enter(c) PROVE TicketInv' /\ OneConnectionPerTicket'
  BY <1>13, SessionsAssumption DEF Enter, BareRoom, EnsureRoom
<1>14. ASSUME NEW c \in Conns, Leave(c) PROVE TicketInv' /\ OneConnectionPerTicket'
  BY <1>14, SessionsAssumption DEF Leave
<1>15. ASSUME NEW c \in Conns, NEW t \in Requests, Redeem(c, t)
       PROVE  TicketInv' /\ OneConnectionPerTicket'
  BY <1>15, SessionsAssumption DEF Redeem, Spend
<1>16. ASSUME Restart PROVE TicketInv' /\ OneConnectionPerTicket'
  BY <1>16, SessionsAssumption DEF Restart
<1>17. ASSUME UNCHANGED vars PROVE TicketInv' /\ OneConnectionPerTicket'
  BY <1>17 DEF vars
<1>. QED
  BY <1>1, <1>2, <1>3, <1>4, <1>5, <1>6, <1>7, <1>8, <1>9, <1>10, <1>11, <1>12, <1>13,
     <1>14, <1>15, <1>16, <1>17 DEF Next

\* A step keeps a user's rows apart: the unique index tests the rows, and no later step
\* changes whose they are.
LEMMA UserStep ==
  ASSUME TypeOK, RowInv, UserJoinsOnce, [Next]_vars
  PROVE  UserJoinsOnce'
<1>. USE DEF Requests, rowVars, reqVars, roomVars, connVars, TypeOK, RowInv, UserJoinsOnce
<1>1. ASSUME NEW s \in Sessions, CreateInsert(s) PROVE UserJoinsOnce'
  BY <1>1, SessionsAssumption DEF CreateInsert, Move
<1>2. ASSUME NEW s \in Sessions, CreateIssue(s) PROVE UserJoinsOnce'
  BY <1>2, SessionsAssumption DEF CreateIssue, Move, Issue
<1>3. ASSUME NEW s \in Sessions, CreateRoom(s) PROVE UserJoinsOnce'
  BY <1>3, SessionsAssumption DEF CreateRoom, Move, EnsureRoom
<1>4. ASSUME NEW s \in Sessions, StartGame(s) PROVE UserJoinsOnce'
  BY <1>4, SessionsAssumption DEF StartGame, SetStatus
<1>5. ASSUME NEW s \in Sessions, FinishGame(s) PROVE UserJoinsOnce'
  BY <1>5, SessionsAssumption DEF FinishGame, SetStatus
<1>6. ASSUME NEW j \in Joins, JoinLookup(j) PROVE UserJoinsOnce'
  BY <1>6, SessionsAssumption DEF JoinLookup, Move
<1>7. ASSUME NEW j \in Joins, JoinInsert(j) PROVE UserJoinsOnce'
  BY <1>7, SessionsAssumption DEF JoinInsert, Move, RowConflicts, Joined
<1>8. ASSUME NEW j \in Joins, JoinIssue(j) PROVE UserJoinsOnce'
  BY <1>8, SessionsAssumption DEF JoinIssue, Move, Issue
<1>9. ASSUME NEW r \in Resumes, ResumeLookup(r) PROVE UserJoinsOnce'
  BY <1>9, SessionsAssumption DEF ResumeLookup, Move, MayResume
<1>10. ASSUME NEW r \in Resumes, ResumeRoom(r) PROVE UserJoinsOnce'
  BY <1>10, SessionsAssumption DEF ResumeRoom, Move, EnsureRoom
<1>11. ASSUME NEW r \in Resumes, ResumeIssue(r) PROVE UserJoinsOnce'
  BY <1>11, SessionsAssumption DEF ResumeIssue, Move, Issue
<1>12. ASSUME NEW t \in Requests, Expire(t) PROVE UserJoinsOnce'
  BY <1>12, SessionsAssumption DEF Expire
<1>13. ASSUME NEW c \in Conns, Enter(c) PROVE UserJoinsOnce'
  BY <1>13, SessionsAssumption DEF Enter, BareRoom, EnsureRoom
<1>14. ASSUME NEW c \in Conns, Leave(c) PROVE UserJoinsOnce'
  BY <1>14, SessionsAssumption DEF Leave
<1>15. ASSUME NEW c \in Conns, NEW t \in Requests, Redeem(c, t) PROVE UserJoinsOnce'
  BY <1>15, SessionsAssumption DEF Redeem, Spend
<1>16. ASSUME Restart PROVE UserJoinsOnce'
  BY <1>16, SessionsAssumption DEF Restart
<1>17. ASSUME UNCHANGED vars PROVE UserJoinsOnce'
  BY <1>17 DEF vars
<1>. QED
  BY <1>1, <1>2, <1>3, <1>4, <1>5, <1>6, <1>7, <1>8, <1>9, <1>10, <1>11, <1>12, <1>13,
     <1>14, <1>15, <1>16, <1>17 DEF Next

\* A step gives a finished session no live room.
LEMMA RoomStep ==
  ASSUME IInv, [Next]_vars
  PROVE  RoomInv'
<1>. USE DEF Requests, rowVars, reqVars, roomVars, connVars, IInv, TypeOK, RequestInv,
             TicketInv, RoomInv, NoLiveRoomForFinished, Active
<1>1. ASSUME NEW s \in Sessions, CreateInsert(s) PROVE RoomInv'
  BY <1>1, SessionsAssumption DEF CreateInsert, Move, Life!Open
<1>2. ASSUME NEW s \in Sessions, CreateIssue(s) PROVE RoomInv'
  BY <1>2, SessionsAssumption DEF CreateIssue, Move, Issue
<1>3. ASSUME NEW s \in Sessions, CreateRoom(s) PROVE RoomInv'
  BY <1>3, SessionsAssumption DEF CreateRoom, Move, EnsureRoom
<1>4. ASSUME NEW s \in Sessions, StartGame(s) PROVE RoomInv'
  BY <1>4, SessionsAssumption DEF StartGame, SetStatus
<1>5. ASSUME NEW s \in Sessions, FinishGame(s) PROVE RoomInv'
  BY <1>5, SessionsAssumption DEF FinishGame, SetStatus
<1>6. ASSUME NEW j \in Joins, JoinLookup(j) PROVE RoomInv'
  BY <1>6, SessionsAssumption DEF JoinLookup, Move
<1>7. ASSUME NEW j \in Joins, JoinInsert(j) PROVE RoomInv'
  BY <1>7, SessionsAssumption DEF JoinInsert, Move
<1>8. ASSUME NEW j \in Joins, JoinIssue(j) PROVE RoomInv'
  BY <1>8, SessionsAssumption DEF JoinIssue, Move, Issue
<1>9. ASSUME NEW r \in Resumes, ResumeLookup(r) PROVE RoomInv'
  BY <1>9, SessionsAssumption DEF ResumeLookup, Move, MayResume
<1>10. ASSUME NEW r \in Resumes, ResumeRoom(r) PROVE RoomInv'
  BY <1>10, SessionsAssumption DEF ResumeRoom, Move, EnsureRoom
<1>11. ASSUME NEW r \in Resumes, ResumeIssue(r) PROVE RoomInv'
  BY <1>11, SessionsAssumption DEF ResumeIssue, Move, Issue
<1>12. ASSUME NEW t \in Requests, Expire(t) PROVE RoomInv'
  BY <1>12, SessionsAssumption DEF Expire
<1>13. ASSUME NEW c \in Conns, Enter(c) PROVE RoomInv'
  BY <1>13, SessionsAssumption DEF Enter, BareRoom, EnsureRoom
<1>14. ASSUME NEW c \in Conns, Leave(c) PROVE RoomInv'
  BY <1>14, SessionsAssumption DEF Leave
<1>15. ASSUME NEW c \in Conns, NEW t \in Requests, Redeem(c, t) PROVE RoomInv'
  BY <1>15, SessionsAssumption DEF Redeem, Spend
<1>16. ASSUME Restart PROVE RoomInv'
  BY <1>16, SessionsAssumption DEF Restart
<1>17. ASSUME UNCHANGED vars PROVE RoomInv'
  BY <1>17 DEF vars
<1>. QED
  BY <1>1, <1>2, <1>3, <1>4, <1>5, <1>6, <1>7, <1>8, <1>9, <1>10, <1>11, <1>12, <1>13,
     <1>14, <1>15, <1>16, <1>17 DEF Next

\* Every request, connection, room and restart keeps the invariant.
LEMMA NextInv == IInv /\ [Next]_vars => IInv'
  BY TypeStep, RequestStep, RowStep, TicketStep, UserStep, RoomStep DEF IInv

\* The inductive invariant of GameSession.
THEOREM Invariance == Spec => []IInv
<1>. QED
  BY InitInv, NextInv, PTL DEF Spec

-----------------------------------------------------------------------------
\* Types, for all constants: the requests, tickets, rooms and rows of GameSession.
THEOREM TypeCorrect == Spec => []TypeOK
<1>. QED
  BY Invariance, PTL DEF IInv

\* However often the server restarts, no room that could be played belongs to a session
\* whose row is finished (EnsureRoom, ResumeSession, handleHostStartGame).
THEOREM FinishedHasNoLiveRoom == Spec => []NoLiveRoomForFinished
<1>. QED
  BY Invariance, PTL DEF IInv, RoomInv

\* GETDEL and the ticket's fresh name let a participantID connect once (TicketStore).
THEOREM TicketsConnectOnce == Spec => []OneConnectionPerTicket
<1>. QED
  BY Invariance, PTL DEF IInv

\* A user has one row in a session, whatever requests of JoinByCode overlap.
THEOREM UsersJoinOnce == Spec => []UserJoinsOnce
<1>. QED
  BY Invariance, PTL DEF IInv

\* Every player in a room has a row, to which the room can write (JoinByCode, ServeWS).
THEOREM PlayersAreRows == Spec => []PlayersHaveRows
<1>1. IInv => PlayersHaveRows
  BY DEF IInv, TypeOK, RowInv, TicketInv, PlayersHaveRows, InRoom, IsHost
<1>. QED
  BY <1>1, Invariance, PTL

\* Rows, tickets and clients agree, through restarts, races and stale tickets.
THEOREM RowsAreSafe == Spec => []RoomsMatchRows
  BY PlayersAreRows, UsersJoinOnce, TicketsConnectOnce, PTL DEF RoomsMatchRows


(***************************************************************************)
(* The rows implement SessionLife: the room's two unguarded updates are a  *)
(* start, a finish, or no change.                                          *)
(***************************************************************************)
\* Every step of the service is a step of SessionLife or leaves the row alone.
LEMMA LifeStep ==
  ASSUME IInv, [Next]_vars
  PROVE  [Life!Next]_(Life!vars)
<1>. USE DEF IInv, TypeOK, Life!vars, Life!Next, rowVars
<1>1. ASSUME NEW s \in Sessions, CreateInsert(s) PROVE [Life!Next]_(Life!vars)
  BY <1>1 DEF CreateInsert
<1>2. ASSUME NEW s \in Sessions, HostIn(s) PROVE dbStatus[s] # "none"
  BY <1>2 DEF HostIn, InRoom, RequestInv, TicketInv, Requests
<1>3. ASSUME NEW s \in Sessions, StartGame(s) PROVE [Life!Next]_(Life!vars)
  <2>1. dbStatus[s] \in {"lobby", "in_progress"}
    BY <1>2, <1>3 DEF StartGame, RoomInv, NoLiveRoomForFinished, Active
  <2>. QED
    BY <1>3, <2>1 DEF StartGame, SetStatus, Life!Start
<1>4. ASSUME NEW s \in Sessions, FinishGame(s) PROVE [Life!Next]_(Life!vars)
  <2>1. dbStatus[s] \in {"lobby", "in_progress", "finished"}
    BY <1>2, <1>4 DEF FinishGame
  <2>. QED
    BY <1>4, <2>1 DEF FinishGame, SetStatus, Life!Finish, Life!Active
<1>5. ASSUME NEW s \in Sessions, CreateIssue(s) \/ CreateRoom(s) PROVE UNCHANGED Life!vars
  BY <1>5 DEF CreateIssue, CreateRoom
<1>6. ASSUME NEW j \in Joins, JoinLookup(j) \/ JoinInsert(j) \/ JoinIssue(j)
      PROVE UNCHANGED Life!vars
  BY <1>6 DEF JoinLookup, JoinInsert, JoinIssue
<1>7. ASSUME NEW r \in Resumes, ResumeLookup(r) \/ ResumeRoom(r) \/ ResumeIssue(r)
      PROVE UNCHANGED Life!vars
  BY <1>7 DEF ResumeLookup, ResumeRoom, ResumeIssue
<1>8. ASSUME NEW t \in Requests, NEW c \in Conns,
             Redeem(c, t) \/ Enter(c) \/ Leave(c)
      PROVE UNCHANGED Life!vars
  BY <1>8 DEF Redeem, Enter, Leave
<1>9. ASSUME NEW t \in Requests, Expire(t) PROVE UNCHANGED Life!vars
  BY <1>9 DEF Expire
<1>10. ASSUME NEW c \in Conns, Enter(c) \/ Leave(c) PROVE UNCHANGED Life!vars
  BY <1>10 DEF Enter, Leave
<1>11. ASSUME Restart \/ UNCHANGED vars PROVE UNCHANGED Life!vars
  BY <1>11 DEF Restart, vars
<1>. QED
  BY <1>1, <1>3, <1>4, <1>5, <1>6, <1>7, <1>8, <1>9, <1>10, <1>11 DEF Next

\* The session's row lives as SessionLife says, through restarts, stale tickets and
\* failing statements.
THEOREM RefinesSessionLife == Spec => ImplementsSessionLife
<1>1. Init => Life!Init
  BY DEF Init
<1>. QED
  BY <1>1, LifeStep, Invariance, PTL DEF Spec, ImplementsSessionLife, Life!Spec
=============================================================================
