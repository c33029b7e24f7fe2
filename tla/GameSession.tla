---------------------------- MODULE GameSession ----------------------------
(***************************************************************************)
(* The life of game sessions across the HTTP service (game/service.go),    *)
(* the ticket store in Redis, the hub's map of rooms and the rows in       *)
(* PostgreSQL, with requests that interleave at every call they make and a *)
(* server that may restart: the rows and the tickets survive a restart,    *)
(* the rooms, the connections and the requests in flight do not.           *)
(*                                                                         *)
(* A request issues at most one ticket and is the ticket's name; a join is *)
(* also the name of its participant row, and a ticket that of the          *)
(* participantID it carries (a fresh one for a host).  Of a room only its  *)
(* status and whether it knows its quiz are kept: the rest is Room's.      *)
(***************************************************************************)
EXTENDS FiniteSets

CONSTANTS Sessions,          \* CreateSession requests, and the sessions they make
          Joins,             \* JoinByCode requests
          Resumes,           \* ResumeSession requests
          Users, Guest,      \* who joins: a user, or a guest without user_id
          Codes, NoCode,
          Conns,             \* WebSocket connections, refused ones included
          None,
          DBMayFail          \* whether the statements of a room may fail

ASSUME SessionsAssumption ==
  /\ Sessions \cap Joins = {} /\ Sessions \cap Resumes = {} /\ Joins \cap Resumes = {}
  /\ Guest \notin Users /\ NoCode \notin Codes
  /\ None \notin Sessions \cup Joins \cup Resumes \cup Users \cup {Guest}
  /\ DBMayFail \in BOOLEAN

Requests == Sessions \cup Joins \cup Resumes

VARIABLES
  dbStatus,                  \* game_sessions.status, "none" for no row
  code,                      \* game_sessions.room_code
  participants,              \* rows of game_participants
  at,                        \* where each request is
  target,                    \* the session a request is about
  user,                      \* the user a join is for
  tickets,                   \* ws_ticket: keys in Redis
  room,                      \* the hub's rooms: their status, or "absent"
  hasQuiz,                   \* rooms made with the session's quiz
  conn,                      \* where each connection is
  ticketOf                   \* the ticket a connection redeemed

rowVars  == <<dbStatus, code, participants>>
reqVars  == <<at, target, user>>
roomVars == <<room, hasQuiz>>
connVars == <<conn, ticketOf>>
vars     == <<rowVars, reqVars, tickets, roomVars, connVars>>

Active  == {"lobby", "in_progress"}
Life    == INSTANCE SessionLife WITH status <- dbStatus
IsHost(t) == t \notin Joins
InRoom(s) == {c \in Conns : conn[c] = "joined" /\ target[ticketOf[c]] = s}

Init ==
  /\ Life!Init
  /\ participants = {}
  /\ at = [q \in Requests |-> "idle"]
  /\ target = [q \in Requests |-> IF q \in Sessions THEN q ELSE None]
  /\ user = [j \in Joins |-> None]
  /\ tickets = {}
  /\ room = [s \in Sessions |-> "absent"]
  /\ hasQuiz = {}
  /\ conn = [c \in Conns |-> "idle"]
  /\ ticketOf = [c \in Conns |-> None]

-----------------------------------------------------------------------------
(***************************************************************************)
(* Steps that requests share.                                              *)
(***************************************************************************)
Move(q, from, to) == at[q] = from /\ at' = [at EXCEPT ![q] = to]

\* TicketStore.Issue; a request whose ticket cannot be stored answers with an error.
Issue(q, from, to) ==
  \/ /\ Move(q, from, to)
     /\ tickets' = tickets \cup {q}
  \/ /\ Move(q, from, "failed")
     /\ UNCHANGED tickets

\* Mutant: newRoom leaves the status to its zero value.
EnsureRoomWithoutStatus(s, knowsQuiz) ==
  IF room[s] # "absent"
  THEN UNCHANGED roomVars
  ELSE /\ room' = [room EXCEPT ![s] = ""]
       /\ hasQuiz' = IF knowsQuiz THEN hasQuiz \cup {s} ELSE hasQuiz

\* Hub.CreateRoom: the room there is, or a new one in its lobby.
EnsureRoom(s, knowsQuiz) ==
  IF room[s] # "absent"
  THEN UNCHANGED roomVars
  ELSE /\ room' = [room EXCEPT ![s] = "lobby"]
       /\ hasQuiz' = IF knowsQuiz THEN hasQuiz \cup {s} ELSE hasQuiz

(***************************************************************************)
(* CreateSession.                                                          *)
(***************************************************************************)
\* The INSERT, with the first of the random codes that the unique index accepts.
CreateInsert(s) ==
  /\ Move(s, "idle", "stored")
  /\ \E k \in Codes : Life!Open(s, k)
  /\ UNCHANGED <<participants, target, user, tickets, roomVars, connVars>>

CreateIssue(s) ==
  /\ Issue(s, "stored", "issued")
  /\ UNCHANGED <<rowVars, target, user, roomVars, connVars>>

CreateRoom(s) ==
  /\ Move(s, "issued", "done")
  /\ EnsureRoom(s, TRUE)
  /\ UNCHANGED <<rowVars, target, user, tickets, connVars>>

(***************************************************************************)
(* JoinByCode.                                                             *)
(***************************************************************************)
Joined(s, u) == \E j \in participants : target[j] = s /\ user[j] = u

\* The lookup of the code, the test of the status and that of an earlier join.
JoinLookup(j) ==
  /\ Move(j, "idle", "checked")
  /\ \E s \in Sessions, u \in Users \cup {Guest} :
       /\ dbStatus[s] = "lobby"
       /\ u # Guest => ~Joined(s, u)
       /\ target' = [target EXCEPT ![j] = s]
       /\ user' = [user EXCEPT ![j] = u]
  /\ UNCHANGED <<rowVars, tickets, roomVars, connVars>>

\* Mutant: the index covers no user.
RowNeverConflicts(j) == FALSE

\* game_participants_session_user_idx: one row for a user in a session.
RowConflicts(j) == user[j] # Guest /\ Joined(target[j], user[j])

\* Mutant: a conflicting INSERT is taken for a repeated join.
JoinInsertOrIgnore(j) ==
  /\ Move(j, "checked", "stored")
  /\ participants' = IF RowConflicts(j) THEN participants ELSE participants \cup {j}
  /\ UNCHANGED <<dbStatus, code, target, user, tickets, roomVars, connVars>>

\* The INSERT; a conflict makes the request fail.
JoinInsert(j) ==
  /\ IF RowConflicts(j)
     THEN Move(j, "checked", "failed") /\ UNCHANGED participants
     ELSE Move(j, "checked", "stored") /\ participants' = participants \cup {j}
  /\ UNCHANGED <<dbStatus, code, target, user, tickets, roomVars, connVars>>

JoinIssue(j) ==
  /\ Issue(j, "stored", "done")
  /\ UNCHANGED <<rowVars, target, user, roomVars, connVars>>

(***************************************************************************)
(* ResumeSession.                                                          *)
(***************************************************************************)
\* Mutant: the test of the status is left out.
MayResumeAny(s) == dbStatus[s] # "none"

MayResume(s) == dbStatus[s] \in Active

ResumeLookup(r) ==
  /\ Move(r, "idle", "checked")
  /\ \E s \in Sessions : MayResume(s) /\ target' = [target EXCEPT ![r] = s]
  /\ UNCHANGED <<rowVars, user, tickets, roomVars, connVars>>

\* GetRoom and, without a room, CreateRoom: a room is never removed between the two.
ResumeRoom(r) ==
  /\ Move(r, "checked", "stored")
  /\ EnsureRoom(target[r], TRUE)
  /\ UNCHANGED <<rowVars, target, user, tickets, connVars>>

ResumeIssue(r) ==
  /\ Issue(r, "stored", "done")
  /\ UNCHANGED <<rowVars, target, user, roomVars, connVars>>

-----------------------------------------------------------------------------
(***************************************************************************)
(* Tickets and connections.                                                *)
(***************************************************************************)
\* The key reaches its TTL.
Expire(t) ==
  /\ t \in tickets
  /\ tickets' = tickets \ {t}
  /\ UNCHANGED <<rowVars, reqVars, roomVars, connVars>>

\* Mutant: GET.
SpendNot(t) == tickets' = tickets

\* GETDEL.
Spend(t) == tickets' = tickets \ {t}

\* ServeWS redeems a ticket that its holder has been given.
Redeem(c, t) ==
  /\ conn[c] = "idle" /\ t \in tickets /\ at[t] = "done"
  /\ Spend(t)
  /\ conn' = [conn EXCEPT ![c] = "redeemed"]
  /\ ticketOf' = [ticketOf EXCEPT ![c] = t]
  /\ UNCHANGED <<rowVars, reqVars, roomVars>>

\* Mutant: the host's connection recreates the room with the session's quiz.
HostRoom(s) == EnsureRoom(s, TRUE)

\* The host finds no room: one without its quiz.
BareRoom(s) == EnsureRoom(s, FALSE)

\* ServeWS finds the room and registers; a player without a room is refused.
Enter(c) ==
  LET t == ticketOf[c]
      s == target[t]
  IN  /\ conn[c] = "redeemed"
      /\ IF IsHost(t) THEN BareRoom(s) ELSE UNCHANGED roomVars
      /\ conn' = [conn EXCEPT ![c] = IF IsHost(t) \/ room[s] # "absent"
                                     THEN "joined" ELSE "gone"]
      /\ UNCHANGED <<rowVars, reqVars, tickets, ticketOf>>

\* handleLeave: the room stays, even without clients.
Leave(c) ==
  /\ conn[c] = "joined"
  /\ conn' = [conn EXCEPT ![c] = "gone"]
  /\ UNCHANGED <<rowVars, reqVars, tickets, roomVars, ticketOf>>

-----------------------------------------------------------------------------
(***************************************************************************)
(* The room's two writes to the session's row, which test no status; the   *)
(* room ignores their errors.                                              *)
(***************************************************************************)
HostIn(s) == \E c \in InRoom(s) : IsHost(ticketOf[c])

SetStatus(s, to) ==
  \/ dbStatus' = [dbStatus EXCEPT ![s] = to]
  \/ DBMayFail /\ UNCHANGED dbStatus

\* handleHostStartGame: without the quiz there are no questions and no start.
StartGame(s) ==
  /\ HostIn(s) /\ room[s] = "lobby" /\ s \in hasQuiz
  /\ room' = [room EXCEPT ![s] = "in_progress"]
  /\ SetStatus(s, "in_progress")
  /\ UNCHANGED <<code, participants, reqVars, tickets, hasQuiz, connVars>>

\* finishGame, which the host reaches in every status of the room.
FinishGame(s) ==
  /\ HostIn(s)
  /\ room' = [room EXCEPT ![s] = "finished"]
  /\ SetStatus(s, "finished")
  /\ UNCHANGED <<code, participants, reqVars, tickets, hasQuiz, connVars>>

\* The process stops and starts again.
Restart ==
  /\ room' = [s \in Sessions |-> "absent"]
  /\ hasQuiz' = {}
  /\ conn' = [c \in Conns |-> IF conn[c] = "idle" THEN "idle" ELSE "gone"]
  /\ at' = [q \in Requests |-> IF at[q] \in {"checked", "stored", "issued"}
                               THEN "failed" ELSE at[q]]
  /\ UNCHANGED <<rowVars, target, user, tickets, ticketOf>>

Next ==
  \/ \E s \in Sessions : \/ CreateInsert(s) \/ CreateIssue(s) \/ CreateRoom(s)
                         \/ StartGame(s) \/ FinishGame(s)
  \/ \E j \in Joins : JoinLookup(j) \/ JoinInsert(j) \/ JoinIssue(j)
  \/ \E r \in Resumes : ResumeLookup(r) \/ ResumeRoom(r) \/ ResumeIssue(r)
  \/ \E t \in Requests : Expire(t) \/ \E c \in Conns : Redeem(c, t)
  \/ \E c \in Conns : Enter(c) \/ Leave(c)
  \/ Restart

Spec == Init /\ [][Next]_vars

-----------------------------------------------------------------------------
(***************************************************************************)
(* What the parts promise together.                                        *)
(***************************************************************************)
\* Every variable has its type.
TypeOK ==
  /\ dbStatus \in [Sessions -> {"none", "lobby", "in_progress", "finished"}]
  /\ code \in [Sessions -> Codes \cup {NoCode}]
  /\ participants \subseteq Joins
  /\ at \in [Requests -> {"idle", "checked", "stored", "issued", "done", "failed"}]
  /\ target \in [Requests -> Sessions \cup {None}]
  /\ user \in [Joins -> Users \cup {Guest, None}]
  /\ tickets \subseteq Requests
  /\ room \in [Sessions -> {"absent", "lobby", "in_progress", "finished"}]
  /\ hasQuiz \subseteq Sessions
  /\ conn \in [Conns -> {"idle", "redeemed", "joined", "gone"}]
  /\ ticketOf \in [Conns -> Requests \cup {None}]

\* Although StartGameSession and FinishGameSession test no status, restarts lose the
\* rooms and hosts come back through stale tickets and concurrent resumes, the rows
\* live as SessionLife says: a finished session stays finished, under a code that was
\* free when the session was opened.
ImplementsSessionLife == Life!Spec

\* A room that can still be started or go on has a session that is not finished:
\* nobody plays for a session that the history already lists.
NoLiveRoomForFinished ==
  \A s \in hasQuiz : room[s] \in Active => dbStatus[s] # "finished"

\* A participantID connects at most once, so a room never has two clients of one
\* participantID and its map, keyed by it, loses none.
OneConnectionPerTicket ==
  \A c, d \in Conns : ticketOf[c] = ticketOf[d] /\ ticketOf[c] # None => c = d

\* Every player a room has is a row of its session, to which the room can write the
\* score.
PlayersHaveRows ==
  \A s \in Sessions : \A c \in InRoom(s) :
    ~IsHost(ticketOf[c]) => ticketOf[c] \in participants

\* However its requests interleave, a user has one row in a session.
UserJoinsOnce ==
  \A i, j \in participants :
    target[i] = target[j] /\ user[i] = user[j] /\ user[i] # Guest => i = j

\* Rows, tickets and the clients of the rooms agree: one row for a user, one connection
\* for a ticket, and a row for every player that a room has.
RoomsMatchRows == PlayersHaveRows /\ UserJoinsOnce /\ OneConnectionPerTicket

(***************************************************************************)
(* What a comment of the code says and the code does not do.               *)
(***************************************************************************)
\* ResumeSession ensures that the room exists, with its metadata.
ResumeRestoresRoom ==
  [][\A r \in Resumes : ResumeRoom(r) => target[r] \in hasQuiz']_vars
=============================================================================
