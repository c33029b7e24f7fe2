-------------------------- MODULE LiveClientProofs --------------------------
(***************************************************************************)
(* Proofs about the store's handler and about the tab that runs it, for    *)
(* any games, people and questions, and any number of tickets, sockets,    *)
(* retries and frames in flight.                                           *)
(***************************************************************************)
EXTENDS LiveClient, TLAPS, FiniteSetTheorems, SequenceTheorems

-----------------------------------------------------------------------------
(***************************************************************************)
(* The store.                                                              *)
(***************************************************************************)

\* Each message's own handler.
LEMMA HandlerOf ==
  ASSUME NEW s, NEW m \in Frames
  PROVE  /\ m.type = "room.state"         => Handle(s, m) = OnRoomState(s, m)
         /\ m.type = "participant.joined" => Handle(s, m) = OnJoined(s, m)
         /\ m.type = "participant.left"   => Handle(s, m) = OnLeft(s, m)
         /\ m.type = "participant.status" => Handle(s, m) = OnStatus(s, m)
         /\ m.type = "question.start"     => Handle(s, m) = OnQuestionStart(s, m)
         /\ m.type = "powerup.applied"    => Handle(s, m) = OnPowerup(s, m)
         /\ m.type = "question.end"       => Handle(s, m) = OnQuestionEnd(s, m)
         /\ m.type = "leaderboard.update" => Handle(s, m) = OnBoard(s, m)
         /\ m.type = "game.finished"      => Handle(s, m) = OnFinished(s, m)
         /\ m.type = "error"              => Handle(s, m) = s
  BY DEF Handle

\* The fields of each message.
LEMMA FieldsOf ==
  ASSUME NEW m \in Frames
  PROVE  /\ m.type = "room.state" =>
              m.game \in Games /\ m.status \in Statuses /\ m.who \in SUBSET People
         /\ m.type \in {"participant.joined", "participant.left", "participant.status"} =>
              m.who \in People
         /\ m.type = "question.start" => m.question \in Questions
         /\ m.type = "powerup.applied" => m.hidden \in SUBSET Options
         /\ m.type = "question.end" =>
              m.question \in Questions /\ m.right \in BOOLEAN /\ m.score \in Nat
         /\ m.type = "leaderboard.update" => m.question \in Questions /\ m.score \in Nat
         /\ m.type = "game.finished" => m.game \in Games
  BY DEF Frames

\* The types of messages.
LEMMA TypeOf ==
  ASSUME NEW m \in Frames
  PROVE  m.type \in {"room.state", "participant.joined", "participant.left",
                     "participant.status", "question.start", "powerup.applied",
                     "question.end", "leaderboard.update", "game.finished", "error"}
  BY DEF Frames

\* The store keeps its type, whatever arrives and whenever.
THEOREM HandleKeepsStores ==
  ASSUME NEW s \in Stores, NEW m \in Frames
  PROVE  Handle(s, m) \in Stores
<1>1. CASE m.type = "room.state"
  <2>1. OnRoomState(s, m) \in Stores
    BY <1>1, FieldsOf DEF OnRoomState, Stores, Rooms
  <2>. QED
    BY <1>1, <2>1, HandlerOf
<1>2. CASE m.type = "participant.joined"
  <2>1. OnJoined(s, m) \in Stores
    BY <1>2, FieldsOf, StoreAssumption DEF OnJoined, Stores, Rooms
  <2>. QED
    BY <1>2, <2>1, HandlerOf
<1>3. CASE m.type = "participant.left"
  <2>1. OnLeft(s, m) \in Stores
    <3>1. CASE s.room = None
      BY <3>1 DEF OnLeft
    <3>2. CASE s.room # None
      <4>1. s.room \in Rooms
        BY <3>2 DEF Stores
      <4>2. [s.room EXCEPT !.who = @ \ {m.who}, !.ready = @ \ {m.who}] \in Rooms
        BY <4>1 DEF Rooms
      <4>3. OnLeft(s, m) = [s EXCEPT !.room = [s.room EXCEPT !.who = @ \ {m.who},
                                                            !.ready = @ \ {m.who}]]
        BY <3>2, <4>1 DEF OnLeft, Stores, Rooms
      <4>. QED
        BY <4>2, <4>3 DEF Stores
    <3>. QED
      BY <3>1, <3>2
  <2>. QED
    BY <1>3, <2>1, HandlerOf
<1>4. CASE m.type = "participant.status"
  <2>1. OnStatus(s, m) \in Stores
    <3>1. m.who \in People
      BY <1>4, FieldsOf
    <3>2. CASE s.room = None
      BY <3>2 DEF OnStatus
    <3>3. CASE s.room # None
      <4>1. s.room \in Rooms
        BY <3>3 DEF Stores
      <4>2. [s.room EXCEPT !.ready = @ \cup ({m.who} \cap s.room.who)] \in Rooms
        BY <3>1, <4>1 DEF Rooms
      <4>. QED
        BY <3>3, <4>2 DEF OnStatus, Stores
    <3>. QED
      BY <3>2, <3>3
  <2>. QED
    BY <1>4, <2>1, HandlerOf
<1>5. CASE m.type = "question.start"
  <2>1. OnQuestionStart(s, m) \in Stores
    BY <1>5, FieldsOf DEF OnQuestionStart, Stores
  <2>. QED
    BY <1>5, <2>1, HandlerOf
<1>6. CASE m.type = "powerup.applied"
  <2>1. OnPowerup(s, m) \in Stores
    BY <1>6, FieldsOf DEF OnPowerup, Stores
  <2>. QED
    BY <1>6, <2>1, HandlerOf
<1>7. CASE m.type = "question.end"
  <2>1. OnQuestionEnd(s, m) \in Stores
    BY <1>7, FieldsOf DEF OnQuestionEnd, Stores, Results
  <2>. QED
    BY <1>7, <2>1, HandlerOf
<1>8. CASE m.type = "leaderboard.update"
  <2>1. OnBoard(s, m) \in Stores
    BY <1>8, FieldsOf DEF OnBoard, Stores
  <2>. QED
    BY <1>8, <2>1, HandlerOf
<1>9. CASE m.type = "game.finished"
  <2>1. OnFinished(s, m) \in Stores
    BY <1>9, FieldsOf DEF OnFinished, Stores
  <2>. QED
    BY <1>9, <2>1, HandlerOf
<1>10. CASE m.type = "error"
  BY <1>10, HandlerOf
<1>. QED
  BY <1>1, <1>2, <1>3, <1>4, <1>5, <1>6, <1>7, <1>8, <1>9, <1>10, TypeOf

\* A frame handled twice in a row leaves what it left the first time.  A socket that was
\* connected twice has two listeners, and both call handle.
THEOREM HandleTwice ==
  ASSUME NEW s \in Stores, NEW m \in Frames
  PROVE  Handle(Handle(s, m), m) = Handle(s, m)
<1>1. CASE m.type = "room.state"
  <2>1. OnRoomState(OnRoomState(s, m), m) = OnRoomState(s, m)
    BY <1>1, FieldsOf DEF OnRoomState, Stores
  <2>2. Handle(OnRoomState(s, m), m) = OnRoomState(OnRoomState(s, m), m)
    BY <1>1, HandlerOf
  <2>. QED
    BY <1>1, <2>1, <2>2, HandlerOf
<1>2. CASE m.type = "participant.joined"
  <2>1. OnJoined(OnJoined(s, m), m) = OnJoined(s, m)
    BY <1>2, FieldsOf, StoreAssumption DEF OnJoined, Stores, Rooms
  <2>2. Handle(OnJoined(s, m), m) = OnJoined(OnJoined(s, m), m)
    BY <1>2, HandlerOf
  <2>. QED
    BY <1>2, <2>1, <2>2, HandlerOf
<1>3. CASE m.type = "participant.left"
  <2>1. OnLeft(OnLeft(s, m), m) = OnLeft(s, m)
    <3>1. CASE s.room = None
      BY <3>1 DEF OnLeft
    <3>2. CASE s.room # None
      <4> DEFINE r == [s.room EXCEPT !.who = @ \ {m.who}, !.ready = @ \ {m.who}]
      <4>1. s.room \in Rooms /\ r \in Rooms
        <5>1. s.room \in Rooms
          BY <3>2 DEF Stores
        <5>. QED
          BY <5>1 DEF Rooms
      <4>2. r.who = s.room.who \ {m.who} /\ r.ready = s.room.ready \ {m.who}
        BY <4>1 DEF Rooms
      <4>3. OnLeft(s, m) = [s EXCEPT !.room = r]
        BY <3>2, <4>1 DEF OnLeft, Stores, Rooms
      <4> HIDE DEF r
      <4>4. [r EXCEPT !.who = @ \ {m.who}, !.ready = @ \ {m.who}] = r
        <5> DEFINE u == [r EXCEPT !.who = @ \ {m.who}, !.ready = @ \ {m.who}]
        <5>1. u.who = r.who /\ u.ready = r.ready /\ u \in Rooms
          BY <4>1, <4>2 DEF Rooms
        <5>2. u.game = r.game /\ u.status = r.status
          BY <4>1 DEF Rooms
        <5> HIDE DEF u
        <5>3. u = r
          BY <4>1, <5>1, <5>2 DEF Rooms
        <5>. QED
          BY <5>3 DEF u
      <4> DEFINE t == [s EXCEPT !.room = r]
      <4>5. t.room = r /\ t \in Stores
        BY <4>1 DEF Stores
      <4> HIDE DEF t
      <4>6. [t EXCEPT !.room = r] = t
        BY <4>5 DEF Stores
      <4>7. OnLeft(t, m) = IF t.room = None THEN t ELSE [t EXCEPT !.room = [r EXCEPT !.who = @ \ {m.who}, !.ready = @ \ {m.who}]]
        BY <4>1, <4>5 DEF OnLeft, Stores, Rooms
      <4>. QED
        BY <4>3, <4>4, <4>6, <4>7 DEF t
    <3>. QED
      BY <3>1, <3>2
  <2>2. Handle(OnLeft(s, m), m) = OnLeft(OnLeft(s, m), m)
    BY <1>3, HandlerOf
  <2>. QED
    BY <1>3, <2>1, <2>2, HandlerOf
<1>4. CASE m.type = "participant.status"
  <2>1. OnStatus(OnStatus(s, m), m) = OnStatus(s, m)
    <3>1. CASE s.room = None
      BY <3>1 DEF OnStatus
    <3>2. CASE s.room # None
      <4> DEFINE new == s.room.ready \cup ({m.who} \cap s.room.who)
                 r   == [s.room EXCEPT !.ready = new]
      <4>1. s.room \in Rooms /\ r \in Rooms
        <5>1. s.room \in Rooms /\ m.who \in People
          BY <1>4, <3>2, FieldsOf DEF Stores
        <5>. QED
          BY <5>1 DEF Rooms
      <4>2. r.who = s.room.who /\ r.ready = new
        BY <4>1 DEF Rooms
      <4>3. OnStatus(s, m) = [s EXCEPT !.room = r]
        BY <3>2 DEF OnStatus, Stores
      <4> HIDE DEF r
      <4>4. [r EXCEPT !.ready = @ \cup ({m.who} \cap r.who)] = r
        <5> DEFINE u == [r EXCEPT !.ready = @ \cup ({m.who} \cap r.who)]
        <5>1. u.who = r.who /\ u.ready = r.ready /\ u \in Rooms
          BY <4>1, <4>2 DEF Rooms, new
        <5>2. u.game = r.game /\ u.status = r.status
          BY <4>1 DEF Rooms
        <5> HIDE DEF u
        <5>3. u = r
          BY <4>1, <5>1, <5>2 DEF Rooms
        <5>. QED
          BY <5>3 DEF u
      <4> DEFINE t == [s EXCEPT !.room = r]
      <4>5. t.room = r /\ t \in Stores
        BY <4>1 DEF Stores
      <4> HIDE DEF t
      <4>6. [t EXCEPT !.room = r] = t
        BY <4>5 DEF Stores
      <4>7. OnStatus(t, m) = IF t.room = None THEN t ELSE [t EXCEPT !.room = [r EXCEPT !.ready = @ \cup ({m.who} \cap r.who)]]
        BY <4>1, <4>5 DEF OnStatus, Stores, Rooms
      <4>. QED
        BY <4>3, <4>4, <4>6, <4>7 DEF t
    <3>. QED
      BY <3>1, <3>2
  <2>2. Handle(OnStatus(s, m), m) = OnStatus(OnStatus(s, m), m)
    BY <1>4, HandlerOf
  <2>. QED
    BY <1>4, <2>1, <2>2, HandlerOf
<1>5. CASE m.type = "question.start"
  <2>1. OnQuestionStart(OnQuestionStart(s, m), m) = OnQuestionStart(s, m)
    BY <1>5, FieldsOf DEF OnQuestionStart, Stores
  <2>2. Handle(OnQuestionStart(s, m), m) = OnQuestionStart(OnQuestionStart(s, m), m)
    BY <1>5, HandlerOf
  <2>. QED
    BY <1>5, <2>1, <2>2, HandlerOf
<1>6. CASE m.type = "powerup.applied"
  <2>1. OnPowerup(OnPowerup(s, m), m) = OnPowerup(s, m)
    BY <1>6, FieldsOf DEF OnPowerup, Stores
  <2>2. Handle(OnPowerup(s, m), m) = OnPowerup(OnPowerup(s, m), m)
    BY <1>6, HandlerOf
  <2>. QED
    BY <1>6, <2>1, <2>2, HandlerOf
<1>7. CASE m.type = "question.end"
  <2>1. OnQuestionEnd(OnQuestionEnd(s, m), m) = OnQuestionEnd(s, m)
    BY <1>7, FieldsOf DEF OnQuestionEnd, Stores
  <2>2. Handle(OnQuestionEnd(s, m), m) = OnQuestionEnd(OnQuestionEnd(s, m), m)
    BY <1>7, HandlerOf
  <2>. QED
    BY <1>7, <2>1, <2>2, HandlerOf
<1>8. CASE m.type = "leaderboard.update"
  <2>1. OnBoard(OnBoard(s, m), m) = OnBoard(s, m)
    BY <1>8, FieldsOf DEF OnBoard, Stores
  <2>2. Handle(OnBoard(s, m), m) = OnBoard(OnBoard(s, m), m)
    BY <1>8, HandlerOf
  <2>. QED
    BY <1>8, <2>1, <2>2, HandlerOf
<1>9. CASE m.type = "game.finished"
  <2>1. OnFinished(OnFinished(s, m), m) = OnFinished(s, m)
    BY <1>9, FieldsOf DEF OnFinished, Stores
  <2>2. Handle(OnFinished(s, m), m) = OnFinished(OnFinished(s, m), m)
    BY <1>9, HandlerOf
  <2>. QED
    BY <1>9, <2>1, <2>2, HandlerOf
<1>10. CASE m.type = "error"
  BY <1>10, HandlerOf
<1>. QED
  BY <1>1, <1>2, <1>3, <1>4, <1>5, <1>6, <1>7, <1>8, <1>9, <1>10, TypeOf

-----------------------------------------------------------------------------
(***************************************************************************)
(* The inductive invariant of the tab, its sockets and its rooms.          *)
(***************************************************************************)

\* What the tab remembers refers to tickets that were issued, and there is a socket or a
\* timer only when there is a ticket to dial with.
Remembers ==
  /\ hostTicket # None => hostTicket <= Len(issued)
  /\ url # None => url <= Len(issued)
  /\ url = None => retries = 0 /\ \A i \in Sockets : sock[i].st = "none"
  /\ ws # 0 => sock[ws].st # "none"
  /\ role = "host" /\ page \in {"lobby", "question"} => hostTicket # None /\ code # None

\* A connection's ticket is redeemed, and none opens two.
OneEach ==
  /\ \A i \in Sockets : Open(i) => sock[i].ticket \in spent
  /\ \A i, j \in Sockets : Open(i) /\ Open(j) /\ sock[i].ticket = sock[j].ticket => i = j

TabInv == Remembers /\ OneEach

\* A room's question is one of its quiz's, and before the start there is none.
RoomInv ==
  \A g \in Games :
    /\ room[g].cur <= tab.questions
    /\ room[g].status \in {"none", "lobby"} => room[g].cur = 0 /\ ~room[g].open
    /\ room[g].open => room[g].cur > 0

\* What a room keeps of a player: an answer is to the question it is asking, and a
\* score counts questions that are over.
SeatInv ==
  /\ \A t \in Tickets \ spent : seat[t] = NewSeat
  /\ AnswersMeetTheirQuestion
  /\ \A g \in Games : \A t \in Seated(g) :
       /\ seat[t].score <= room[g].cur
       /\ room[g].open => seat[t].score < room[g].cur

IsStart(m) == m.type = "question.start"

\* The questions that the frames of down announce: of game g, in order, each once, after
\* the index seen and up to cur.
InOrder(down, g, cur, seen) ==
  /\ \A k \in DOMAIN down : IsStart(down[k]) =>
       /\ down[k].question[1] = g
       /\ seen < down[k].question[2] /\ down[k].question[2] <= cur
  /\ \A k, l \in DOMAIN down : k < l /\ IsStart(down[k]) /\ IsStart(down[l]) =>
       down[k].question[2] < down[l].question[2]

\* The store's question came over connection i, the only one the tab heard.
Heard(i) == heard = {sock[i].ticket} /\ store.question # None

Seen(i) == IF Heard(i) THEN store.question[2] ELSE 0

\* A connection announces the questions of its game in order, and the one on the screen
\* of a tab that heard no other connection came before those still in flight.
StartsInv(i) ==
  /\ InOrder(sock[i].down, GameOf(i), room[GameOf(i)].cur, Seen(i))
  /\ Heard(i) => store.question[1] = GameOf(i) /\ store.question[2] <= room[GameOf(i)].cur

HeardInv ==
  /\ heard \subseteq spent
  /\ heard = {} => store.question = None /\ store.answer = None
  /\ \A i \in Sockets : Open(i) => StartsInv(i)

IInv == TypeOK /\ TabInv /\ RoomInv /\ SeatInv /\ HeardInv

-----------------------------------------------------------------------------
(***************************************************************************)
(* Types of what the model is built from.                                  *)
(***************************************************************************)

\* The fields of a tab.
LEMMA TabFields ==
  ASSUME tab \in Setups
  PROVE  /\ role \in {"player", "host"} /\ tab.tickets \in Tickets
         /\ Others \subseteq People /\ tab.questions \in 1 .. NQ
  BY ClientAssumption DEF role, Others, Indexes

\* Tickets are numbers, and None and 0 are none.
LEMMA TicketFacts ==
  /\ Tickets = 1 .. MaxTickets /\ Tickets \subseteq Nat \ {0} /\ Tickets \subseteq People
  /\ None \notin Tickets /\ None \notin Games /\ NQ \in Nat \ {0}
  BY ClientAssumption, StoreAssumption DEF Tickets

\* The frames a room sends.
LEMMA FrameTypes ==
  ASSUME NEW g \in Games
  PROVE  /\ \A st \in Statuses, who \in SUBSET People :
              [type |-> "room.state", game |-> g, status |-> st, who |-> who] \in Frames
         /\ \A type \in {"participant.joined", "participant.left", "participant.status"} :
              \A p \in People : About(type, p) \in Frames
         /\ \A n \in 1 .. NQ : Start(g, n) \in Frames
         /\ \A n \in 1 .. NQ, r \in BOOLEAN, s \in Nat :
              /\ [type |-> "question.end", question |-> <<g, n>>, right |-> r, score |-> s]
                   \in Frames
              /\ [type |-> "leaderboard.update", question |-> <<g, n>>, score |-> s] \in Frames
         /\ [type |-> "game.finished", game |-> g] \in Frames
         /\ [type |-> "error"] \in Frames
         /\ \A h \in SUBSET Options : [type |-> "powerup.applied", hidden |-> h] \in Frames
<1>1. \A n \in 1 .. NQ : <<g, n>> \in Questions
  BY DEF Questions, Indexes
<1>2. /\ \A st \in Statuses, who \in SUBSET People :
           [type |-> "room.state", game |-> g, status |-> st, who |-> who] \in Frames
      /\ \A type \in {"participant.joined", "participant.left", "participant.status"} :
           \A p \in People : About(type, p) \in Frames
  BY DEF Frames, About
<1>3. \A n \in 1 .. NQ : Start(g, n) \in Frames
  BY <1>1 DEF Frames, Start
<1>4. \A n \in 1 .. NQ, r \in BOOLEAN, s \in Nat :
        /\ [type |-> "question.end", question |-> <<g, n>>, right |-> r, score |-> s] \in Frames
        /\ [type |-> "leaderboard.update", question |-> <<g, n>>, score |-> s] \in Frames
  BY <1>1 DEF Frames
<1>5. /\ [type |-> "game.finished", game |-> g] \in Frames
      /\ [type |-> "error"] \in Frames
      /\ \A h \in SUBSET Options : [type |-> "powerup.applied", hidden |-> h] \in Frames
  BY DEF Frames
<1>. QED
  BY <1>2, <1>3, <1>4, <1>5

\* Only question.start is a start.
LEMMA StartFrames ==
  /\ \A g, n : IsStart(Start(g, n)) /\ Start(g, n).question = <<g, n>>
  /\ \A type, p : About(type, p).type = type
  BY DEF IsStart, Start, About

-----------------------------------------------------------------------------
(***************************************************************************)
(* Queues of frames.                                                       *)
(***************************************************************************)

\* A frame's announced index is a number.
LEMMA StartIndex ==
  ASSUME NEW d \in Seq(Frames), NEW k \in DOMAIN d, IsStart(d[k])
  PROVE  d[k].question \in Questions /\ d[k].question[2] \in 1 .. NQ
<1>1. d[k] \in Frames
  BY ElementOfSeq, LenProperties
<1>2. d[k].question \in Questions
  BY <1>1, FieldsOf DEF IsStart
<1>. QED
  BY <1>2 DEF Questions, Indexes

\* An empty queue announces nothing.
LEMMA EmptyInOrder == \A g, cur, seen : InOrder(<<>>, g, cur, seen)
  BY DEF InOrder

\* Frames without a start keep a queue in order; so does, last, the start of the next
\* question.
LEMMA AppendInOrder ==
  ASSUME NEW d \in Seq(Frames), NEW fs \in Seq(Frames), NEW g,
         NEW cur \in Nat, NEW new \in Nat, NEW seen, cur <= new,
         InOrder(d, g, cur, seen), seen \in Nat, seen <= cur,
         \A k \in DOMAIN fs : IsStart(fs[k]) => fs[k].question = <<g, new>> /\ cur < new,
         \A k, l \in DOMAIN fs : IsStart(fs[k]) /\ IsStart(fs[l]) => k = l
  PROVE  InOrder(d \o fs, g, new, seen)
<1> DEFINE c == d \o fs
<1>1. /\ Len(d) \in Nat /\ Len(fs) \in Nat
      /\ DOMAIN d = 1 .. Len(d) /\ DOMAIN fs = 1 .. Len(fs) /\ DOMAIN c = 1 .. Len(d) + Len(fs)
      /\ \A k \in 1 .. Len(d) : c[k] = d[k]
      /\ \A k \in Len(d) + 1 .. Len(d) + Len(fs) : c[k] = fs[k - Len(d)]
  BY ConcatProperties, LenProperties
<1>2. \A k \in DOMAIN d : IsStart(d[k]) => d[k].question[2] \in Nat
  BY StartIndex
<1>3. \A k \in Len(d) + 1 .. Len(d) + Len(fs) : k - Len(d) \in DOMAIN fs
  BY <1>1
<1> HIDE DEF c
<1>4. ASSUME NEW k \in DOMAIN c, IsStart(c[k])
      PROVE  /\ c[k].question[1] = g
             /\ seen < c[k].question[2] /\ c[k].question[2] <= new
  <2>1. CASE k \in 1 .. Len(d)
    <3>1. k \in DOMAIN d /\ c[k] = d[k] /\ IsStart(d[k])
      BY <1>1, <1>4, <2>1
    <3>2. d[k].question[1] = g /\ seen < d[k].question[2] /\ d[k].question[2] <= cur
      BY <3>1 DEF InOrder
    <3>. QED
      BY <1>2, <3>1, <3>2
  <2>2. CASE k \in Len(d) + 1 .. Len(d) + Len(fs)
    <3>1. k - Len(d) \in DOMAIN fs /\ c[k] = fs[k - Len(d)] /\ IsStart(fs[k - Len(d)])
      BY <1>1, <1>3, <1>4, <2>2
    <3>2. fs[k - Len(d)].question = <<g, new>> /\ cur < new
      BY <3>1
    <3>. QED
      BY <3>1, <3>2
  <2>. QED
    BY <1>1, <2>1, <2>2
<1>5. ASSUME NEW k \in DOMAIN c, NEW l \in DOMAIN c, k < l, IsStart(c[k]), IsStart(c[l])
      PROVE  c[k].question[2] < c[l].question[2]
  <2>1. CASE l \in 1 .. Len(d)
    <3>1. k \in 1 .. Len(d)
      BY <1>1, <1>5, <2>1
    <3>. QED
      BY <1>1, <1>5, <2>1, <3>1 DEF InOrder
  <2>2. CASE k \in 1 .. Len(d) /\ l \in Len(d) + 1 .. Len(d) + Len(fs)
    <3>1. c[k].question[2] \in Nat /\ c[k].question[2] <= cur
      <4>1. k \in DOMAIN d /\ c[k] = d[k] /\ IsStart(d[k])
        BY <1>1, <1>5, <2>2
      <4>2. d[k].question[2] <= cur
        BY <4>1 DEF InOrder
      <4>. QED
        BY <1>2, <4>1, <4>2
    <3>2. c[l].question[2] = new /\ cur < new
      <4>1. l - Len(d) \in DOMAIN fs /\ c[l] = fs[l - Len(d)] /\ IsStart(fs[l - Len(d)])
        BY <1>1, <1>3, <1>5, <2>2
      <4>2. fs[l - Len(d)].question = <<g, new>> /\ cur < new
        BY <4>1
      <4>. QED
        BY <4>1, <4>2
    <3>. QED
      BY <3>1, <3>2
  <2>3. CASE k \in Len(d) + 1 .. Len(d) + Len(fs) /\ l \in Len(d) + 1 .. Len(d) + Len(fs)
    <3>1. k - Len(d) = l - Len(d)
      BY <1>1, <1>3, <1>5, <2>3
    <3>. QED
      BY <1>1, <1>5, <2>3, <3>1
  <2>. QED
    BY <1>1, <2>1, <2>2, <2>3
<1>. QED
  BY <1>4, <1>5 DEF InOrder, c

\* A start that is taken comes after what was seen and before what is left.
LEMMA TailInOrder ==
  ASSUME NEW d \in Seq(Frames), d # <<>>, NEW g, NEW cur, NEW seen, InOrder(d, g, cur, seen)
  PROVE  /\ InOrder(Tail(d), g, cur, seen)
         /\ IsStart(Head(d)) =>
              /\ Head(d).question[1] = g
              /\ seen < Head(d).question[2] /\ Head(d).question[2] <= cur
              /\ InOrder(Tail(d), g, cur, Head(d).question[2])
<1>1. /\ Len(d) \in Nat \ {0} /\ DOMAIN d = 1 .. Len(d) /\ DOMAIN Tail(d) = 1 .. Len(d) - 1
      /\ \A k \in 1 .. Len(d) - 1 : Tail(d)[k] = d[k + 1]
      /\ Head(d) = d[1]
  BY HeadTailProperties, EmptySeq, LenProperties
<1>2. \A k \in 1 .. Len(d) - 1 : k + 1 \in DOMAIN d /\ 1 < k + 1 /\ 1 \in DOMAIN d
  BY <1>1
<1>3. InOrder(Tail(d), g, cur, seen)
  BY <1>1, <1>2 DEF InOrder
<1>4. IsStart(Head(d)) =>
        /\ Head(d).question[1] = g
        /\ seen < Head(d).question[2] /\ Head(d).question[2] <= cur
  BY <1>1 DEF InOrder
<1>5. ASSUME IsStart(Head(d))
      PROVE  InOrder(Tail(d), g, cur, Head(d).question[2])
  <2>. DEFINE t == Tail(d)  e == Head(d)
  <2>1. \A k \in DOMAIN t : IsStart(t[k]) =>
          /\ t[k].question[1] = g /\ t[k].question[2] <= cur
          /\ e.question[2] < t[k].question[2]
    BY <1>1, <1>2, <1>5 DEF InOrder
  <2>2. \A k, l \in DOMAIN t : k < l /\ IsStart(t[k]) /\ IsStart(t[l]) =>
          t[k].question[2] < t[l].question[2]
    BY <1>3 DEF InOrder
  <2>. HIDE DEF t, e
  <2>3. InOrder(t, g, cur, e.question[2])
    BY <2>1, <2>2, Zenon DEF InOrder
  <2>. QED
    BY <2>3 DEF t, e
<1>. QED
  BY <1>3, <1>4, <1>5

-----------------------------------------------------------------------------
(***************************************************************************)
(* Sockets and seats.                                                      *)
(***************************************************************************)

\* Sockets with tickets up to n and queues within their bounds.
Fits(sk, n) ==
  /\ sk \in [Sockets -> Links]
  /\ \A i \in Sockets : /\ sk[i].ticket <= n
                        /\ sk[i].st # "none" => sk[i].ticket # 0
                        /\ Len(sk[i].up) <= MaxUp /\ Len(sk[i].down) <= MaxDown

\* The same connections, whatever is in flight on them.
SameEnds(sk) == \A i \in Sockets : sk[i].st = sock[i].st /\ sk[i].ticket = sock[i].ticket

\* ... and nothing else arrives.
SameDown(sk) == SameEnds(sk) /\ \A i \in Sockets : sk[i].down = sock[i].down

\* The frames fs announce nothing, or once the question new that follows cur.
Announces(fs, g, cur, new) ==
  /\ \A k \in DOMAIN fs : IsStart(fs[k]) => fs[k].question = <<g, new>> /\ cur < new
  /\ \A k, l \in DOMAIN fs : IsStart(fs[k]) /\ IsStart(fs[l]) => k = l

\* The fields of a socket.
LEMMA LinkFields ==
  ASSUME NEW n, NEW sk, Fits(sk, n), NEW i \in Sockets
  PROVE  /\ sk[i] \in Links /\ DOMAIN sk = Sockets
         /\ sk[i].st \in {"none", "dialing", "open", "closing"}
         /\ sk[i].ticket \in 0 .. MaxTickets
         /\ sk[i].up \in Seq(Ups) /\ sk[i].down \in Seq(Frames)
         /\ sk[i].ticket <= n
         /\ sk[i].st # "none" => sk[i].ticket # 0
         /\ Len(sk[i].up) <= MaxUp /\ Len(sk[i].down) <= MaxDown
  BY DEF Fits, Links

\* Another link in socket i; it fits as well.
WithLink(sk, i, l) == [sk EXCEPT ![i] = l]

LEMMA LinkReplaced ==
  ASSUME NEW n, NEW sk, Fits(sk, n), NEW i \in Sockets, NEW l \in Links,
         l.ticket <= n, l.st # "none" => l.ticket # 0,
         Len(l.up) <= MaxUp, Len(l.down) <= MaxDown
  PROVE  /\ Fits(WithLink(sk, i, l), n)
         /\ WithLink(sk, i, l)[i] = l
         /\ \A j \in Sockets \ {i} : WithLink(sk, i, l)[j] = sk[j]
  BY DEF Fits, WithLink

\* Another queue to the server.
WithUp(sk, i, q) == [sk EXCEPT ![i].up = q]

LEMMA UpReplaced ==
  ASSUME NEW n, NEW sk, Fits(sk, n), NEW i \in Sockets, NEW q \in Seq(Ups), Len(q) <= MaxUp
  PROVE  /\ Fits(WithUp(sk, i, q), n)
         /\ WithUp(sk, i, q)[i].up = q /\ WithUp(sk, i, q)[i].down = sk[i].down
         /\ WithUp(sk, i, q)[i].st = sk[i].st /\ WithUp(sk, i, q)[i].ticket = sk[i].ticket
         /\ \A j \in Sockets \ {i} : WithUp(sk, i, q)[j] = sk[j]
<1> DEFINE l == [sk[i] EXCEPT !.up = q]
<1>1. sk[i] \in Links /\ i \in DOMAIN sk
  BY LinkFields
<1>2. /\ l \in Links /\ l.ticket = sk[i].ticket /\ l.st = sk[i].st
      /\ l.up = q /\ l.down = sk[i].down
  BY <1>1 DEF Links
<1>3. WithUp(sk, i, q) = WithLink(sk, i, l)
  BY <1>1 DEF WithUp, WithLink
<1> HIDE DEF l
<1>4. /\ l.ticket <= n /\ (l.st # "none" => l.ticket # 0)
      /\ Len(l.up) <= MaxUp /\ Len(l.down) <= MaxDown
  BY <1>2, LinkFields
<1>5. /\ Fits(WithLink(sk, i, l), n) /\ WithLink(sk, i, l)[i] = l
      /\ \A j \in Sockets \ {i} : WithLink(sk, i, l)[j] = sk[j]
  BY <1>2, <1>4, LinkReplaced
<1>. QED
  BY <1>2, <1>3, <1>5

\* Another queue to the tab.
WithDown(sk, i, q) == [sk EXCEPT ![i].down = q]

LEMMA DownReplaced ==
  ASSUME NEW n, NEW sk, Fits(sk, n), NEW i \in Sockets, NEW q \in Seq(Frames), Len(q) <= MaxDown
  PROVE  /\ Fits(WithDown(sk, i, q), n)
         /\ WithDown(sk, i, q)[i].down = q /\ WithDown(sk, i, q)[i].up = sk[i].up
         /\ WithDown(sk, i, q)[i].st = sk[i].st /\ WithDown(sk, i, q)[i].ticket = sk[i].ticket
         /\ \A j \in Sockets \ {i} : WithDown(sk, i, q)[j] = sk[j]
<1> DEFINE l == [sk[i] EXCEPT !.down = q]
<1>1. sk[i] \in Links /\ i \in DOMAIN sk
  BY LinkFields
<1>2. /\ l \in Links /\ l.ticket = sk[i].ticket /\ l.st = sk[i].st
      /\ l.down = q /\ l.up = sk[i].up
  BY <1>1 DEF Links
<1>3. WithDown(sk, i, q) = WithLink(sk, i, l)
  BY <1>1 DEF WithDown, WithLink
<1> HIDE DEF l
<1>4. /\ l.ticket <= n /\ (l.st # "none" => l.ticket # 0)
      /\ Len(l.up) <= MaxUp /\ Len(l.down) <= MaxDown
  BY <1>2, LinkFields
<1>5. /\ Fits(WithLink(sk, i, l), n) /\ WithLink(sk, i, l)[i] = l
      /\ \A j \in Sockets \ {i} : WithLink(sk, i, l)[j] = sk[j]
  BY <1>2, <1>4, LinkReplaced
<1>. QED
  BY <1>2, <1>3, <1>5

\* What TypeOK says of the sockets.
LEMMA SockFits ==
  ASSUME TypeOK
  PROVE  /\ Fits(sock, Len(issued)) /\ Len(issued) \in Nat /\ Len(issued) <= MaxTickets
         /\ MaxUp \in Nat /\ MaxDown \in Nat \ {0, 1} /\ MaxTickets \in Nat
  BY ClientAssumption, LenProperties DEF TypeOK, LinkTypeOK, RoomTypeOK, Fits

\* A connection has a ticket that was issued and redeemed, and a game.
LEMMA OpenFacts ==
  ASSUME TypeOK, TabInv, NEW i \in Sockets
  PROVE  /\ sock[i].st # "none" =>
              sock[i].ticket \in 1 .. Len(issued) /\ sock[i].ticket \in Tickets
         /\ Open(i) => /\ sock[i].st # "none" /\ sock[i].ticket \in spent
                       /\ sock[i].ticket \in Tickets
                       /\ GameOf(i) \in Games /\ i \in Members(GameOf(i))
<1>1. sock[i].st # "none" =>
        sock[i].ticket \in 1 .. Len(issued) /\ sock[i].ticket \in Tickets
  BY SockFits, LinkFields, TicketFacts
<1>2. issued \in Seq(Games)
  BY DEF TypeOK, RoomTypeOK
<1>3. \A k \in 1 .. Len(issued) : issued[k] \in Games
  BY <1>2, ElementOfSeq
<1>. QED
  BY <1>1, <1>3 DEF TabInv, OneEach, Open, GameOf, Members

\* Whoever is seated in g holds a ticket of g.
LEMMA SeatedFacts ==
  ASSUME TypeOK, TabInv, NEW g, NEW t \in Seated(g)
  PROVE  t \in Tickets /\ t \in spent /\ issued[t] = g /\ role = "player"
  BY OpenFacts DEF Seated, Members, GameOf

\* Who is connected depends on the ends of the sockets only.
LEMMA SameMembers ==
  ASSUME SameEnds(sock'), issued' = issued, tab' = tab
  PROVE  /\ \A i \in Sockets : Open(i)' = Open(i) /\ GameOf(i)' = GameOf(i)
         /\ \A g : Members(g)' = Members(g) /\ Seated(g)' = Seated(g)
<1>1. \A i \in Sockets : Open(i)' = Open(i) /\ GameOf(i)' = GameOf(i)
  BY DEF SameEnds, Open, GameOf
<1>2. ASSUME NEW g PROVE Members(g)' = Members(g)
  BY <1>1 DEF Members
<1>3. ASSUME NEW g PROVE Seated(g)' = Seated(g)
  <2>1. role' = role
    BY DEF role
  <2>2. \A i \in Members(g) : sock'[i].ticket = sock[i].ticket
    BY DEF SameEnds, Members
  <2>. QED
    BY <1>2, <2>1, <2>2 DEF Seated
<1>. QED
  BY <1>1, <1>2, <1>3

\* Frames that are sent: to whom, and what is left of the sockets.
LEMMA TellFits ==
  ASSUME NEW n, NEW sk, Fits(sk, n), NEW frames,
         \A i \in Sockets : i \in DOMAIN frames =>
           frames[i] \in Seq(Frames) /\ Len(sk[i].down) + Len(frames[i]) <= MaxDown
  PROVE  /\ Fits(Tell(sk, frames), n)
         /\ \A i \in Sockets :
              /\ Tell(sk, frames)[i].st = sk[i].st
              /\ Tell(sk, frames)[i].ticket = sk[i].ticket
              /\ Tell(sk, frames)[i].up = sk[i].up
              /\ Tell(sk, frames)[i].down =
                   IF i \in DOMAIN frames THEN sk[i].down \o frames[i] ELSE sk[i].down
<1> DEFINE l(i) == IF i \in DOMAIN frames
                   THEN [sk[i] EXCEPT !.down = sk[i].down \o frames[i]] ELSE sk[i]
<1>1. Tell(sk, frames) = [i \in Sockets |-> l(i)]
  <2>1. \A i \in Sockets : [sk[i] EXCEPT !.down = @ \o frames[i]] =
                             [sk[i] EXCEPT !.down = sk[i].down \o frames[i]]
    BY LinkFields DEF Links
  <2>. QED
    BY <2>1 DEF Tell
<1>2. ASSUME NEW i \in Sockets
      PROVE  /\ l(i) \in Links
             /\ l(i).st = sk[i].st /\ l(i).ticket = sk[i].ticket /\ l(i).up = sk[i].up
             /\ l(i).down = IF i \in DOMAIN frames THEN sk[i].down \o frames[i] ELSE sk[i].down
             /\ Len(l(i).down) <= MaxDown
  <2>1. CASE i \in DOMAIN frames
    <3>1. frames[i] \in Seq(Frames) /\ Len(sk[i].down) + Len(frames[i]) <= MaxDown
      BY <2>1
    <3>2. sk[i] \in Links /\ sk[i].down \in Seq(Frames)
      BY LinkFields
    <3>3. /\ sk[i].down \o frames[i] \in Seq(Frames)
          /\ Len(sk[i].down \o frames[i]) = Len(sk[i].down) + Len(frames[i])
      BY <3>1, <3>2, ConcatProperties
    <3> DEFINE d == sk[i].down \o frames[i]
    <3>4. l(i) = [sk[i] EXCEPT !.down = d]
      BY <2>1
    <3>5. d \in Seq(Frames) /\ Len(d) <= MaxDown
      BY <3>1, <3>3
    <3> HIDE DEF d, l
    <3>6. /\ l(i) \in Links /\ l(i).down = d
          /\ l(i).st = sk[i].st /\ l(i).ticket = sk[i].ticket /\ l(i).up = sk[i].up
      BY <3>2, <3>4, <3>5 DEF Links
    <3>. QED
      BY <2>1, <3>5, <3>6 DEF d
  <2>2. CASE i \notin DOMAIN frames
    BY <2>2, LinkFields
  <2>. QED
    BY <2>1, <2>2
<1>3. \A i \in Sockets : Tell(sk, frames)[i] = l(i)
  BY <1>1
<1>4. Tell(sk, frames) \in [Sockets -> Links]
  BY <1>1, <1>2
<1> HIDE DEF l
<1>. QED
  BY <1>2, <1>3, <1>4, LinkFields DEF Fits

\* The same frames to everyone in a room.
LEMMA TellAllFits ==
  ASSUME NEW n, NEW sk, Fits(sk, n), NEW g, NEW fs \in Seq(Frames),
         \A i \in Members(g) : Len(sk[i].down) + Len(fs) <= MaxDown
  PROVE  /\ Fits(TellAll(sk, g, fs), n)
         /\ \A i \in Sockets :
              /\ TellAll(sk, g, fs)[i].st = sk[i].st
              /\ TellAll(sk, g, fs)[i].ticket = sk[i].ticket
              /\ TellAll(sk, g, fs)[i].up = sk[i].up
              /\ TellAll(sk, g, fs)[i].down =
                   IF i \in Members(g) THEN sk[i].down \o fs ELSE sk[i].down
<1> DEFINE frames == [i \in Members(g) |-> fs]
<1>1. DOMAIN frames = Members(g) /\ \A i \in Members(g) : frames[i] = fs
  OBVIOUS
<1>2. TellAll(sk, g, fs) = Tell(sk, frames)
  BY DEF TellAll
<1> HIDE DEF frames
<1>. QED
  BY <1>1, <1>2, TellFits

\* A message that is taken leaves the rest of the sockets.
LEMMA TookFits ==
  ASSUME TypeOK, NEW i \in Sockets, sock[i].up # <<>>
  PROVE  /\ Fits(Took(i), Len(issued)) /\ SameDown(Took(i))
         /\ Head(sock[i].up) \in Ups
<1>1. /\ sock[i].up \in Seq(Ups) /\ Len(sock[i].up) <= MaxUp
      /\ Tail(sock[i].up) \in Seq(Ups) /\ Len(Tail(sock[i].up)) <= MaxUp
      /\ Head(sock[i].up) \in Ups /\ MaxUp \in Nat
  BY SockFits, LinkFields, HeadTailProperties, EmptySeq
<1>2. sock \in [Sockets -> Links] /\ Fits(sock, Len(issued))
  BY SockFits DEF Fits
<1>3. Took(i) = [sock EXCEPT ![i] = [sock[i] EXCEPT !.up = Tail(sock[i].up)]]
  BY <1>2 DEF Took, Links
<1>4. /\ Took(i) \in [Sockets -> Links]
      /\ Took(i)[i].up = Tail(sock[i].up) /\ Took(i)[i].st = sock[i].st
      /\ Took(i)[i].ticket = sock[i].ticket /\ Took(i)[i].down = sock[i].down
      /\ \A j \in Sockets \ {i} : Took(i)[j] = sock[j]
  BY <1>1, <1>2, <1>3 DEF Links
<1>5. SameDown(Took(i))
  BY <1>4 DEF SameDown, SameEnds
<1>6. \A j \in Sockets : Len(Took(i)[j].up) <= MaxUp
  BY <1>1, <1>2, <1>4, LinkFields
<1>. QED
  BY <1>1, <1>2, <1>4, <1>5, <1>6, LinkFields DEF Fits, SameDown, SameEnds

-----------------------------------------------------------------------------
(***************************************************************************)
(* The rooms' steps.                                                       *)
(***************************************************************************)

\* What a connection has seen is an index of its game, at most the room's.
LEMMA SeenFacts ==
  ASSUME IInv, NEW i \in Sockets, Open(i)
  PROVE  /\ GameOf(i) \in Games /\ room[GameOf(i)].cur \in 0 .. NQ
         /\ Seen(i) \in Nat /\ Seen(i) <= room[GameOf(i)].cur
         /\ sock[i].down \in Seq(Frames)
<1>1. GameOf(i) \in Games /\ sock[i].down \in Seq(Frames)
  BY OpenFacts, SockFits, LinkFields DEF IInv
<1>2. room[GameOf(i)].cur \in 0 .. NQ
  BY <1>1 DEF IInv, TypeOK, RoomTypeOK, GameRooms
<1>3. store.question # None => store.question[2] \in 1 .. NQ
  <2>1. store \in Stores
    BY DEF IInv, TypeOK, TabTypeOK
  <2>2. store.question # None => store.question \in Questions
    BY <2>1 DEF Stores
  <2>. QED
    BY <2>2 DEF Questions, Indexes
<1>4. StartsInv(i)
  BY DEF IInv, HeardInv
<1>. QED
  BY <1>1, <1>2, <1>3, <1>4, TicketFacts DEF StartsInv, Seen, Heard

\* A queue stays in order when frames are sent that announce the room's next question,
\* or none.
LEMMA StartsGrow ==
  ASSUME IInv, NEW i \in Sockets, Open(i), NEW down, NEW new \in Nat,
         room[GameOf(i)].cur <= new,
         \/ down = sock[i].down
         \/ \E fs \in Seq(Frames) :
              down = sock[i].down \o fs /\ Announces(fs, GameOf(i), room[GameOf(i)].cur, new)
  PROVE  /\ InOrder(down, GameOf(i), new, Seen(i))
         /\ Heard(i) => store.question[1] = GameOf(i) /\ store.question[2] <= new
<1> DEFINE g == GameOf(i)
           cur == room[g].cur
<1>1. /\ cur \in Nat /\ Seen(i) \in Nat /\ Seen(i) <= cur /\ sock[i].down \in Seq(Frames)
  BY SeenFacts
<1>2. /\ InOrder(sock[i].down, g, cur, Seen(i))
      /\ Heard(i) => store.question[1] = g /\ Seen(i) = store.question[2]
  BY DEF IInv, HeardInv, StartsInv, Seen
<1>3. \A k \in DOMAIN sock[i].down : IsStart(sock[i].down[k]) =>
        sock[i].down[k].question[2] \in Nat
  BY <1>1, StartIndex
<1>4. InOrder(down, g, new, Seen(i))
  <2>1. CASE down = sock[i].down
    BY <1>1, <1>2, <1>3, <2>1 DEF InOrder
  <2>2. ASSUME NEW fs \in Seq(Frames), down = sock[i].down \o fs, Announces(fs, g, cur, new)
        PROVE  InOrder(down, g, new, Seen(i))
    BY <1>1, <1>2, <2>2, AppendInOrder DEF Announces
  <2>. QED
    BY <2>1, <2>2
<1>. QED
  BY <1>1, <1>2, <1>4

\* What a step of a room has to show.
LEMMA RoomStep ==
  ASSUME IInv, UNCHANGED <<tabVars, linkVars, issued, spent>>,
         Fits(sock', Len(issued)), SameEnds(sock'),
         room' \in [Games -> GameRooms], seat' \in [Tickets -> Seats], RoomInv',
         \A i \in Sockets : Open(i) =>
           /\ room[GameOf(i)].cur <= room'[GameOf(i)].cur
           /\ \/ sock'[i].down = sock[i].down
              \/ \E fs \in Seq(Frames) :
                   /\ sock'[i].down = sock[i].down \o fs
                   /\ Announces(fs, GameOf(i), room[GameOf(i)].cur, room'[GameOf(i)].cur),
         \A t \in Tickets \ spent : seat'[t] = NewSeat,
         \A g \in Games : \A t \in Seated(g) :
           /\ seat'[t].answer # None => seat'[t].answer[1] = <<g, room'[g].cur>>
           /\ seat'[t].score <= room'[g].cur
           /\ room'[g].open => seat'[t].score < room'[g].cur
  PROVE  IInv'
<1>1. /\ \A i \in Sockets : Open(i)' = Open(i) /\ GameOf(i)' = GameOf(i)
      /\ \A g : Members(g)' = Members(g) /\ Seated(g)' = Seated(g)
  BY SameMembers DEF tabVars
<1>2. \A i \in Sockets : sock'[i].st = sock[i].st /\ sock'[i].ticket = sock[i].ticket
  BY DEF SameEnds
<1>3. TypeOK'
  <2>1. TabTypeOK'
    BY DEF IInv, TypeOK, TabTypeOK, tabVars
  <2>2. LinkTypeOK'
    BY DEF IInv, TypeOK, LinkTypeOK, linkVars, Fits
  <2>3. RoomTypeOK'
    <3>1. GameRooms' = GameRooms
      BY DEF tabVars, GameRooms, Others
    <3>. QED
      BY <3>1 DEF IInv, TypeOK, RoomTypeOK
  <2>. QED
    BY <2>1, <2>2, <2>3 DEF TypeOK
<1>4. TabInv'
  <2>1. role' = role
    BY DEF tabVars, role
  <2>2. ws \in Sockets \cup {0}
    BY DEF IInv, TypeOK, LinkTypeOK
  <2>. QED
    BY <1>1, <1>2, <2>1, <2>2 DEF IInv, TabInv, Remembers, OneEach, tabVars, linkVars
<1>5. SeatInv'
  <2>1. AnswersMeetTheirQuestion'
    BY <1>1 DEF AnswersMeetTheirQuestion, Asked
  <2>. QED
    BY <1>1, <2>1 DEF SeatInv, NewSeat
<1>6. HeardInv'
  <2>1. ASSUME NEW i \in Sockets, Open(i)' PROVE StartsInv(i)'
    <3>1. Open(i)
      BY <1>1, <2>1
    <3>2. Heard(i)' = Heard(i) /\ Seen(i)' = Seen(i)
      BY <1>2 DEF Heard, Seen, tabVars
    <3>3. GameOf(i) \in Games
      BY <3>1, SeenFacts
    <3>4. room'[GameOf(i)].cur \in Nat
      BY <3>3, TicketFacts DEF GameRooms
    <3>5. /\ InOrder(sock'[i].down, GameOf(i), room'[GameOf(i)].cur, Seen(i))
          /\ Heard(i) => /\ store.question[1] = GameOf(i)
                         /\ store.question[2] <= room'[GameOf(i)].cur
      BY <3>1, <3>4, StartsGrow
    <3>6. store' = store
      BY DEF tabVars
    <3>. QED
      BY <1>1, <3>2, <3>5, <3>6 DEF StartsInv
  <2>. QED
    BY <2>1 DEF IInv, HeardInv, tabVars
<1>. QED
  BY <1>3, <1>4, <1>5, <1>6 DEF IInv


\* The fields of a room and of a seat.
LEMMA RoomFields ==
  ASSUME IInv, NEW g \in Games
  PROVE  /\ room \in [Games -> GameRooms] /\ seat \in [Tickets -> Seats] /\ room[g] \in GameRooms
         /\ room[g].status \in Statuses /\ room[g].cur \in 0 .. NQ
         /\ room[g].open \in BOOLEAN /\ room[g].others \in SUBSET Others
         /\ room[g].cur <= tab.questions /\ tab.questions \in 1 .. NQ
         /\ room[g].open => Asked(g) \in Questions /\ room[g].cur > 0
         /\ Others \subseteq People /\ Seated(g) \subseteq People
<1>1. room \in [Games -> GameRooms] /\ seat \in [Tickets -> Seats] /\ tab \in Setups
  BY DEF IInv, TypeOK, TabTypeOK, RoomTypeOK
<1>2. /\ room[g] \in GameRooms /\ room[g].status \in Statuses /\ room[g].cur \in 0 .. NQ
      /\ room[g].open \in BOOLEAN /\ room[g].others \in SUBSET Others
  BY <1>1 DEF GameRooms
<1>3. room[g].cur <= tab.questions /\ (room[g].open => room[g].cur > 0)
  BY DEF IInv, RoomInv
<1>4. room[g].open => Asked(g) \in Questions
  BY <1>2, <1>3, TicketFacts DEF Asked, Questions, Indexes
<1>5. Seated(g) \subseteq People
  BY SeatedFacts, TicketFacts DEF IInv
<1>. QED
  BY <1>1, <1>2, <1>3, <1>4, <1>5, TabFields

\* The fields of a seat.
LEMMA SeatFields ==
  ASSUME NEW seats \in [Tickets -> Seats], NEW t \in Tickets
  PROVE  /\ seats[t] \in Seats
         /\ seats[t].answer \in Options \cup {None} /\ seats[t].score \in 0 .. NQ
         /\ seats[t].left \in {0, 1} /\ seats[t].used \in BOOLEAN
  BY DEF Seats

\* What the room holds of the players who are there.
LEMMA SeatedSeat ==
  ASSUME IInv, NEW g \in Games, NEW t \in Seated(g)
  PROVE  /\ t \in Tickets /\ t \in spent
         /\ seat[t].answer # None => seat[t].answer[1] = Asked(g)
         /\ seat[t].score \in 0 .. NQ
         /\ seat[t].score <= room[g].cur
         /\ room[g].open => seat[t].score < room[g].cur
<1>1. t \in Tickets /\ t \in spent
  BY SeatedFacts DEF IInv
<1>2. seat[t].score \in 0 .. NQ
  BY <1>1, RoomFields, SeatFields
<1>. QED
  BY <1>1, <1>2 DEF IInv, SeatInv, AnswersMeetTheirQuestion

\* A game's players sit in no other game.
LEMMA SeatedOnce ==
  ASSUME IInv, NEW g, NEW h, NEW t \in Seated(g), t \in Seated(h)
  PROVE  g = h
  BY SeatedFacts DEF IInv

\* The room.state of a game that starts.
LEMMA StartedState ==
  ASSUME NEW g, NEW who
  PROVE  [StateOf(g, who) EXCEPT !.status = "in_progress"] =
           [type |-> "room.state", game |-> g, status |-> "in_progress", who |-> who]
  BY DEF StateOf

\* startGame keeps the invariant.
LEMMA StartGameKeeps ==
  ASSUME IInv, UNCHANGED <<tabVars, linkVars, issued, spent>>,
         NEW sk, Fits(sk, Len(issued)), SameDown(sk), NEW g \in Games,
         room[g].status = "lobby", StartGame(sk, g)
  PROVE  IInv'
<1> DEFINE hello == [StateOf(g, Seated(g) \cup room[g].others) EXCEPT !.status = "in_progress"]
           fs == <<hello, Start(g, 1)>>
<1>1. /\ room \in [Games -> GameRooms] /\ seat \in [Tickets -> Seats]
      /\ Seated(g) \cup room[g].others \in SUBSET People
      /\ tab.questions \in 1 .. NQ /\ room[g].status \in Statuses
  BY RoomFields
<1>2. room[g].cur = 0 /\ ~room[g].open
  BY DEF IInv, RoomInv
<1>3. /\ \A i \in Members(g) : Len(sock[i].down) + 2 <= MaxDown
      /\ room' = [room EXCEPT ![g].status = "in_progress", ![g].cur = 1, ![g].open = TRUE]
      /\ seat' = [t \in Tickets |-> IF t \in Seated(g) THEN [seat[t] EXCEPT !.left = 1]
                                    ELSE seat[t]]
      /\ sock' = TellAll(sk, g, fs)
  BY DEF StartGame, Reachable
<1>4. fs \in Seq(Frames) /\ Len(fs) = 2 /\ Announces(fs, g, 0, 1)
  <2> DEFINE who == Seated(g) \cup room[g].others
  <2>1. hello = [type |-> "room.state", game |-> g, status |-> "in_progress", who |-> who]
    BY StartedState
  <2>2. hello \in Frames /\ Start(g, 1) \in Frames
    <3>1. who \in SUBSET People
      BY <1>1
    <3> HIDE DEF who, hello
    <3>2. hello \in Frames
      BY <2>1, <3>1, FrameTypes DEF Statuses
    <3>3. 1 \in 1 .. NQ
      BY TicketFacts
    <3>. QED
      BY <3>2, <3>3, FrameTypes
  <2>3. ~IsStart(hello) /\ Start(g, 1).question = <<g, 1>>
    BY <2>1 DEF IsStart, Start
  <2> HIDE DEF hello
  <2>. QED
    BY <2>2, <2>3 DEF Announces
<1> HIDE DEF fs, hello
<1>5. /\ Fits(sock', Len(issued)) /\ SameEnds(sock')
      /\ \A i \in Sockets : sock'[i].down = IF i \in Members(g) THEN sock[i].down \o fs
                                             ELSE sock[i].down
  <2>1. \A i \in Members(g) : i \in Sockets /\ Len(sk[i].down) + Len(fs) <= MaxDown
    BY <1>3, <1>4 DEF SameDown, Members
  <2>2. /\ Fits(sock', Len(issued))
        /\ \A i \in Sockets :
             /\ sock'[i].st = sk[i].st /\ sock'[i].ticket = sk[i].ticket
             /\ sock'[i].down = IF i \in Members(g) THEN sk[i].down \o fs ELSE sk[i].down
    <3>1. /\ Fits(TellAll(sk, g, fs), Len(issued))
          /\ \A i \in Sockets :
               /\ TellAll(sk, g, fs)[i].st = sk[i].st
               /\ TellAll(sk, g, fs)[i].ticket = sk[i].ticket
               /\ TellAll(sk, g, fs)[i].down =
                    IF i \in Members(g) THEN sk[i].down \o fs ELSE sk[i].down
      <4>1. /\ Fits(sk, Len(issued)) /\ fs \in Seq(Frames)
            /\ \A i \in Members(g) : Len(sk[i].down) + Len(fs) <= MaxDown
        BY <1>4, <2>1
      <4> HIDE DEF fs
      <4>. QED
        BY ONLY <4>1, TellAllFits
    <3>. QED
      BY <1>3, <3>1
  <2>. QED
    BY <2>2 DEF SameDown, SameEnds
<1>6. /\ room' \in [Games -> GameRooms]
      /\ room'[g].status = "in_progress" /\ room'[g].cur = 1 /\ room'[g].open
      /\ \A h \in Games \ {g} : room'[h] = room[h]
  <2>1. /\ room \in [Games -> GameRooms] /\ g \in Games
        /\ room' = [room EXCEPT ![g].status = "in_progress", ![g].cur = 1, ![g].open = TRUE]
    BY <1>1, <1>3
  <2>2. 1 \in 0 .. NQ /\ "in_progress" \in Statuses
    BY TicketFacts DEF Statuses
  <2>. QED
    BY ONLY <2>1, <2>2 DEF GameRooms
<1>7. /\ seat' \in [Tickets -> Seats]
      /\ \A t \in Tickets : seat'[t].answer = seat[t].answer /\ seat'[t].score = seat[t].score
      /\ \A t \in Tickets : t \notin Seated(g) => seat'[t] = seat[t]
  BY <1>1, <1>3 DEF Seats
<1>8. RoomInv'
  BY <1>1, <1>6 DEF IInv, RoomInv, tabVars
<1>9. ASSUME NEW i \in Sockets, Open(i)
      PROVE  /\ room[GameOf(i)].cur <= room'[GameOf(i)].cur
             /\ \/ sock'[i].down = sock[i].down
                \/ \E f \in Seq(Frames) :
                     /\ sock'[i].down = sock[i].down \o f
                     /\ Announces(f, GameOf(i), room[GameOf(i)].cur, room'[GameOf(i)].cur)
  <2>1. CASE GameOf(i) = g
    <3>1. i \in Members(g)
      BY <1>9, <2>1 DEF Members
    <3>2. sock'[i].down = sock[i].down \o fs
      BY <1>5, <3>1
    <3>3. fs \in Seq(Frames) /\ Announces(fs, GameOf(i), room[GameOf(i)].cur, room'[GameOf(i)].cur)
      BY <1>2, <1>4, <1>6, <2>1
    <3>4. room[GameOf(i)].cur <= room'[GameOf(i)].cur
      BY <1>2, <1>6, <2>1
    <3>. QED
      BY <3>2, <3>3, <3>4
  <2>2. CASE GameOf(i) # g
    <3>1. i \notin Members(g)
      BY <2>2 DEF Members
    <3>. QED
      BY <1>5, <1>6, <1>9, <2>2, <3>1, SeenFacts
  <2>. QED
    BY <2>1, <2>2
<1>10. ASSUME NEW t \in Tickets \ spent PROVE seat'[t] = NewSeat
  BY <1>7, SeatedSeat DEF IInv, SeatInv
<1>11. ASSUME NEW h \in Games, NEW t \in Seated(h)
       PROVE  /\ seat'[t].answer # None => seat'[t].answer[1] = <<h, room'[h].cur>>
              /\ seat'[t].score <= room'[h].cur
              /\ room'[h].open => seat'[t].score < room'[h].cur
  <2>1. /\ t \in Tickets /\ seat[t].score \in 0 .. NQ /\ seat[t].score <= room[h].cur
        /\ seat[t].answer # None => seat[t].answer[1] = Asked(h)
        /\ room[h].open => seat[t].score < room[h].cur
    BY SeatedSeat
  <2>2. CASE h = g
    <3>1. seat[t].answer = None
      <4>1. seat[t].answer \in Options \cup {None}
        BY <1>1, <2>1, SeatFields
      <4>2. \A o \in Options : o[1] # <<g, 0>>
        BY TicketFacts DEF Options, Questions, Indexes
      <4>. QED
        BY <1>2, <2>1, <2>2, <4>1, <4>2 DEF Asked
    <3>. QED
      BY <1>2, <1>6, <1>7, <2>1, <2>2, <3>1
  <2>3. CASE h # g
    BY <1>6, <1>7, <2>1, <2>3 DEF Asked
  <2>. QED
    BY <2>2, <2>3
<1>. QED
  BY <1>5, <1>6, <1>7, <1>8, <1>9, <1>10, <1>11, RoomStep


\* Seats with other answers: those of the players who are there are to the question their
\* room is asking.
Answered(seats) ==
  /\ seats \in [Tickets -> Seats]
  /\ \A t \in Tickets : seats[t].score = seat[t].score
  /\ \A t \in Tickets \ spent : seats[t] = NewSeat
  /\ \A h \in Games : \A t \in Seated(h) :
       seats[t].answer # None => seats[t].answer[1] = Asked(h)

\* The seats as they are.
LEMMA SeatAnswered ==
  ASSUME IInv
  PROVE  Answered(seat)
<1>1. seat \in [Tickets -> Seats]
  BY DEF IInv, TypeOK, RoomTypeOK
<1>. QED
  BY <1>1, SeatedSeat DEF Answered, IInv, SeatInv

\* Counting the right answers of an open question adds at most one to a score.
LEMMA CountedSeats ==
  ASSUME IInv, NEW g \in Games, room[g].open, NEW seats, Answered(seats)
  PROVE  /\ Counted(g, seats) \in [Tickets -> Seats]
         /\ \A t \in Tickets :
              /\ Counted(g, seats)[t].answer = seats[t].answer
              /\ t \notin Seated(g) => Counted(g, seats)[t] = seats[t]
              /\ Counted(g, seats)[t].score \in 0 .. NQ
         /\ \A t \in Seated(g) : Counted(g, seats)[t].score <= room[g].cur
<1> DEFINE c == Counted(g, seats)
<1>1. /\ seats \in [Tickets -> Seats]
      /\ \A t \in Tickets : seats[t].score = seat[t].score
  BY DEF Answered
<1>2. ASSUME NEW t \in Tickets
      PROVE  c[t] = IF t \in Seated(g) /\ Right(seats[t].answer)
                    THEN [seats[t] EXCEPT !.score = @ + 1] ELSE seats[t]
  BY <1>2 DEF Counted
<1>3. ASSUME NEW t \in Tickets
      PROVE  /\ c[t] \in Seats /\ c[t].answer = seats[t].answer
             /\ t \notin Seated(g) => c[t] = seats[t]
             /\ c[t].score \in 0 .. NQ
             /\ t \in Seated(g) => c[t].score <= room[g].cur
  <2>1. seats[t] \in Seats /\ seats[t].score \in 0 .. NQ
    BY <1>1, SeatFields
  <2>2. CASE t \in Seated(g) /\ Right(seats[t].answer)
    <3>1. /\ seats[t].score < room[g].cur /\ room[g].cur \in 0 .. NQ
      BY <1>1, <2>2, SeatedSeat, RoomFields
    <3>2. c[t] = [seats[t] EXCEPT !.score = seats[t].score + 1]
      BY <1>2, <2>1, <2>2 DEF Seats
    <3>3. seats[t].score + 1 \in 0 .. NQ /\ seats[t].score + 1 <= room[g].cur
      BY <2>1, <3>1, TicketFacts
    <3> HIDE DEF c
    <3>4. /\ c[t] \in Seats /\ c[t].answer = seats[t].answer
          /\ c[t].score = seats[t].score + 1
      BY <2>1, <3>2, <3>3 DEF Seats
    <3>. QED
      BY <2>2, <3>3, <3>4
  <2>3. CASE ~(t \in Seated(g) /\ Right(seats[t].answer))
    <3>1. c[t] = seats[t]
      BY <1>2, <2>3
    <3>2. t \in Seated(g) => seats[t].score <= room[g].cur
      BY <1>1, SeatedSeat
    <3> HIDE DEF c
    <3>. QED
      BY <2>1, <3>1, <3>2
  <2>. QED
    BY <2>2, <2>3
<1>4. c \in [Tickets -> Seats]
  <2>1. c = [t \in Tickets |-> c[t]]
    BY DEF Counted
  <2> HIDE DEF c
  <2>. QED
    BY <1>3, <2>1
<1>5. \A t \in Seated(g) : t \in Tickets
  BY SeatedSeat
<1>. QED
  BY <1>3, <1>4, <1>5

\* What ends a question: two frames, neither a start.
LEMMA EndingFrames ==
  ASSUME IInv, NEW g \in Games, room[g].open, NEW seats, Answered(seats), NEW i \in Members(g)
  PROVE  /\ Ending(g, seats, i) \in Seq(Frames) /\ Len(Ending(g, seats, i)) = 2
         /\ \A k \in 1 .. 2 : ~IsStart(Ending(g, seats, i)[k])
<1> DEFINE s == Counted(g, seats)[sock[i].ticket]
           e1 == [type |-> "question.end", question |-> Asked(g), right |-> Right(s.answer),
                  score |-> s.score]
           e2 == [type |-> "leaderboard.update", question |-> Asked(g), score |-> s.score]
<1>1. i \in Sockets /\ Open(i)
  BY DEF Members
<1>2. sock[i].ticket \in Tickets
  BY <1>1, OpenFacts DEF IInv
<1>3. s.score \in Nat /\ Right(s.answer) \in BOOLEAN
  BY <1>2, CountedSeats, TicketFacts DEF Right
<1>4. Asked(g) = <<g, room[g].cur>> /\ room[g].cur \in 1 .. NQ
  <2>1. room[g].cur \in 0 .. NQ /\ room[g].cur > 0
    BY RoomFields
  <2>. QED
    BY <2>1, TicketFacts DEF Asked
<1>5. Ending(g, seats, i) = <<e1, e2>>
  BY DEF Ending
<1> HIDE DEF s
<1>6. e1 \in Frames /\ e2 \in Frames /\ ~IsStart(e1) /\ ~IsStart(e2)
  BY <1>3, <1>4, FrameTypes DEF IsStart
<1> HIDE DEF e1, e2
<1>7. <<e1, e2>> \in Seq(Frames) /\ Len(<<e1, e2>>) = 2
      /\ <<e1, e2>>[1] = e1 /\ <<e1, e2>>[2] = e2
  BY <1>6
<1>. QED
  BY <1>5, <1>6, <1>7

\* finishQuestion keeps the invariant, for the answers the room holds and for those with
\* one more.
LEMMA CloseQuestionKeeps ==
  ASSUME IInv, UNCHANGED <<tabVars, linkVars, issued, spent>>,
         NEW sk, Fits(sk, Len(issued)), SameDown(sk), NEW g \in Games,
         room[g].open, Reachable(g, 2), NEW seats, Answered(seats), CloseQuestion(sk, g, seats)
  PROVE  IInv'
<1> DEFINE frames == [i \in Members(g) |-> Ending(g, seats, i)]
<1>1. /\ room \in [Games -> GameRooms] /\ room[g] \in GameRooms
      /\ room[g].cur \in 0 .. NQ /\ room[g].cur <= tab.questions
  BY RoomFields
<1>2. /\ room' = [room EXCEPT ![g].open = FALSE]
      /\ seat' = Counted(g, seats)
      /\ sock' = Tell(sk, frames)
  BY DEF CloseQuestion
<1>3. /\ DOMAIN frames = Members(g)
      /\ \A i \in Members(g) : /\ frames[i] \in Seq(Frames) /\ Len(frames[i]) = 2
                               /\ \A k \in 1 .. 2 : ~IsStart(frames[i][k])
  BY EndingFrames
<1> HIDE DEF frames
<1>4. /\ Fits(sock', Len(issued)) /\ SameEnds(sock')
      /\ \A i \in Sockets : sock'[i].down = IF i \in Members(g) THEN sock[i].down \o frames[i]
                                             ELSE sock[i].down
  <2>1. \A i \in Sockets : i \in DOMAIN frames =>
          frames[i] \in Seq(Frames) /\ Len(sk[i].down) + Len(frames[i]) <= MaxDown
    BY <1>3 DEF SameDown, Reachable
  <2>2. /\ Fits(sock', Len(issued))
        /\ \A i \in Sockets :
             /\ sock'[i].st = sk[i].st /\ sock'[i].ticket = sk[i].ticket
             /\ sock'[i].down = IF i \in DOMAIN frames THEN sk[i].down \o frames[i]
                                ELSE sk[i].down
    <3>1. /\ Fits(Tell(sk, frames), Len(issued))
          /\ \A i \in Sockets :
               /\ Tell(sk, frames)[i].st = sk[i].st
               /\ Tell(sk, frames)[i].ticket = sk[i].ticket
               /\ Tell(sk, frames)[i].down =
                    IF i \in DOMAIN frames THEN sk[i].down \o frames[i] ELSE sk[i].down
      <4>1. Fits(sk, Len(issued))
        OBVIOUS
      <4>. QED
        BY ONLY <2>1, <4>1, TellFits
    <3>. QED
      BY <1>2, <3>1
  <2>. QED
    BY <1>3, <2>2 DEF SameDown, SameEnds
<1>5. /\ room' \in [Games -> GameRooms]
      /\ room'[g].status = room[g].status /\ room'[g].cur = room[g].cur /\ ~room'[g].open
      /\ \A h \in Games \ {g} : room'[h] = room[h]
  BY ONLY <1>1, <1>2, g \in Games DEF GameRooms
<1>6. \A h \in Games : room'[h].cur = room[h].cur /\ room[h].cur \in 0 .. NQ
  BY <1>5, RoomFields
<1>7. RoomInv'
  BY <1>5 DEF IInv, RoomInv, tabVars
<1>8. ASSUME NEW i \in Sockets, Open(i)
      PROVE  /\ room[GameOf(i)].cur <= room'[GameOf(i)].cur
             /\ \/ sock'[i].down = sock[i].down
                \/ \E f \in Seq(Frames) :
                     /\ sock'[i].down = sock[i].down \o f
                     /\ Announces(f, GameOf(i), room[GameOf(i)].cur, room'[GameOf(i)].cur)
  <2>1. room[GameOf(i)].cur <= room'[GameOf(i)].cur
    BY <1>6, <1>8, SeenFacts
  <2>2. CASE i \in Members(g)
    <3>1. frames[i] \in Seq(Frames) /\ sock'[i].down = sock[i].down \o frames[i]
      BY <1>3, <1>4, <2>2
    <3>2. \A k \in DOMAIN frames[i] : ~IsStart(frames[i][k])
      BY <1>3, <2>2, LenProperties
    <3>3. Announces(frames[i], GameOf(i), room[GameOf(i)].cur, room'[GameOf(i)].cur)
      BY <3>2 DEF Announces
    <3>. QED
      BY <2>1, <3>1, <3>3
  <2>3. CASE i \notin Members(g)
    BY <1>4, <2>1, <2>3
  <2>. QED
    BY <2>2, <2>3
<1>9. /\ seat' \in [Tickets -> Seats]
      /\ \A t \in Tickets : seat'[t].answer = seats[t].answer
      /\ \A t \in Tickets : t \notin Seated(g) => seat'[t] = seats[t]
      /\ \A t \in Seated(g) : seat'[t].score <= room[g].cur
  BY <1>2, CountedSeats
<1>10. ASSUME NEW t \in Tickets \ spent PROVE seat'[t] = NewSeat
  BY <1>9, SeatedSeat DEF Answered
<1>11. ASSUME NEW h \in Games, NEW t \in Seated(h)
       PROVE  /\ seat'[t].answer # None => seat'[t].answer[1] = <<h, room'[h].cur>>
              /\ seat'[t].score <= room'[h].cur
              /\ room'[h].open => seat'[t].score < room'[h].cur
  <2>1. /\ t \in Tickets /\ seat[t].score <= room[h].cur
        /\ room[h].open => seat[t].score < room[h].cur
    BY SeatedSeat
  <2>2. seat'[t].answer # None => seat'[t].answer[1] = <<h, room'[h].cur>>
    BY <1>6, <1>9, <2>1 DEF Answered, Asked
  <2>3. CASE h = g
    BY <1>5, <1>9, <2>2, <2>3
  <2>4. CASE h # g
    <3>1. t \notin Seated(g)
      BY <2>4, SeatedOnce
    <3>2. seat'[t].score = seat[t].score
      BY <1>9, <2>1, <3>1 DEF Answered
    <3>. QED
      BY <1>5, <2>1, <2>2, <2>4, <3>2
  <2>. QED
    BY <2>3, <2>4
<1>. QED
  BY <1>4, <1>5, <1>7, <1>8, <1>9, <1>10, <1>11, RoomStep


\* A finished question is followed by the next one or by the end.
LEMMA AdvanceKeeps ==
  ASSUME IInv, UNCHANGED <<tabVars, linkVars, issued, spent>>,
         NEW sk, Fits(sk, Len(issued)), SameDown(sk), NEW g \in Games,
         room[g].status = "in_progress", Advance(sk, g)
  PROVE  IInv'
<1> DEFINE last == room[g].cur = tab.questions
           next == IF last THEN [type |-> "game.finished", game |-> g]
                   ELSE Start(g, room[g].cur + 1)
           end(i) == IF room[g].open THEN Ending(g, seat, i) ELSE <<>>
           counted == IF room[g].open THEN Counted(g, seat) ELSE seat
           frames == [i \in Members(g) |-> Append(end(i), next)]
           new == IF last THEN room[g].cur ELSE room[g].cur + 1
<1>1. /\ room \in [Games -> GameRooms] /\ room[g] \in GameRooms
      /\ room[g].cur \in 0 .. NQ /\ room[g].cur <= tab.questions
      /\ tab.questions \in 1 .. NQ /\ NQ \in Nat
  BY RoomFields, TicketFacts
<1>2. /\ \A i \in Members(g) : Len(sock[i].down) + 3 <= MaxDown
      /\ sock' = Tell(sk, frames)
      /\ room' = IF last THEN [room EXCEPT ![g].open = FALSE, ![g].status = "finished"]
                 ELSE [room EXCEPT ![g].open = TRUE, ![g].cur = @ + 1]
      /\ seat' = IF last THEN counted
                 ELSE [t \in Tickets |-> IF t \in Seated(g)
                                         THEN [counted[t] EXCEPT !.answer = None, !.used = FALSE]
                                         ELSE counted[t]]
  BY DEF Advance, Reachable
<1>3. /\ new \in 0 .. NQ /\ new <= tab.questions /\ room[g].cur <= new
      /\ last => new = room[g].cur
      /\ ~last => new = room[g].cur + 1 /\ new \in 1 .. NQ
  BY <1>1
<1>4. /\ counted \in [Tickets -> Seats]
      /\ \A t \in Tickets : /\ counted[t].answer = seat[t].answer
                            /\ t \notin Seated(g) => counted[t] = seat[t]
      /\ \A t \in Seated(g) : counted[t].score \in 0 .. NQ /\ counted[t].score <= room[g].cur
  <2>1. CASE room[g].open
    <3>1. Answered(seat)
      BY SeatAnswered
    <3>2. counted = Counted(g, seat)
      BY <2>1
    <3>. QED
      BY <2>1, <3>1, <3>2, CountedSeats, SeatedSeat
  <2>2. CASE ~room[g].open
    BY <2>2, RoomFields, SeatedSeat
  <2>. QED
    BY <2>1, <2>2
<1>5. /\ next \in Frames
      /\ IsStart(next) => next.question = <<g, new>> /\ room[g].cur < new
  <2>1. CASE last
    <3>1. next = [type |-> "game.finished", game |-> g]
      BY <2>1
    <3>. QED
      BY <3>1, FrameTypes DEF IsStart
  <2>2. CASE ~last
    <3>1. next = Start(g, new) /\ room[g].cur < new
      BY <1>1, <2>2
    <3>. QED
      BY <1>3, <2>2, <3>1, FrameTypes, StartFrames
  <2>. QED
    BY <2>1, <2>2
<1>6. ASSUME NEW i \in Members(g)
      PROVE  /\ end(i) \in Seq(Frames) /\ Len(end(i)) \in {0, 2}
             /\ \A k \in 1 .. Len(end(i)) : ~IsStart(end(i)[k])
  <2>1. CASE room[g].open
    BY <2>1, SeatAnswered, EndingFrames
  <2>2. CASE ~room[g].open
    BY <2>2
  <2>. QED
    BY <2>1, <2>2
<1>7. DOMAIN frames = Members(g) /\ \A i \in Members(g) : frames[i] = Append(end(i), next)
  OBVIOUS
<1> HIDE DEF end, next, counted, frames, new, last
<1>8. ASSUME NEW i \in Members(g)
      PROVE  /\ frames[i] \in Seq(Frames) /\ Len(frames[i]) <= 3
             /\ Announces(frames[i], g, room[g].cur, new)
  <2>1. /\ frames[i] \in Seq(Frames) /\ Len(frames[i]) = Len(end(i)) + 1
        /\ Len(end(i)) \in {0, 2} /\ DOMAIN frames[i] = 1 .. Len(end(i)) + 1
        /\ \A k \in 1 .. Len(end(i)) : frames[i][k] = end(i)[k]
        /\ frames[i][Len(end(i)) + 1] = next
    BY <1>5, <1>6, <1>7, AppendProperties, LenProperties
  <2>2. \A k \in DOMAIN frames[i] : IsStart(frames[i][k]) =>
          k = Len(end(i)) + 1 /\ frames[i][k] = next
    BY <1>6, <2>1
  <2>. QED
    BY <1>5, <2>1, <2>2 DEF Announces
<1>9. /\ Fits(sock', Len(issued)) /\ SameEnds(sock')
      /\ \A i \in Sockets : sock'[i].down = IF i \in Members(g) THEN sock[i].down \o frames[i]
                                             ELSE sock[i].down
  <2>1. \A i \in Sockets : i \in DOMAIN frames =>
          frames[i] \in Seq(Frames) /\ Len(sk[i].down) + Len(frames[i]) <= MaxDown
    <3>1. ASSUME NEW i \in Sockets, i \in DOMAIN frames
          PROVE  frames[i] \in Seq(Frames) /\ Len(sk[i].down) + Len(frames[i]) <= MaxDown
      <4>1. i \in Members(g) /\ sk[i].down = sock[i].down
        BY <1>7, <3>1 DEF SameDown
      <4>2. Len(sock[i].down) + 3 <= MaxDown /\ MaxDown \in Nat /\ sock[i].down \in Seq(Frames)
        BY <1>2, <4>1, SockFits, LinkFields DEF IInv
      <4>3. frames[i] \in Seq(Frames) /\ Len(frames[i]) \in Nat /\ Len(frames[i]) <= 3
        BY <1>8, <4>1, LenProperties
      <4>4. Len(sk[i].down) \in Nat /\ Len(sk[i].down) + 3 <= MaxDown
        BY <4>1, <4>2, LenProperties
      <4>5. \A a, b \in Nat : a + 3 <= MaxDown /\ b <= 3 => a + b <= MaxDown
        BY <4>2
      <4>. QED
        BY <4>3, <4>4, <4>5, Zenon
    <3>. QED
      BY <3>1
  <2>2. /\ Fits(Tell(sk, frames), Len(issued))
        /\ \A i \in Sockets :
             /\ Tell(sk, frames)[i].st = sk[i].st
             /\ Tell(sk, frames)[i].ticket = sk[i].ticket
             /\ Tell(sk, frames)[i].down =
                  IF i \in DOMAIN frames THEN sk[i].down \o frames[i] ELSE sk[i].down
    <3>1. Fits(sk, Len(issued))
      OBVIOUS
    <3>. QED
      BY ONLY <2>1, <3>1, TellFits
  <2>. QED
    BY <1>2, <1>7, <2>2 DEF SameDown, SameEnds
<1>10. /\ room' \in [Games -> GameRooms]
       /\ room'[g].cur = new /\ room'[g].status \in {"in_progress", "finished"}
       /\ room'[g].open => ~last
       /\ \A h \in Games \ {g} : room'[h] = room[h]
  <2>1. g \in Games /\ room[g].status = "in_progress"
    OBVIOUS
  <2>2. CASE last
    <3>1. room' = [room EXCEPT ![g].open = FALSE, ![g].status = "finished"]
      BY <1>2, <2>2
    <3>. QED
      BY ONLY <1>1, <1>3, <2>1, <2>2, <3>1 DEF GameRooms, Statuses
  <2>3. CASE ~last
    <3>1. room' = [room EXCEPT ![g].open = TRUE, ![g].cur = @ + 1]
      BY <1>2, <2>3
    <3>. QED
      BY ONLY <1>1, <1>3, <2>1, <2>3, <3>1 DEF GameRooms
  <2>. QED
    BY <2>2, <2>3
<1>11. /\ seat' \in [Tickets -> Seats]
       /\ \A t \in Tickets : /\ t \notin Seated(g) => seat'[t] = seat[t]
                             /\ seat'[t].answer \in {None, seat[t].answer}
       /\ \A t \in Seated(g) : /\ seat'[t].score <= room[g].cur /\ seat'[t].score \in 0 .. NQ
                               /\ ~last => seat'[t].answer = None
  <2>1. \A t \in Seated(g) : t \in Tickets
    BY SeatedSeat
  <2>2. CASE last
    BY <1>2, <1>4, <2>1, <2>2
  <2>3. CASE ~last
    <3>1. seat' = [t \in Tickets |-> IF t \in Seated(g)
                                     THEN [counted[t] EXCEPT !.answer = None, !.used = FALSE]
                                     ELSE counted[t]]
      BY <1>2, <2>3
    <3>2. \A t \in Tickets : [counted[t] EXCEPT !.answer = None, !.used = FALSE] \in Seats
      BY <1>4 DEF Seats
    <3>3. seat' \in [Tickets -> Seats]
      BY <1>4, <3>1, <3>2
    <3>4. ASSUME NEW t \in Tickets
          PROVE  /\ t \notin Seated(g) => seat'[t] = seat[t]
                 /\ t \in Seated(g) => /\ seat'[t].score = counted[t].score
                                       /\ seat'[t].answer = None
      BY <1>4, <3>1 DEF Seats
    <3>. QED
      BY <1>4, <2>1, <2>3, <3>3, <3>4
  <2>. QED
    BY <2>2, <2>3
<1>12. RoomInv'
  <2>1. new >= 0 /\ (~last => new > 0)
    BY <1>3
  <2>2. tab' = tab
    BY DEF tabVars
  <2>3. ASSUME NEW h \in Games
        PROVE  /\ room'[h].cur <= tab.questions
               /\ room'[h].status \in {"none", "lobby"} => room'[h].cur = 0 /\ ~room'[h].open
               /\ room'[h].open => room'[h].cur > 0
    <3>1. CASE h = g
      BY <1>3, <1>10, <2>1, <3>1
    <3>2. CASE h # g
      BY <1>10, <3>2 DEF IInv, RoomInv
    <3>. QED
      BY <3>1, <3>2
  <2>. QED
    BY <2>2, <2>3 DEF RoomInv
<1>13. ASSUME NEW i \in Sockets, Open(i)
       PROVE  /\ room[GameOf(i)].cur <= room'[GameOf(i)].cur
              /\ \/ sock'[i].down = sock[i].down
                 \/ \E f \in Seq(Frames) :
                      /\ sock'[i].down = sock[i].down \o f
                      /\ Announces(f, GameOf(i), room[GameOf(i)].cur, room'[GameOf(i)].cur)
  <2>1. CASE GameOf(i) = g
    <3>1. i \in Members(g)
      BY <1>13, <2>1 DEF Members
    <3>2. frames[i] \in Seq(Frames) /\ sock'[i].down = sock[i].down \o frames[i]
      BY <1>8, <1>9, <3>1
    <3>3. Announces(frames[i], GameOf(i), room[GameOf(i)].cur, room'[GameOf(i)].cur)
      BY <1>8, <1>10, <2>1, <3>1
    <3>4. room[GameOf(i)].cur <= room'[GameOf(i)].cur
      BY <1>3, <1>10, <2>1
    <3>. QED
      BY <3>2, <3>3, <3>4
  <2>2. CASE GameOf(i) # g
    <3>1. i \notin Members(g)
      BY <2>2 DEF Members
    <3>. QED
      BY <1>9, <1>10, <1>13, <2>2, <3>1, SeenFacts
  <2>. QED
    BY <2>1, <2>2
<1>14. ASSUME NEW t \in Tickets \ spent PROVE seat'[t] = NewSeat
  BY <1>11, SeatedSeat DEF IInv, SeatInv
<1>15. ASSUME NEW h \in Games, NEW t \in Seated(h)
       PROVE  /\ seat'[t].answer # None => seat'[t].answer[1] = <<h, room'[h].cur>>
              /\ seat'[t].score <= room'[h].cur
              /\ room'[h].open => seat'[t].score < room'[h].cur
  <2>1. /\ t \in Tickets /\ seat[t].score <= room[h].cur
        /\ seat[t].answer # None => seat[t].answer[1] = Asked(h)
        /\ room[h].open => seat[t].score < room[h].cur
    BY SeatedSeat
  <2>2. CASE h = g
    <3>1. seat'[t].score \in Nat /\ seat'[t].score <= room[g].cur
      BY <1>11, <2>2, TicketFacts
    <3>2. seat'[t].score <= new /\ (~last => seat'[t].score < new)
      BY <1>1, <1>3, <3>1
    <3>3. seat'[t].answer # None => last /\ seat'[t].answer = seat[t].answer
      BY <1>11, <2>1, <2>2
    <3>4. seat'[t].answer # None => seat'[t].answer[1] = <<h, room'[h].cur>>
      BY <1>3, <1>10, <2>1, <2>2, <3>3 DEF Asked
    <3>. QED
      BY <1>10, <2>2, <3>2, <3>4
  <2>3. CASE h # g
    <3>1. seat'[t] = seat[t]
      BY <1>11, <2>1, <2>3, SeatedOnce
    <3>. QED
      BY <1>10, <2>1, <2>3, <3>1 DEF Asked
  <2>. QED
    BY <2>2, <2>3
<1>. QED
  BY <1>9, <1>10, <1>11, <1>12, <1>13, <1>14, <1>15, RoomStep


\* Another queue to the tab, on sockets where nothing else has changed.
LEMMA DownOnly ==
  ASSUME NEW sk, NEW n, Fits(sk, n), SameDown(sk), NEW i \in Sockets,
         NEW d \in Seq(Frames), Len(d) <= MaxDown, sock' = WithDown(sk, i, d)
  PROVE  /\ Fits(sock', n) /\ SameEnds(sock') /\ sock'[i].down = d
         /\ \A j \in Sockets \ {i} : sock'[j].down = sock[j].down
<1>1. /\ Fits(sock', n) /\ sock'[i].down = d
      /\ sock'[i].st = sk[i].st /\ sock'[i].ticket = sk[i].ticket
      /\ \A j \in Sockets \ {i} : sock'[j] = sk[j]
  BY DownReplaced
<1>2. \A j \in Sockets : /\ sk[j].st = sock[j].st /\ sk[j].ticket = sock[j].ticket
                          /\ sk[j].down = sock[j].down
  BY DEF SameDown, SameEnds
<1>. QED
  BY <1>1, <1>2 DEF SameEnds

\* One more frame for the sender of the message that is taken.
LEMMA ReplyFits ==
  ASSUME IInv, NEW i \in Sockets, Open(i), sock[i].up # <<>>, Reachable(GameOf(i), 1),
         NEW m \in Frames, sock' = [Took(i) EXCEPT ![i].down = Append(@, m)]
  PROVE  /\ Fits(sock', Len(issued)) /\ SameEnds(sock')
         /\ sock'[i].down = sock[i].down \o <<m>>
         /\ \A j \in Sockets \ {i} : sock'[j].down = sock[j].down
<1>1. Fits(Took(i), Len(issued)) /\ SameDown(Took(i))
  BY TookFits DEF IInv
<1>2. /\ sock[i].down \in Seq(Frames) /\ MaxUp \in Nat /\ MaxDown \in Nat
      /\ Len(sock[i].down) + 1 <= MaxDown
  BY SockFits, LinkFields, OpenFacts DEF IInv, Reachable
<1>3. PICK d \in Seq(Frames) : /\ d = Append(sock[i].down, m) /\ d = sock[i].down \o <<m>>
                               /\ Len(d) <= MaxDown
  <2>1. /\ Append(sock[i].down, m) \in Seq(Frames)
        /\ Len(Append(sock[i].down, m)) = Len(sock[i].down) + 1
    BY <1>2, AppendProperties
  <2>2. Append(sock[i].down, m) = sock[i].down \o <<m>>
    BY <1>2, AppendIsConcat
  <2>. QED
    BY <1>2, <2>1, <2>2
<1>4. Took(i)[i].down = sock[i].down /\ Took(i) \in [Sockets -> Links]
  BY <1>1 DEF SameDown, Fits
<1>5. PICK sk : sk = Took(i)
  OBVIOUS
<1>6. sock' = WithDown(sk, i, d) /\ Fits(sk, Len(issued)) /\ SameDown(sk)
  BY <1>1, <1>3, <1>4, <1>5 DEF WithDown
<1>7. d \in Seq(Frames) /\ Len(d) <= MaxDown /\ i \in Sockets
  BY <1>3
<1>8. /\ Fits(sock', Len(issued)) /\ SameEnds(sock') /\ sock'[i].down = d
      /\ \A j \in Sockets \ {i} : sock'[j].down = sock[j].down
  BY ONLY <1>6, <1>7, DownOnly
<1>. QED
  BY <1>3, <1>8

\* One more frame for everyone in a room.
LEMMA NoticeFits ==
  ASSUME IInv, NEW sk, Fits(sk, Len(issued)), SameDown(sk), NEW g, Reachable(g, 1),
         NEW m \in Frames
  PROVE  /\ Fits(TellAll(sk, g, <<m>>), Len(issued))
         /\ \A j \in Sockets :
              /\ TellAll(sk, g, <<m>>)[j].st = sock[j].st
              /\ TellAll(sk, g, <<m>>)[j].ticket = sock[j].ticket
              /\ TellAll(sk, g, <<m>>)[j].up = sk[j].up
              /\ TellAll(sk, g, <<m>>)[j].down =
                   IF j \in Members(g) THEN sock[j].down \o <<m>> ELSE sock[j].down
<1> DEFINE fs == <<m>>
<1>1. fs \in Seq(Frames) /\ Len(fs) = 1
  OBVIOUS
<1>2. \A j \in Members(g) : j \in Sockets /\ Len(sock[j].down) + 1 <= MaxDown
  BY DEF Reachable, Members
<1> HIDE DEF fs
<1>3. \A j \in Members(g) : Len(sk[j].down) + Len(fs) <= MaxDown
  BY <1>1, <1>2 DEF SameDown
<1>4. /\ Fits(TellAll(sk, g, fs), Len(issued))
      /\ \A j \in Sockets :
           /\ TellAll(sk, g, fs)[j].st = sk[j].st
           /\ TellAll(sk, g, fs)[j].ticket = sk[j].ticket
           /\ TellAll(sk, g, fs)[j].up = sk[j].up
           /\ TellAll(sk, g, fs)[j].down =
                IF j \in Members(g) THEN sk[j].down \o fs ELSE sk[j].down
  <2>1. Fits(sk, Len(issued)) /\ fs \in Seq(Frames)
    BY <1>1
  <2>. QED
    BY ONLY <1>3, <2>1, TellAllFits
<1>. QED
  BY <1>4 DEF SameDown, SameEnds, fs

\* The sockets as they are.
LEMMA SockSame ==
  ASSUME IInv
  PROVE  Fits(sock, Len(issued)) /\ SameDown(sock)
  BY SockFits DEF IInv, SameDown, SameEnds


\* A step that keeps the rooms and their questions, and sends no start.
LEMMA SeatsStep ==
  ASSUME IInv, UNCHANGED <<tabVars, linkVars, issued, spent>>,
         Fits(sock', Len(issued)), SameEnds(sock'),
         room' \in [Games -> GameRooms],
         \A h \in Games : /\ room'[h].status = room[h].status /\ room'[h].cur = room[h].cur
                          /\ room'[h].open = room[h].open,
         Answered(seat'),
         \A i \in Sockets :
           \/ sock'[i].down = sock[i].down
           \/ \E m \in Frames : sock'[i].down = sock[i].down \o <<m>> /\ ~IsStart(m)
  PROVE  IInv'
<1>1. \A h \in Games : room[h].cur \in 0 .. NQ
  BY RoomFields
<1>2. RoomInv'
  BY DEF IInv, RoomInv, tabVars
<1>3. ASSUME NEW i \in Sockets, Open(i)
      PROVE  /\ room[GameOf(i)].cur <= room'[GameOf(i)].cur
             /\ \/ sock'[i].down = sock[i].down
                \/ \E f \in Seq(Frames) :
                     /\ sock'[i].down = sock[i].down \o f
                     /\ Announces(f, GameOf(i), room[GameOf(i)].cur, room'[GameOf(i)].cur)
  <2>1. room[GameOf(i)].cur <= room'[GameOf(i)].cur
    BY <1>1, <1>3, SeenFacts
  <2>2. ASSUME NEW m \in Frames, sock'[i].down = sock[i].down \o <<m>>, ~IsStart(m)
        PROVE  \E f \in Seq(Frames) :
                 /\ sock'[i].down = sock[i].down \o f
                 /\ Announces(f, GameOf(i), room[GameOf(i)].cur, room'[GameOf(i)].cur)
    <3>1. <<m>> \in Seq(Frames)
      OBVIOUS
    <3>2. Announces(<<m>>, GameOf(i), room[GameOf(i)].cur, room'[GameOf(i)].cur)
      BY <2>2 DEF Announces
    <3>. QED
      BY <2>2, <3>1, <3>2
  <2>. QED
    BY <2>1, <2>2
<1>4. seat' \in [Tickets -> Seats] /\ \A t \in Tickets \ spent : seat'[t] = NewSeat
  BY DEF Answered
<1>5. ASSUME NEW h \in Games, NEW t \in Seated(h)
      PROVE  /\ seat'[t].answer # None => seat'[t].answer[1] = <<h, room'[h].cur>>
             /\ seat'[t].score <= room'[h].cur
             /\ room'[h].open => seat'[t].score < room'[h].cur
  <2>1. /\ t \in Tickets /\ seat[t].score <= room[h].cur
        /\ room[h].open => seat[t].score < room[h].cur
    BY SeatedSeat
  <2>. QED
    BY <2>1 DEF Answered, Asked
<1>. QED
  BY <1>2, <1>3, <1>4, <1>5, RoomStep

\* An error to the one who sent the message.
LEMMA ReplyErrorKeeps ==
  ASSUME IInv, UNCHANGED <<tabVars, linkVars, issued, spent>>,
         NEW i \in Sockets, Open(i), sock[i].up # <<>>, Reachable(GameOf(i), 1), ReplyError(i)
  PROVE  IInv'
<1> DEFINE m == [type |-> "error"]
<1>1. m \in Frames /\ ~IsStart(m)
  BY DEF Frames, IsStart
<1> HIDE DEF m
<1>2. sock' = [Took(i) EXCEPT ![i].down = Append(@, m)] /\ UNCHANGED <<room, seat>>
  BY DEF ReplyError, m
<1>3. /\ Fits(sock', Len(issued)) /\ SameEnds(sock')
      /\ \A j \in Sockets \ {i} : sock'[j].down = sock[j].down
      /\ sock'[i].down = sock[i].down \o <<m>>
  BY <1>1, <1>2, ReplyFits
<1>4. room' \in [Games -> GameRooms]
  BY <1>2 DEF IInv, TypeOK, RoomTypeOK
<1>5. Answered(seat')
  BY <1>2, SeatAnswered DEF Answered
<1>6. \A j \in Sockets : \/ sock'[j].down = sock[j].down
                         \/ \E f \in Frames : sock'[j].down = sock[j].down \o <<f>> /\ ~IsStart(f)
  BY <1>1, <1>3
<1>. QED
  BY <1>2, <1>3, <1>4, <1>5, <1>6, SeatsStep


\* handleAnswerSubmit keeps the invariant: an answer that counts is one to the question
\* that is open.
LEMMA TakeAnswerKeeps ==
  ASSUME IInv, UNCHANGED <<tabVars, linkVars, issued, spent>>,
         NEW i \in Sockets, Open(i), sock[i].up # <<>>, NEW o \in Options, TakeAnswer(i, o)
  PROVE  IInv'
<1> DEFINE g == GameOf(i)
           t == sock[i].ticket
           seats == [seat EXCEPT ![t].answer = o]
<1>1. g \in Games /\ t \in Tickets /\ t \in spent /\ i \in Members(g)
  BY OpenFacts DEF IInv
<1>2. Fits(Took(i), Len(issued)) /\ SameDown(Took(i))
  BY TookFits DEF IInv
<1>3. CASE ~AnswerCounts(g, t, o)
  <2>1. Reachable(g, 1) /\ ReplyError(i)
    BY <1>3 DEF TakeAnswer
  <2>. QED
    BY <2>1, ReplyErrorKeeps
<1>4. CASE AnswerCounts(g, t, o)
  <2>1. room[g].open /\ o[1] = Asked(g)
    BY <1>4 DEF AnswerCounts
  <2>2. Answered(seats)
    <3>1. /\ seat \in [Tickets -> Seats] /\ Answered(seat)
      BY <1>1, RoomFields, SeatAnswered
    <3>2. /\ seats \in [Tickets -> Seats]
          /\ seats[t].answer = o /\ seats[t].score = seat[t].score
          /\ \A u \in Tickets \ {t} : seats[u] = seat[u]
      BY <1>1, <3>1 DEF Seats
    <3> HIDE DEF seats
    <3>3. ASSUME NEW h \in Games, NEW u \in Seated(h), seats[u].answer # None
          PROVE  seats[u].answer[1] = Asked(h)
      <4>1. u \in Tickets /\ (seat[u].answer # None => seat[u].answer[1] = Asked(h))
        BY SeatedSeat
      <4>2. CASE u = t
        <5>1. issued[t] = h
          BY <4>2, SeatedFacts DEF IInv
        <5>. QED
          BY <2>1, <3>2, <4>2, <5>1 DEF GameOf
      <4>3. CASE u # t
        BY <3>2, <3>3, <4>1, <4>3
      <4>. QED
        BY <4>2, <4>3
    <3>. QED
      BY <1>1, <3>1, <3>2, <3>3 DEF Answered
  <2>3. \/ seat' = seats /\ sock' = Took(i) /\ UNCHANGED room
        \/ Reachable(g, 2) /\ CloseQuestion(Took(i), g, seats)
    BY <1>4 DEF TakeAnswer
  <2> HIDE DEF seats
  <2>4. CASE seat' = seats /\ sock' = Took(i) /\ UNCHANGED room
    <3>1. Answered(seat')
      BY <2>2, <2>4 DEF Answered
    <3>2. Fits(sock', Len(issued)) /\ SameEnds(sock')
      BY <1>2, <2>4 DEF SameDown
    <3>3. \A j \in Sockets : sock'[j].down = sock[j].down
      BY <1>2, <2>4 DEF SameDown
    <3>4. room' \in [Games -> GameRooms] /\ room' = room
      BY <2>4 DEF IInv, TypeOK, RoomTypeOK
    <3>. QED
      BY <3>1, <3>2, <3>3, <3>4, SeatsStep
  <2>5. CASE Reachable(g, 2) /\ CloseQuestion(Took(i), g, seats)
    BY <1>1, <1>2, <2>1, <2>2, <2>5, CloseQuestionKeeps
  <2>. QED
    BY <2>3, <2>4, <2>5
<1>. QED
  BY <1>3, <1>4


\* The notices.
LEMMA NoticeFrames ==
  ASSUME NEW p \in People
  PROVE  \A type \in {"participant.joined", "participant.left", "participant.status"} :
           About(type, p) \in Frames /\ ~IsStart(About(type, p))
  BY DEF About, Frames, IsStart

\* A notice to a room, of someone who comes, goes or is ready.
LEMMA NoticeKeeps ==
  ASSUME IInv, UNCHANGED <<tabVars, linkVars, issued, spent, seat>>,
         NEW sk, Fits(sk, Len(issued)), SameDown(sk), NEW g, Reachable(g, 1),
         NEW m \in Frames, ~IsStart(m), sock' = TellAll(sk, g, <<m>>),
         room' \in [Games -> GameRooms],
         \A h \in Games : /\ room'[h].status = room[h].status /\ room'[h].cur = room[h].cur
                          /\ room'[h].open = room[h].open
  PROVE  IInv'
<1>1. /\ Fits(TellAll(sk, g, <<m>>), Len(issued))
      /\ \A j \in Sockets :
           /\ TellAll(sk, g, <<m>>)[j].st = sock[j].st
           /\ TellAll(sk, g, <<m>>)[j].ticket = sock[j].ticket
           /\ TellAll(sk, g, <<m>>)[j].down =
                IF j \in Members(g) THEN sock[j].down \o <<m>> ELSE sock[j].down
  BY NoticeFits
<1>2. Fits(sock', Len(issued)) /\ SameEnds(sock')
  BY <1>1 DEF SameEnds
<1>3. \A j \in Sockets : \/ sock'[j].down = sock[j].down
                         \/ \E f \in Frames : sock'[j].down = sock[j].down \o <<f>> /\ ~IsStart(f)
  BY <1>1
<1>4. Answered(seat')
  BY SeatAnswered DEF Answered
<1>. QED
  BY <1>2, <1>3, <1>4, SeatsStep

\* handlePowerupUse keeps the invariant.
LEMMA TakePowerupKeeps ==
  ASSUME IInv, UNCHANGED <<tabVars, linkVars, issued, spent>>,
         NEW i \in Sockets, Open(i), sock[i].up # <<>>, TakePowerup(i)
  PROVE  IInv'
<1> DEFINE g == GameOf(i)
           t == sock[i].ticket
<1>1. g \in Games /\ t \in Tickets /\ t \in spent
  BY OpenFacts DEF IInv
<1>2. Reachable(g, 1)
  BY DEF TakePowerup
<1>3. CASE room[g].open /\ seat[t].left = 1 /\ ~seat[t].used
  <2> DEFINE hidden == {<<Asked(g), "wrong">>}
             m == [type |-> "powerup.applied", hidden |-> hidden]
  <2>1. /\ seat' = [seat EXCEPT ![t].left = 0, ![t].used = TRUE]
        /\ sock' = [Took(i) EXCEPT ![i].down = Append(@, m)]
        /\ UNCHANGED room
    BY <1>3 DEF TakePowerup
  <2>2. hidden \in SUBSET Options
    BY <1>1, <1>3, RoomFields DEF Options
  <2> HIDE DEF hidden
  <2>3. m \in Frames /\ ~IsStart(m)
    BY <1>1, <2>2, FrameTypes DEF IsStart
  <2> HIDE DEF m
  <2>4. /\ Fits(sock', Len(issued)) /\ SameEnds(sock')
        /\ sock'[i].down = sock[i].down \o <<m>>
        /\ \A j \in Sockets \ {i} : sock'[j].down = sock[j].down
    BY <1>2, <2>1, <2>3, ReplyFits
  <2>5. /\ seat' \in [Tickets -> Seats]
        /\ \A u \in Tickets : /\ seat'[u].answer = seat[u].answer
                              /\ seat'[u].score = seat[u].score
                              /\ u # t => seat'[u] = seat[u]
    <3>1. seat \in [Tickets -> Seats]
      BY <1>1, RoomFields
    <3>2. t \in Tickets /\ seat' = [seat EXCEPT ![t].left = 0, ![t].used = TRUE]
      BY <1>1, <2>1
    <3>. QED
      BY ONLY <3>1, <3>2 DEF Seats
  <2>6. Answered(seat')
    <3>1. Answered(seat) /\ \A h \in Games : \A u \in Seated(h) : u \in Tickets
      BY SeatAnswered, SeatedSeat
    <3>2. \A h \in Games : \A u \in Seated(h) :
            seat'[u].answer # None => seat'[u].answer[1] = Asked(h)
      BY <2>5, <3>1 DEF Answered
    <3>3. \A u \in Tickets \ spent : seat'[u] = NewSeat
      BY <1>1, <2>5, <3>1 DEF Answered
    <3>. QED
      BY ONLY <2>5, <3>2, <3>3 DEF Answered
  <2>7. room' = room /\ room' \in [Games -> GameRooms]
    BY <1>1, <2>1, RoomFields
  <2>8. \A j \in Sockets : \/ sock'[j].down = sock[j].down
                           \/ \E f \in Frames :
                                sock'[j].down = sock[j].down \o <<f>> /\ ~IsStart(f)
    BY <2>3, <2>4
  <2>. QED
    BY <2>4, <2>6, <2>7, <2>8, SeatsStep
<1>4. CASE ~(room[g].open /\ seat[t].left = 1 /\ ~seat[t].used)
  <2>1. ReplyError(i)
    BY <1>4 DEF TakePowerup
  <2>. QED
    BY <1>2, <2>1, ReplyErrorKeeps
<1>. QED
  BY <1>3, <1>4

\* A message from the tab keeps the invariant, whatever it is.
LEMMA ReceiveKeeps ==
  ASSUME IInv, NEW i \in Sockets, Receive(i)
  PROVE  IInv'
<1> DEFINE m == Head(sock[i].up)
           g == GameOf(i)
<1>1. Open(i) /\ sock[i].up # <<>> /\ UNCHANGED <<tabVars, linkVars, issued, spent>>
  BY DEF Receive
<1>2. /\ g \in Games /\ sock[i].ticket \in Tickets /\ m \in Ups
      /\ Fits(Took(i), Len(issued)) /\ SameDown(Took(i))
  BY <1>1, OpenFacts, TookFits DEF IInv
<1>3. CASE m.type = "participant.ready"
  <2> DEFINE f == About("participant.status", sock[i].ticket)
  <2>1. Reachable(g, 1) /\ sock' = TellAll(Took(i), g, <<f>>) /\ UNCHANGED <<room, seat>>
    BY <1>3 DEF Receive
  <2>2. f \in Frames /\ ~IsStart(f)
    <3>1. sock[i].ticket \in People
      BY <1>2, TicketFacts
    <3>. QED
      BY <3>1, NoticeFrames
  <2> HIDE DEF f
  <2>3. room' = room /\ room' \in [Games -> GameRooms]
    BY <1>2, <2>1, RoomFields
  <2>. QED
    BY <1>1, <1>2, <2>1, <2>2, <2>3, NoticeKeeps
<1>4. CASE m.type = "answer.submit"
  <2>1. TakeAnswer(i, m.option) /\ m.option \in Options
    BY <1>2, <1>4 DEF Receive, Ups
  <2>. QED
    BY <1>1, <2>1, TakeAnswerKeeps
<1>5. CASE m.type = "powerup.use"
  <2>1. TakePowerup(i)
    BY <1>5 DEF Receive
  <2>. QED
    BY <1>1, <2>1, TakePowerupKeeps
<1>6. CASE m.type \in {"host.start_game", "host.next_question", "host.skip_question"}
  <2>1. \/ room[g].status = "lobby" /\ StartGame(Took(i), g)
        \/ room[g].status = "in_progress" /\ Advance(Took(i), g)
        \/ Reachable(g, 1) /\ ReplyError(i)
    BY <1>6 DEF Receive
  <2>2. CASE room[g].status = "lobby" /\ StartGame(Took(i), g)
    BY <1>1, <1>2, <2>2, StartGameKeeps
  <2>3. CASE room[g].status = "in_progress" /\ Advance(Took(i), g)
    BY <1>1, <1>2, <2>3, AdvanceKeeps
  <2>4. CASE Reachable(g, 1) /\ ReplyError(i)
    BY <1>1, <2>4, ReplyErrorKeeps
  <2>. QED
    BY <2>1, <2>2, <2>3, <2>4
<1>7. m.type \in {"participant.ready", "powerup.use", "host.start_game",
                  "host.next_question", "host.skip_question", "answer.submit"}
  BY <1>2 DEF Ups
<1>. QED
  BY <1>3, <1>4, <1>5, <1>6, <1>7

\* The other host, the clock and the other people keep the invariant.
LEMMA OthersKeep ==
  ASSUME IInv, NEW g \in Games,
         \/ RemoteHost(g) \/ QuestionCloses(g)
         \/ \E p \in Others : OtherJoins(g, p) \/ OtherLeaves(g, p)
  PROVE  IInv'
<1>1. Fits(sock, Len(issued)) /\ SameDown(sock)
  BY SockSame
<1>2. CASE RemoteHost(g)
  <2>1. UNCHANGED <<tabVars, linkVars, issued, spent>>
    BY <1>2 DEF RemoteHost
  <2>2. CASE room[g].status = "lobby" /\ StartGame(sock, g)
    BY <1>1, <2>1, <2>2, StartGameKeeps
  <2>3. CASE room[g].status = "in_progress" /\ Advance(sock, g)
    BY <1>1, <2>1, <2>3, AdvanceKeeps
  <2>. QED
    BY <1>2, <2>2, <2>3 DEF RemoteHost
<1>3. CASE QuestionCloses(g)
  <2>1. /\ room[g].open /\ Reachable(g, 2) /\ CloseQuestion(sock, g, seat)
        /\ UNCHANGED <<tabVars, linkVars, issued, spent>>
    BY <1>3 DEF QuestionCloses
  <2>. QED
    BY <1>1, <2>1, SeatAnswered, CloseQuestionKeeps
<1>4. ASSUME NEW p \in Others, OtherJoins(g, p) PROVE IInv'
  <2> DEFINE f == About("participant.joined", p)
  <2>1. /\ Reachable(g, 1) /\ room' = [room EXCEPT ![g].others = @ \cup {p}]
        /\ sock' = TellAll(sock, g, <<f>>)
        /\ UNCHANGED <<tabVars, linkVars, issued, spent, seat>>
    BY <1>4 DEF OtherJoins
  <2>2. f \in Frames /\ ~IsStart(f)
    <3>1. p \in People
      BY RoomFields
    <3>. QED
      BY <3>1, NoticeFrames
  <2>3. /\ room' \in [Games -> GameRooms]
        /\ \A h \in Games : /\ room'[h].status = room[h].status /\ room'[h].cur = room[h].cur
                            /\ room'[h].open = room[h].open
    <3>1. /\ room \in [Games -> GameRooms] /\ g \in Games /\ p \in Others
          /\ room' = [room EXCEPT ![g].others = @ \cup {p}]
      BY <2>1, RoomFields
    <3>. QED
      BY ONLY <3>1 DEF GameRooms
  <2> HIDE DEF f
  <2>. QED
    BY <1>1, <2>1, <2>2, <2>3, NoticeKeeps
<1>5. ASSUME NEW p \in Others, OtherLeaves(g, p) PROVE IInv'
  <2> DEFINE f == About("participant.left", p)
  <2>1. /\ Reachable(g, 1) /\ room' = [room EXCEPT ![g].others = @ \ {p}]
        /\ sock' = TellAll(sock, g, <<f>>)
        /\ UNCHANGED <<tabVars, linkVars, issued, spent, seat>>
    BY <1>5 DEF OtherLeaves
  <2>2. f \in Frames /\ ~IsStart(f)
    <3>1. p \in People
      BY RoomFields
    <3>. QED
      BY <3>1, NoticeFrames
  <2>3. /\ room' \in [Games -> GameRooms]
        /\ \A h \in Games : /\ room'[h].status = room[h].status /\ room'[h].cur = room[h].cur
                            /\ room'[h].open = room[h].open
    <3>1. /\ room \in [Games -> GameRooms] /\ g \in Games /\ p \in Others
          /\ room' = [room EXCEPT ![g].others = @ \ {p}]
      BY <2>1, RoomFields
    <3>. QED
      BY ONLY <3>1 DEF GameRooms
  <2> HIDE DEF f
  <2>. QED
    BY <1>1, <2>1, <2>2, <2>3, NoticeKeeps
<1>. QED
  BY <1>2, <1>3, <1>4, <1>5


-----------------------------------------------------------------------------
(***************************************************************************)
(* The tab's steps.                                                        *)
(***************************************************************************)

\* The types of the tab's own variables.
LinksTyped ==
  /\ ws \in Sockets \cup {0} /\ url \in Tickets \cup {None}
  /\ closed \in BOOLEAN /\ listening \in BOOLEAN /\ retries \in 0 .. MaxRetries

\* The tickets of before, and perhaps one more.
Extends(new) ==
  /\ new \in Seq(Games) /\ Len(new) <= MaxTickets /\ Len(issued) <= Len(new)
  /\ \A k \in 1 .. Len(issued) : new[k] = issued[k]

\* The same questions in the rooms, begun or not.
SameQuestions(rooms) ==
  /\ rooms \in [Games -> GameRooms]
  /\ \A h \in Games :
       /\ rooms[h].cur = room[h].cur /\ rooms[h].open = room[h].open
       /\ (rooms[h].status \in {"none", "lobby"}) = (room[h].status \in {"none", "lobby"})

\* What a step of the tab or of the network has to show, when no connection opens.
LEMMA TabStep ==
  ASSUME IInv, tab' = tab, spent' = spent, Extends(issued'), SameQuestions(room'),
         TabTypeOK', LinksTyped', Fits(sock', Len(issued')), Remembers',
         \A i \in Sockets : Open(i)' => Open(i) /\ sock'[i].ticket = sock[i].ticket,
         seat' \in [Tickets -> Seats],
         \A t \in Tickets : \/ seat'[t] = seat[t]
                            \/ seat'[t] = NewSeat /\ \A i \in Sockets :
                                                       Open(i)' => sock'[i].ticket # t,
         heard' \subseteq spent,
         heard' = {} => store'.question = None /\ store'.answer = None,
         \A i \in Sockets : Open(i)' =>
           /\ InOrder(sock'[i].down, GameOf(i), room[GameOf(i)].cur, Seen(i)')
           /\ Heard(i)' => /\ store'.question[1] = GameOf(i)
                           /\ store'.question[2] <= room[GameOf(i)].cur
  PROVE  IInv'
<1>1. role' = role /\ GameRooms' = GameRooms
  BY DEF role, GameRooms, Others
<1>2. TypeOK'
  <2>1. LinkTypeOK'
    BY DEF LinkTypeOK, LinksTyped, Fits
  <2>2. RoomTypeOK'
    <3>1. spent' \subseteq 1 .. Len(issued)
      BY DEF IInv, TypeOK, RoomTypeOK
    <3>2. Len(issued) \in Nat /\ Len(issued') \in Nat /\ Len(issued) <= Len(issued')
      BY LenProperties DEF Extends, IInv, TypeOK, RoomTypeOK
    <3>3. spent' \subseteq 1 .. Len(issued')
      BY <3>1, <3>2
    <3>. QED
      BY <1>1, <3>3 DEF RoomTypeOK, Extends, SameQuestions
  <2>. QED
    BY <2>1, <2>2 DEF TypeOK
<1>3. ASSUME NEW i \in Sockets, Open(i)'
      PROVE  /\ Open(i) /\ sock'[i].ticket = sock[i].ticket
             /\ GameOf(i)' = GameOf(i) /\ GameOf(i) \in Games
  <2>1. Open(i) /\ sock'[i].ticket = sock[i].ticket
    BY <1>3
  <2>2. GameOf(i) \in Games /\ sock[i].ticket \in 1 .. Len(issued)
    BY <2>1, OpenFacts DEF IInv
  <2>3. issued'[sock'[i].ticket] = issued[sock[i].ticket]
    BY <2>1, <2>2 DEF Extends
  <2>. QED
    BY <2>1, <2>2, <2>3 DEF GameOf
<1>4. ASSUME NEW g, NEW t \in Seated(g)' PROVE t \in Seated(g)
  <2>1. role' = "player" /\ \E i \in Members(g)' : t = sock'[i].ticket
    BY <1>4 DEF Seated
  <2>2. PICK i \in Sockets : Open(i)' /\ GameOf(i)' = g /\ t = sock'[i].ticket
    BY <2>1 DEF Members
  <2>3. Open(i) /\ GameOf(i) = g /\ t = sock[i].ticket /\ role = "player"
    BY <1>1, <1>3, <2>1, <2>2
  <2>. QED
    BY <2>3 DEF Seated, Members
<1>5. OneEach'
  BY <1>3 DEF IInv, TabInv, OneEach
<1>6. RoomInv'
  BY DEF IInv, RoomInv, SameQuestions
<1>7. SeatInv'
  <2>1. ASSUME NEW g \in Games, NEW t \in Seated(g)'
        PROVE  /\ t \in Seated(g) /\ t \in Tickets /\ seat'[t] = seat[t]
               /\ room'[g].cur = room[g].cur /\ room'[g].open = room[g].open
    <3>1. t \in Seated(g)
      BY <1>4, <2>1
    <3>2. \E i \in Sockets : Open(i)' /\ sock'[i].ticket = t
      BY <2>1 DEF Seated, Members
    <3>. QED
      BY <3>1, <3>2, SeatedSeat DEF SameQuestions
  <2>2. AnswersMeetTheirQuestion'
    BY <2>1, SeatedSeat DEF AnswersMeetTheirQuestion, Asked
  <2>3. \A t \in Tickets \ spent : seat'[t] = NewSeat
    BY DEF IInv, SeatInv
  <2>4. \A g \in Games : \A t \in Seated(g)' :
          /\ seat'[t].score <= room'[g].cur
          /\ room'[g].open => seat'[t].score < room'[g].cur
    BY <2>1, SeatedSeat
  <2>. QED
    BY <2>2, <2>3, <2>4 DEF SeatInv, NewSeat
<1>8. HeardInv'
  <2>1. ASSUME NEW i \in Sockets, Open(i)' PROVE StartsInv(i)'
    <3>1. room'[GameOf(i)].cur = room[GameOf(i)].cur
      BY <1>3, <2>1 DEF SameQuestions
    <3>. QED
      BY <1>3, <2>1, <3>1 DEF StartsInv
  <2>. QED
    BY <2>1 DEF HeardInv
<1>. QED
  BY <1>2, <1>5, <1>6, <1>7, <1>8 DEF IInv, TabInv


\* A queue stays in order when no start is added to it and the store's question stays, or
\* is not heard over this connection.
LEMMA StartsStay ==
  ASSUME IInv, NEW i \in Sockets, Open(i), sock'[i].ticket = sock[i].ticket,
         (heard' = heard /\ store'.question = store.question) \/ ~Heard(i)',
         \/ sock'[i].down = sock[i].down
         \/ \E m \in Frames : sock'[i].down = sock[i].down \o <<m>> /\ ~IsStart(m)
  PROVE  /\ InOrder(sock'[i].down, GameOf(i), room[GameOf(i)].cur, Seen(i)')
         /\ Heard(i)' => /\ store'.question[1] = GameOf(i)
                         /\ store'.question[2] <= room[GameOf(i)].cur
<1> DEFINE cur == room[GameOf(i)].cur
<1>1. cur \in Nat /\ Seen(i) \in Nat /\ Seen(i) <= cur /\ sock[i].down \in Seq(Frames)
  BY SeenFacts, TicketFacts
<1>2. /\ InOrder(sock'[i].down, GameOf(i), cur, Seen(i))
      /\ Heard(i) => store.question[1] = GameOf(i) /\ store.question[2] <= cur
  <2>1. ASSUME NEW m \in Frames, ~IsStart(m)
        PROVE  <<m>> \in Seq(Frames) /\ Announces(<<m>>, GameOf(i), cur, cur)
    BY <2>1 DEF Announces
  <2>2. \/ sock'[i].down = sock[i].down
        \/ \E fs \in Seq(Frames) :
             sock'[i].down = sock[i].down \o fs /\ Announces(fs, GameOf(i), cur, cur)
    BY <2>1
  <2>3. IInv /\ i \in Sockets /\ Open(i) /\ cur \in Nat /\ room[GameOf(i)].cur <= cur
    BY <1>1
  <2> HIDE DEF cur
  <2>. QED
    BY ONLY <2>2, <2>3, StartsGrow DEF cur
<1>3. CASE heard' = heard /\ store'.question = store.question
  <2>1. Heard(i)' = Heard(i) /\ Seen(i)' = Seen(i)
    BY <1>3 DEF Heard, Seen
  <2>. QED
    BY <1>2, <1>3, <2>1
<1>4. CASE ~Heard(i)'
  <2>1. Seen(i)' = 0
    BY <1>4 DEF Seen
  <2>2. sock'[i].down \in Seq(Frames)
    <3>1. ASSUME NEW m \in Frames PROVE sock[i].down \o <<m>> \in Seq(Frames)
      <4>1. <<m>> \in Seq(Frames)
        OBVIOUS
      <4>. QED
        BY <1>1, <4>1, ConcatProperties
    <3>. QED
      BY <1>1, <3>1
  <2>3. \A k \in DOMAIN sock'[i].down : IsStart(sock'[i].down[k]) =>
          sock'[i].down[k].question[2] \in Nat
    BY <2>2, StartIndex
  <2>4. InOrder(sock'[i].down, GameOf(i), cur, 0)
    BY <1>1, <1>2, <2>3 DEF InOrder
  <2>. QED
    BY <1>4, <2>1, <2>4
<1>. QED
  BY <1>3, <1>4

\* Nothing new on the server.
LEMMA ServerSame ==
  ASSUME IInv
  PROVE  /\ Extends(issued) /\ SameQuestions(room) /\ Fits(sock, Len(issued))
         /\ seat \in [Tickets -> Seats] /\ TabTypeOK /\ LinksTyped /\ Remembers /\ OneEach
         /\ role \in {"player", "host"} /\ Len(issued) \in Nat
<1>1. /\ issued \in Seq(Games) /\ Len(issued) <= MaxTickets
      /\ room \in [Games -> GameRooms] /\ seat \in [Tickets -> Seats]
  BY DEF IInv, TypeOK, RoomTypeOK
<1>2. Len(issued) \in Nat
  BY <1>1, LenProperties
<1>3. TabTypeOK /\ LinksTyped
  BY DEF IInv, TypeOK, LinkTypeOK, LinksTyped
<1>4. role \in {"player", "host"}
  BY <1>3, TabFields DEF TabTypeOK
<1>. QED
  BY <1>1, <1>2, <1>3, <1>4, SockFits DEF IInv, TabInv, Extends, SameQuestions

\* A step after which the tab has heard what it had, and nothing more is in flight to it.
LEMMA QuietStep ==
  ASSUME IInv, tab' = tab, spent' = spent, Extends(issued'), SameQuestions(room'),
         TabTypeOK', LinksTyped', Fits(sock', Len(issued')), Remembers',
         \A i \in Sockets : Open(i)' => /\ Open(i) /\ sock'[i].ticket = sock[i].ticket
                                        /\ sock'[i].down = sock[i].down,
         seat' = seat, heard' = heard, store'.question = store.question,
         heard = {} => store'.answer = None
  PROVE  IInv'
<1>1. heard \subseteq spent /\ (heard = {} => store.question = None)
  BY DEF IInv, HeardInv
<1>2. \A i \in Sockets : Open(i)' =>
        /\ InOrder(sock'[i].down, GameOf(i), room[GameOf(i)].cur, Seen(i)')
        /\ Heard(i)' => /\ store'.question[1] = GameOf(i)
                        /\ store'.question[2] <= room[GameOf(i)].cur
  BY StartsStay
<1>. QED
  BY <1>1, <1>2, ServerSame, TabStep

\* A message is sent or lost.
LEMMA SendFits ==
  ASSUME IInv, NEW m \in Ups, Send(m)
  PROVE  /\ Fits(sock', Len(issued)) /\ SameDown(sock')
<1>1. CASE ~Connected
  BY <1>1, SockSame DEF Send
<1>2. CASE Connected
  <2>1. ws \in Sockets
    BY <1>2, ServerSame DEF LinksTyped, Connected
  <2>2. /\ Len(sock[ws].up) < MaxUp /\ sock' = [sock EXCEPT ![ws].up = Append(@, m)]
    BY <1>2 DEF Send
  <2>3. /\ Fits(sock, Len(issued)) /\ sock[ws].up \in Seq(Ups) /\ MaxUp \in Nat
        /\ sock \in [Sockets -> Links]
    BY <2>1, SockFits, LinkFields DEF IInv, Fits
  <2>4. PICK q \in Seq(Ups) : q = Append(sock[ws].up, m) /\ Len(q) <= MaxUp
    <3>1. /\ Append(sock[ws].up, m) \in Seq(Ups)
          /\ Len(Append(sock[ws].up, m)) = Len(sock[ws].up) + 1
      BY <2>3, AppendProperties
    <3>2. Len(sock[ws].up) \in Nat
      BY <2>3, LenProperties
    <3>3. Len(Append(sock[ws].up, m)) <= MaxUp
      BY <2>2, <2>3, <3>1, <3>2
    <3>. QED
      BY <3>1, <3>3
  <2>5. sock' = WithUp(sock, ws, q)
    BY <2>1, <2>2, <2>3, <2>4 DEF WithUp
  <2>6. /\ Fits(sock', Len(issued)) /\ sock'[ws].down = sock[ws].down
        /\ sock'[ws].st = sock[ws].st /\ sock'[ws].ticket = sock[ws].ticket
        /\ \A j \in Sockets \ {ws} : sock'[j] = sock[j]
    <3>1. q \in Seq(Ups) /\ Len(q) <= MaxUp
      BY <2>4
    <3>. QED
      BY ONLY <2>1, <2>3, <2>5, <3>1, UpReplaced
  <2>. QED
    BY <2>6 DEF SameDown, SameEnds
<1>. QED
  BY <1>1, <1>2

\* A step that changes no socket but for what the tab sends.
LEMMA PageStep ==
  ASSUME IInv, UNCHANGED <<tab, code, hostTicket, linkVars, roomVars, heard>>,
         page' \in Pages, role = "host" /\ page' \in {"lobby", "question"} =>
                            page \in {"lobby", "question"},
         store' \in Stores, store'.question = store.question,
         heard = {} => store'.answer = None,
         Fits(sock', Len(issued)), SameDown(sock')
  PROVE  IInv'
<1>1. /\ Extends(issued') /\ SameQuestions(room') /\ seat' = seat /\ spent' = spent
      /\ issued' = issued /\ Fits(sock', Len(issued'))
  BY ServerSame DEF roomVars, Extends, SameQuestions
<1>2. TabTypeOK' /\ LinksTyped'
  BY ServerSame DEF TabTypeOK, LinksTyped, linkVars
<1>3. /\ \A i \in Sockets : sock'[i].st = sock[i].st /\ sock'[i].ticket = sock[i].ticket
                            /\ sock'[i].down = sock[i].down
  BY DEF SameDown, SameEnds
<1>4. Remembers'
  <2>1. ws \in Sockets \cup {0} /\ role' = role
    BY ServerSame DEF LinksTyped, role
  <2>. QED
    BY <1>1, <1>3, <2>1, ServerSame DEF Remembers, linkVars
<1>5. \A i \in Sockets : Open(i)' => /\ Open(i) /\ sock'[i].ticket = sock[i].ticket
                                     /\ sock'[i].down = sock[i].down
  BY <1>3 DEF Open
<1>. QED
  BY <1>1, <1>2, <1>4, <1>5, QuietStep


\* A quiet step of the network.
LEMMA QuietSame ==
  ASSUME IInv, UNCHANGED <<tabVars, roomVars>>,
         LinksTyped', Fits(sock', Len(issued')), Remembers',
         \A i \in Sockets : Open(i)' => /\ Open(i) /\ sock'[i].ticket = sock[i].ticket
                                        /\ sock'[i].down = sock[i].down
  PROVE  IInv'
<1>1. Extends(issued') /\ SameQuestions(room') /\ seat' = seat /\ spent' = spent
  BY ServerSame DEF roomVars, Extends, SameQuestions
<1>2. TabTypeOK' /\ tab' = tab /\ heard' = heard /\ store' = store
  BY ServerSame DEF TabTypeOK, tabVars
<1>3. heard = {} => store.answer = None
  BY DEF IInv, HeardInv
<1>. QED
  BY <1>1, <1>2, <1>3, QuietStep


\* A new socket dials with ticket t; the others stay as they are.
LEMMA DialFits ==
  ASSUME NEW n, Fits(sock, n), NEW t \in Tickets, t <= n, Dial(t)
  PROVE  /\ ws' \in Sockets /\ Fits(sock', n)
         /\ sock'[ws'].st = "dialing"
         /\ \A j \in Sockets : j # ws' => sock'[j] = sock[j]
<1>1. /\ \E i \in Sockets : sock[i].st = "none"
      /\ ws' = FreeSocket
      /\ sock' = [sock EXCEPT ![FreeSocket] = [NoLink EXCEPT !.st = "dialing", !.ticket = t]]
  BY DEF Dial, HasSocket
<1>2. FreeSocket \in Sockets
  BY <1>1 DEF FreeSocket
<1>3. PICK l : l = [NoLink EXCEPT !.st = "dialing", !.ticket = t]
  OBVIOUS
<1>4. l = [st |-> "dialing", ticket |-> t, up |-> <<>>, down |-> <<>>]
  BY <1>3 DEF NoLink
<1>5. /\ l \in Links /\ l.st = "dialing" /\ l.ticket = t /\ l.up = <<>> /\ l.down = <<>>
  BY <1>4, TicketFacts DEF Links
<1>6. /\ MaxUp \in Nat /\ MaxDown \in Nat /\ t # 0
      /\ Len(l.up) = 0 /\ Len(l.down) = 0
  BY <1>5, ClientAssumption, TicketFacts
<1>7. PICK k \in Sockets : k = FreeSocket
  BY <1>2
<1>8. sock' = WithLink(sock, k, l) /\ ws' = k
  BY <1>1, <1>3, <1>7 DEF WithLink
<1>9. /\ Fits(sock, n) /\ l.ticket <= n /\ (l.st # "none" => l.ticket # 0)
      /\ Len(l.up) <= MaxUp /\ Len(l.down) <= MaxDown /\ l \in Links /\ k \in Sockets
  BY <1>5, <1>6, <1>7
<1>10. Fits(sock', n) /\ sock'[k] = l /\ \A j \in Sockets \ {k} : sock'[j] = sock[j]
  BY ONLY <1>8, <1>9, LinkReplaced
<1>. QED
  BY <1>5, <1>8, <1>10

\* Sockets fit when there are more tickets.
LEMMA FitsMore ==
  ASSUME TypeOK, NEW n \in Nat, Len(issued) <= n
  PROVE  Fits(sock, n)
<1>1. Fits(sock, Len(issued)) /\ Len(issued) \in Nat
  BY SockFits
<1>2. \A i \in Sockets : sock[i].ticket \in Nat /\ sock[i].ticket <= Len(issued)
  BY <1>1, LinkFields, TicketFacts, ClientAssumption
<1>3. \A i \in Sockets : sock[i].ticket <= n
  BY <1>1, <1>2
<1>. QED
  BY <1>1, <1>3 DEF Fits

\* A step that connects, with the ticket of before or with a new one.
LEMMA ConnectStep ==
  ASSUME IInv, UNCHANGED <<tab, heard, spent, seat>>, NEW t \in Tickets, t <= Len(issued'),
         Connect(t), Extends(issued'), SameQuestions(room'), TabTypeOK',
         hostTicket' # None => hostTicket' <= Len(issued'),
         role = "host" => hostTicket' # None /\ code' # None,
         store'.question = store.question, store'.answer = store.answer
  PROVE  IInv'
<1>1. Len(issued') \in Nat /\ Len(issued) <= Len(issued')
  BY LenProperties DEF Extends
<1>2. Fits(sock, Len(issued'))
  BY <1>1, FitsMore DEF IInv
<1>3. Dial(t) /\ url' = t /\ closed' = FALSE /\ listening' = TRUE /\ retries' = retries
  BY DEF Connect
<1>4. /\ ws' \in Sockets /\ Fits(sock', Len(issued'))
      /\ sock'[ws'].st = "dialing"
      /\ \A j \in Sockets : j # ws' => sock'[j] = sock[j]
  BY ONLY <1>2, <1>3, t \in Tickets, t <= Len(issued'), DialFits
<1>5. LinksTyped'
  BY <1>3, <1>4, ServerSame DEF LinksTyped
<1>6. Remembers'
  <2>1. role' = role /\ url' # None
    BY <1>3, TicketFacts DEF role
  <2>. QED
    BY <1>3, <1>4, <2>1 DEF Remembers
<1>7. \A i \in Sockets : Open(i)' => /\ Open(i) /\ sock'[i].ticket = sock[i].ticket
                                     /\ sock'[i].down = sock[i].down
  BY <1>4 DEF Open
<1>8. heard = {} => store'.answer = None
  BY DEF IInv, HeardInv
<1>. QED
  BY <1>4, <1>5, <1>6, <1>7, <1>8, QuietStep

\* A timer that fires keeps the invariant.
LEMMA RetryKeeps ==
  ASSUME IInv, Retry
  PROVE  IInv'
<1>1. /\ retries > 0 /\ retries' = retries - 1
      /\ UNCHANGED <<url, closed, listening, tabVars, roomVars>>
      /\ UNCHANGED <<ws, sock>> \/ Dial(url)
  BY DEF Retry
<1>2. /\ url \in Tickets /\ url <= Len(issued) /\ retries \in 0 .. MaxRetries
      /\ MaxRetries \in Nat /\ ws \in Sockets \cup {0} /\ Fits(sock, Len(issued))
  BY <1>1, ServerSame, ClientAssumption DEF Remembers, LinksTyped
<1>3. CASE UNCHANGED <<ws, sock>>
  <2>1. LinksTyped' /\ Fits(sock', Len(issued'))
    BY <1>1, <1>2, <1>3, ServerSame DEF LinksTyped, roomVars
  <2>2. Remembers'
    BY <1>1, <1>2, <1>3, ServerSame, TicketFacts DEF Remembers, roomVars, tabVars, role
  <2>3. \A i \in Sockets : Open(i)' => /\ Open(i) /\ sock'[i].ticket = sock[i].ticket
                                       /\ sock'[i].down = sock[i].down
    BY <1>3 DEF Open
  <2>. QED
    BY <1>1, <2>1, <2>2, <2>3, QuietSame
<1>4. CASE Dial(url)
  <2>1. /\ ws' \in Sockets /\ Fits(sock', Len(issued)) /\ sock'[ws'].st = "dialing"
        /\ \A j \in Sockets : j # ws' => sock'[j] = sock[j]
    BY ONLY <1>2, <1>4, DialFits
  <2>2. LinksTyped' /\ Fits(sock', Len(issued'))
    BY <1>1, <1>2, <2>1, ServerSame DEF LinksTyped, roomVars
  <2>3. Remembers'
    BY <1>1, <1>2, <2>1, ServerSame, TicketFacts DEF Remembers, roomVars, tabVars, role
  <2>4. \A i \in Sockets : Open(i)' => /\ Open(i) /\ sock'[i].ticket = sock[i].ticket
                                       /\ sock'[i].down = sock[i].down
    BY <2>1 DEF Open
  <2>. QED
    BY <1>1, <2>2, <2>3, <2>4, QuietSame
<1>. QED
  BY <1>1, <1>3, <1>4

\* A socket that ends: its slot is free, and a timer runs unless close() was called.
LEMMA OnCloseFits ==
  ASSUME IInv, NEW i \in Sockets, sock[i].st # "none", NEW sk, Fits(sk, Len(issued)),
         SameEnds(sk), OnClose(i, sk), UNCHANGED <<tabVars, issued>>
  PROVE  /\ Fits(sock', Len(issued)) /\ LinksTyped' /\ Remembers'
         /\ sock'[i].st = "none" /\ \A j \in Sockets \ {i} : sock'[j] = sk[j]
<1>1. /\ closed \/ retries < MaxRetries
      /\ retries' = IF closed THEN retries ELSE retries + 1
      /\ ws' = IF ws = i THEN 0 ELSE ws
      /\ sock' = [sk EXCEPT ![i] = NoLink]
      /\ UNCHANGED <<url, closed, listening>>
  BY DEF OnClose
<1>2. /\ NoLink \in Links /\ NoLink.ticket = 0 /\ NoLink.st = "none"
      /\ Len(NoLink.up) = 0 /\ Len(NoLink.down) = 0
      /\ MaxUp \in Nat /\ MaxDown \in Nat /\ Len(issued) \in Nat
  BY ClientAssumption, ServerSame DEF NoLink, Links
<1>3. /\ Fits(sk, Len(issued)) /\ i \in Sockets /\ NoLink \in Links
      /\ NoLink.ticket <= Len(issued) /\ (NoLink.st # "none" => NoLink.ticket # 0)
      /\ Len(NoLink.up) <= MaxUp /\ Len(NoLink.down) <= MaxDown
  BY <1>2
<1>4. /\ Fits(sock', Len(issued)) /\ sock'[i] = NoLink
      /\ \A j \in Sockets \ {i} : sock'[j] = sk[j]
  <2>1. sock' = WithLink(sk, i, NoLink)
    BY <1>1 DEF WithLink
  <2>. QED
    BY ONLY <1>3, <2>1, LinkReplaced
<1>5. LinksTyped'
  <2>1. retries \in 0 .. MaxRetries /\ MaxRetries \in Nat
    BY ServerSame, ClientAssumption DEF LinksTyped
  <2>2. retries' \in 0 .. MaxRetries
    BY <1>1, <2>1
  <2>. QED
    BY <1>1, <2>2, ServerSame DEF LinksTyped
<1>6. \A j \in Sockets : sk[j].st = sock[j].st
  BY DEF SameEnds
<1>7. Remembers'
  <2>1. url # None
    BY ServerSame DEF Remembers
  <2>2. ws' # 0 => ws' \in Sockets \ {i} /\ sock'[ws'].st = sock[ws].st /\ ws' = ws
    BY <1>1, <1>4, <1>6, ServerSame DEF LinksTyped
  <2>. QED
    BY <1>1, <2>1, <2>2, ServerSame DEF Remembers, tabVars, role
<1>. QED
  BY <1>2, <1>4, <1>5, <1>7


\* Where a store and a seat begin.
LEMMA FreshStore == Fresh \in Stores
  BY DEF Fresh, Stores

LEMMA NewSeatTyped ==
  /\ NewSeat \in Seats /\ NewSeat.answer = None /\ NewSeat.score = 0
  BY TicketFacts DEF NewSeat, Seats


\* Nothing happens on the sockets where nothing happens.
LEMMA OpenSame ==
  ASSUME NEW sk, SameEnds(sk), NEW i \in Sockets,
         sock'[i].st = "none" \/ sock'[i].st = "closing",
         \A j \in Sockets \ {i} : sock'[j] = sk[j]
  PROVE  \A j \in Sockets : Open(j)' => /\ j # i /\ Open(j)
                                        /\ sock'[j].ticket = sock[j].ticket
                                        /\ sock'[j].down = sk[j].down
  BY DEF SameEnds, Open

\* A refused socket, or the end of a closing handshake.
LEMMA LinkEndsKeeps ==
  ASSUME IInv, NEW i \in Sockets, LinkEnds(i)
  PROVE  IInv'
<1>1. sock[i].st # "none" /\ OnClose(i, sock) /\ UNCHANGED <<tabVars, roomVars>>
  BY DEF LinkEnds
<1>2. Fits(sock, Len(issued)) /\ SameEnds(sock)
  BY SockSame DEF SameDown
<1>3. UNCHANGED <<tabVars, issued>>
  BY <1>1 DEF roomVars
<1>4. /\ Fits(sock', Len(issued)) /\ LinksTyped' /\ Remembers'
      /\ sock'[i].st = "none" /\ \A j \in Sockets \ {i} : sock'[j] = sock[j]
  BY <1>1, <1>2, <1>3, OnCloseFits
<1>5. \A j \in Sockets : Open(j)' => /\ Open(j) /\ sock'[j].ticket = sock[j].ticket
                                     /\ sock'[j].down = sock[j].down
  BY <1>4 DEF Open
<1>. QED
  BY <1>1, <1>3, <1>4, <1>5, QuietSame

\* What the others of a room are told of a player who goes.
LEMMA PartedFits ==
  ASSUME IInv, NEW i \in Sockets, Open(i) => Reachable(GameOf(i), 1)
  PROVE  /\ Fits(Parted(i), Len(issued)) /\ SameEnds(Parted(i))
         /\ \A j \in Sockets :
              \/ Parted(i)[j].down = sock[j].down
              \/ \E m \in Frames :
                   Parted(i)[j].down = sock[j].down \o <<m>> /\ ~IsStart(m)
<1>1. CASE role = "player" /\ Open(i)
  <2> DEFINE g == GameOf(i)
             m == About("participant.left", sock[i].ticket)
  <2>1. sock[i].ticket \in People /\ Reachable(g, 1)
    BY <1>1, OpenFacts, TicketFacts DEF IInv
  <2>2. m \in Frames /\ ~IsStart(m)
    BY <2>1, NoticeFrames
  <2>3. Parted(i) = TellAll(sock, g, <<m>>)
    BY <1>1 DEF Parted
  <2> HIDE DEF m
  <2>4. Fits(sock, Len(issued)) /\ SameDown(sock)
    BY SockSame
  <2>5. /\ Fits(TellAll(sock, g, <<m>>), Len(issued))
        /\ \A j \in Sockets :
             /\ TellAll(sock, g, <<m>>)[j].st = sock[j].st
             /\ TellAll(sock, g, <<m>>)[j].ticket = sock[j].ticket
             /\ TellAll(sock, g, <<m>>)[j].down =
                  IF j \in Members(g) THEN sock[j].down \o <<m>> ELSE sock[j].down
    BY <2>1, <2>2, <2>4, NoticeFits
  <2>. QED
    BY <2>2, <2>3, <2>5 DEF SameEnds
<1>2. CASE ~(role = "player" /\ Open(i))
  BY <1>2, SockSame DEF Parted, SameDown
<1>. QED
  BY <1>1, <1>2

\* A connection that is lost keeps the invariant: its seat is taken by nobody.
LEMMA DropKeeps ==
  ASSUME IInv, NEW i \in Sockets, Drop(i)
  PROVE  IInv'
<1>1. /\ Open(i) /\ Reachable(GameOf(i), 1) /\ OnClose(i, Parted(i))
      /\ seat' = [seat EXCEPT ![sock[i].ticket] = NewSeat]
      /\ UNCHANGED <<tabVars, issued, spent, room>>
  BY DEF Drop
<1>2. sock[i].st # "none" /\ sock[i].ticket \in Tickets
  BY <1>1, OpenFacts DEF IInv
<1>3. PICK sk : sk = Parted(i)
  OBVIOUS
<1>4. /\ Fits(sk, Len(issued)) /\ SameEnds(sk) /\ OnClose(i, sk)
      /\ \A j \in Sockets :
           \/ sk[j].down = sock[j].down
           \/ \E m \in Frames : sk[j].down = sock[j].down \o <<m>> /\ ~IsStart(m)
  BY <1>1, <1>3, PartedFits
<1>5. /\ Fits(sock', Len(issued')) /\ LinksTyped' /\ Remembers'
      /\ sock'[i].st = "none" /\ \A j \in Sockets \ {i} : sock'[j] = sk[j]
  BY <1>1, <1>2, <1>4, OnCloseFits
<1>6. \A j \in Sockets : Open(j)' => /\ j # i /\ Open(j)
                                     /\ sock'[j].ticket = sock[j].ticket
                                     /\ sock'[j].down = sk[j].down
  BY <1>4, <1>5, OpenSame
<1>7. Extends(issued') /\ SameQuestions(room') /\ tab' = tab /\ spent' = spent
  BY <1>1, ServerSame DEF tabVars, Extends, SameQuestions
<1>8. TabTypeOK' /\ heard' = heard /\ store' = store
  BY <1>1, ServerSame DEF TabTypeOK, tabVars
<1>9. seat' \in [Tickets -> Seats]
  <2>1. NewSeat \in Seats
    BY NewSeatTyped
  <2>. QED
    BY <1>1, <2>1, ServerSame
<1>10. \A t \in Tickets : \/ seat'[t] = seat[t]
                          \/ seat'[t] = NewSeat /\ \A j \in Sockets :
                                                     Open(j)' => sock'[j].ticket # t
  <2>1. \A j \in Sockets : Open(j)' => sock'[j].ticket # sock[i].ticket
    BY <1>1, <1>6, ServerSame DEF OneEach
  <2>. QED
    BY <1>1, <1>2, <2>1, ServerSame
<1>11. /\ heard' \subseteq spent
       /\ heard' = {} => store'.question = None /\ store'.answer = None
  BY <1>8 DEF IInv, HeardInv
<1>12. ASSUME NEW j \in Sockets, Open(j)'
       PROVE  /\ InOrder(sock'[j].down, GameOf(j), room[GameOf(j)].cur, Seen(j)')
              /\ Heard(j)' => /\ store'.question[1] = GameOf(j)
                              /\ store'.question[2] <= room[GameOf(j)].cur
  <2>1. /\ Open(j) /\ sock'[j].ticket = sock[j].ticket
        /\ \/ sock'[j].down = sock[j].down
           \/ \E m \in Frames : sock'[j].down = sock[j].down \o <<m>> /\ ~IsStart(m)
    BY <1>4, <1>6, <1>12
  <2>. QED
    BY <1>8, <2>1, StartsStay
<1>. QED
  BY <1>5, <1>6, <1>7, <1>8, <1>9, <1>10, <1>11, <1>12, TabStep

\* disconnect keeps the invariant: the store is empty, and the socket is not read again.
LEMMA ExitResultsKeeps ==
  ASSUME IInv, ExitResults
  PROVE  IInv'
<1>1. /\ page' = "home" /\ closed' = TRUE /\ listening' = FALSE
      /\ Connected => Reachable(GameOf(ws), 1)
      /\ store' = Fresh /\ heard' = {}
      /\ sock' = IF ws = 0 THEN sock
                 ELSE [Parted(ws) EXCEPT ![ws] = [NoLink EXCEPT !.st = "closing",
                                                                !.ticket = sock[ws].ticket]]
      /\ UNCHANGED <<tab, code, hostTicket, ws, url, retries, roomVars>>
  BY DEF ExitResults
<1>2. Extends(issued') /\ SameQuestions(room') /\ seat' = seat /\ spent' = spent
      /\ issued' = issued
  BY <1>1, ServerSame DEF roomVars, Extends, SameQuestions
<1>3. TabTypeOK' /\ LinksTyped'
  BY <1>1, ServerSame, FreshStore DEF TabTypeOK, LinksTyped, Pages
<1>4. PICK sk : /\ sk = IF ws = 0 THEN sock ELSE Parted(ws)
                /\ Fits(sk, Len(issued)) /\ SameEnds(sk)
                /\ \A j \in Sockets :
                     \/ sk[j].down = sock[j].down
                     \/ \E m \in Frames : sk[j].down = sock[j].down \o <<m>> /\ ~IsStart(m)
  <2>1. CASE ws = 0
    BY <2>1, SockSame DEF SameDown
  <2>2. CASE ws # 0
    <3>1. ws \in Sockets
      BY <2>2, ServerSame DEF LinksTyped
    <3>2. Open(ws) => Reachable(GameOf(ws), 1)
      BY <1>1, <2>2 DEF Connected
    <3>. QED
      BY <2>2, <3>1, <3>2, PartedFits
  <2>. QED
    BY <2>1, <2>2
<1>5. /\ Fits(sock', Len(issued))
      /\ \A j \in Sockets : \/ sock'[j] = sk[j]
                            \/ j = ws /\ sock'[j].st = "closing"
  <2>1. CASE ws = 0
    BY <1>1, <1>4, <2>1
  <2>2. CASE ws # 0
    <3>1. ws \in Sockets /\ sock[ws].st # "none"
      BY <2>2, ServerSame DEF LinksTyped, Remembers
    <3>2. PICK l : l = [NoLink EXCEPT !.st = "closing", !.ticket = sock[ws].ticket]
      OBVIOUS
    <3>3. l = [st |-> "closing", ticket |-> sock[ws].ticket, up |-> <<>>, down |-> <<>>]
      BY <3>2 DEF NoLink
    <3>4. /\ sock[ws].ticket \in 1 .. Len(issued) /\ sock[ws].ticket \in 0 .. MaxTickets
          /\ Len(issued) \in Nat
      BY <3>1, OpenFacts, SockFits, LinkFields DEF IInv
    <3>5. l \in Links /\ l.st = "closing" /\ l.ticket = sock[ws].ticket
          /\ l.up = <<>> /\ l.down = <<>>
      BY <3>3, <3>4 DEF Links
    <3>6. /\ Fits(sk, Len(issued)) /\ ws \in Sockets /\ l \in Links
          /\ l.ticket <= Len(issued) /\ (l.st # "none" => l.ticket # 0)
          /\ Len(l.up) <= MaxUp /\ Len(l.down) <= MaxDown
      BY <1>4, <3>1, <3>4, <3>5, ClientAssumption
    <3>7. sock' = WithLink(sk, ws, l)
      BY <1>1, <1>4, <2>2, <3>2 DEF WithLink
    <3>8. /\ Fits(sock', Len(issued)) /\ sock'[ws] = l
          /\ \A j \in Sockets \ {ws} : sock'[j] = sk[j]
      BY ONLY <3>6, <3>7, LinkReplaced
    <3>. QED
      BY <3>5, <3>8
  <2>. QED
    BY <2>1, <2>2
<1>6. \A j \in Sockets : Open(j)' => /\ Open(j) /\ sock'[j].ticket = sock[j].ticket
                                     /\ sock'[j].down = sk[j].down
  BY <1>4, <1>5 DEF SameEnds, Open
<1>7. Remembers'
  <2>1. ws \in Sockets \cup {0}
    BY ServerSame DEF LinksTyped
  <2>2. ws # 0 => ws \in Sockets /\ sock[ws].st # "none"
    BY ServerSame DEF Remembers, LinksTyped
  <2>3. url = None => retries = 0 /\ ws = 0 /\ \A j \in Sockets : sock[j].st = "none"
    BY <2>2, ServerSame DEF Remembers
  <2>4. \A j \in Sockets : sk[j].st = sock[j].st
    BY <1>4 DEF SameEnds
  <2>5. url = None => \A j \in Sockets : sock'[j].st = "none"
    BY <1>5, <2>3, <2>4 DEF Sockets
  <2>6. ws # 0 => sock'[ws].st # "none"
    BY <1>5, <2>2, <2>4
  <2>. QED
    BY <1>1, <1>2, <2>1, <2>3, <2>5, <2>6, ServerSame DEF Remembers
<1>8. heard' \subseteq spent /\ store'.question = None /\ store'.answer = None
  BY <1>1 DEF Fresh
<1>9. ASSUME NEW j \in Sockets, Open(j)'
      PROVE  /\ InOrder(sock'[j].down, GameOf(j), room[GameOf(j)].cur, Seen(j)')
             /\ Heard(j)' => /\ store'.question[1] = GameOf(j)
                             /\ store'.question[2] <= room[GameOf(j)].cur
  <2>1. ~Heard(j)'
    BY <1>1 DEF Heard
  <2>2. /\ Open(j) /\ sock'[j].ticket = sock[j].ticket
        /\ \/ sock'[j].down = sock[j].down
           \/ \E m \in Frames : sock'[j].down = sock[j].down \o <<m>> /\ ~IsStart(m)
    BY <1>4, <1>6, <1>9
  <2>. QED
    BY <2>1, <2>2, StartsStay
<1>. QED
  BY <1>1, <1>2, <1>3, <1>5, <1>6, <1>7, <1>8, <1>9, ServerSame, TabStep


\* A tab that is empty, without connections, on games whose seats are free.
LEMMA ReloadStep ==
  ASSUME IInv, UNCHANGED <<tab, page, code, hostTicket, issued, spent, room>>,
         store' = Fresh, heard' = {}, seat' = [t \in Tickets |-> NewSeat],
         LinksTyped', Fits(sock', Len(issued)), Remembers', \A i \in Sockets : ~Open(i)'
  PROVE  IInv'
<1>1. Extends(issued') /\ SameQuestions(room') /\ spent' = spent
  BY ServerSame DEF Extends, SameQuestions
<1>2. TabTypeOK'
  BY ServerSame, FreshStore DEF TabTypeOK
<1>3. /\ seat' \in [Tickets -> Seats] /\ \A t \in Tickets : seat'[t] = NewSeat
      /\ heard' \subseteq spent /\ store'.question = None /\ store'.answer = None
  BY NewSeatTyped DEF Fresh
<1>. QED
  BY <1>1, <1>2, <1>3, TabStep

\* A page that is loaded again keeps the invariant: there is no connection but one that
\* dials.
LEMMA ReloadKeeps ==
  ASSUME IInv, Reload
  PROVE  IInv'
<1>1. /\ page # "home"
      /\ store' = Fresh /\ heard' = {} /\ retries' = 0
      /\ seat' = [t \in Tickets |-> NewSeat]
      /\ UNCHANGED <<tab, page, code, hostTicket, issued, spent, room>>
  BY DEF Reload
<1>2. PICK l, n : l = [NoLink EXCEPT !.st = "dialing", !.ticket = hostTicket] /\ n = NoLink
  OBVIOUS
<1>3. /\ l = [st |-> "dialing", ticket |-> hostTicket, up |-> <<>>, down |-> <<>>]
      /\ n = [st |-> "none", ticket |-> 0, up |-> <<>>, down |-> <<>>]
  BY <1>2 DEF NoLink
<1>4. \/ /\ role = "host" /\ page = "lobby"
         /\ url' = hostTicket /\ closed' = FALSE /\ listening' = TRUE /\ ws' = 1
         /\ sock' = [i \in Sockets |-> IF i = 1 THEN l ELSE n]
      \/ /\ url' = None /\ closed' = FALSE /\ listening' = FALSE /\ ws' = 0
         /\ sock' = [i \in Sockets |-> n]
  BY <1>2 DEF Reload
<1>5. /\ Len(issued) \in Nat /\ 1 \in Sockets /\ MaxUp \in Nat /\ MaxDown \in Nat
      /\ MaxRetries \in Nat /\ MaxTickets \in Nat
      /\ hostTicket \in Tickets \cup {None} /\ (hostTicket # None => hostTicket <= Len(issued))
      /\ role = "host" /\ page = "lobby" => hostTicket # None
  BY ServerSame, ClientAssumption DEF Remembers, TabTypeOK, Sockets
<1>6. /\ n \in Links /\ n.st = "none" /\ n.ticket = 0 /\ Len(n.up) = 0 /\ Len(n.down) = 0
  BY <1>3, <1>5 DEF Links
<1>7. CASE role = "host" /\ page = "lobby" /\ url' = hostTicket /\ ws' = 1
           /\ sock' = [i \in Sockets |-> IF i = 1 THEN l ELSE n]
           /\ closed' = FALSE /\ listening' = TRUE
  <2>1. hostTicket \in Tickets /\ hostTicket # 0 /\ hostTicket <= Len(issued)
    BY <1>5, <1>7, TicketFacts
  <2>2. /\ l \in Links /\ l.st = "dialing" /\ l.ticket = hostTicket
        /\ Len(l.up) = 0 /\ Len(l.down) = 0
    BY <1>3, <2>1, TicketFacts DEF Links
  <2>3. Fits(sock', Len(issued))
    BY <1>5, <1>6, <1>7, <2>1, <2>2 DEF Fits
  <2>4. LinksTyped'
    <3>1. retries' \in 0 .. MaxRetries
      BY <1>1, <1>5
    <3>. QED
      BY <1>5, <1>7, <2>1, <3>1 DEF LinksTyped
  <2>5. Remembers'
    BY <1>1, <1>5, <1>7, <2>1, <2>2, ServerSame, TicketFacts DEF Remembers, role
  <2>6. \A i \in Sockets : ~Open(i)'
    BY <1>6, <1>7, <2>2 DEF Open
  <2>. QED
    BY <1>1, <2>3, <2>4, <2>5, <2>6, ReloadStep
<1>8. CASE /\ url' = None /\ closed' = FALSE /\ listening' = FALSE /\ ws' = 0
           /\ sock' = [i \in Sockets |-> n]
  <2>1. Fits(sock', Len(issued))
    BY <1>5, <1>6, <1>8 DEF Fits
  <2>2. LinksTyped'
    <3>1. retries' \in 0 .. MaxRetries
      BY <1>1, <1>5
    <3>. QED
      BY <1>8, <3>1 DEF LinksTyped
  <2>3. Remembers'
    BY <1>1, <1>6, <1>8, ServerSame DEF Remembers, role
  <2>4. \A i \in Sockets : ~Open(i)'
    BY <1>6, <1>8 DEF Open
  <2>. QED
    BY <1>1, <2>1, <2>2, <2>3, <2>4, ReloadStep
<1>. QED
  BY <1>4, <1>7, <1>8

\* What handle does to the question and the choice on the screen.
LEMMA HandleQuestion ==
  ASSUME NEW s \in Stores, NEW m \in Frames
  PROVE  /\ IsStart(m) => Handle(s, m).question = m.question /\ Handle(s, m).answer = None
         /\ ~IsStart(m) => Handle(s, m).question = s.question /\ Handle(s, m).answer = s.answer
<1>1. CASE m.type = "question.start"
  <2>1. OnQuestionStart(s, m).question = m.question /\ OnQuestionStart(s, m).answer = None
    BY DEF OnQuestionStart, Stores
  <2>. QED
    BY <1>1, <2>1, HandlerOf DEF IsStart
<1>2. CASE m.type \in {"room.state", "participant.joined", "participant.left",
                       "participant.status"}
  <2>1. /\ OnRoomState(s, m).question = s.question /\ OnRoomState(s, m).answer = s.answer
    BY DEF OnRoomState, Stores
  <2>2. /\ OnJoined(s, m).question = s.question /\ OnJoined(s, m).answer = s.answer
    BY DEF OnJoined, Stores
  <2>3. /\ OnLeft(s, m).question = s.question /\ OnLeft(s, m).answer = s.answer
    BY DEF OnLeft, Stores
  <2>4. /\ OnStatus(s, m).question = s.question /\ OnStatus(s, m).answer = s.answer
    BY DEF OnStatus, Stores
  <2>. QED
    BY <1>2, <2>1, <2>2, <2>3, <2>4, HandlerOf DEF IsStart
<1>3. CASE m.type \in {"question.end", "leaderboard.update", "powerup.applied",
                       "game.finished", "error"}
  <2>1. /\ OnQuestionEnd(s, m).question = s.question /\ OnQuestionEnd(s, m).answer = s.answer
    BY DEF OnQuestionEnd, Stores
  <2>2. /\ OnBoard(s, m).question = s.question /\ OnBoard(s, m).answer = s.answer
    BY DEF OnBoard, Stores
  <2>3. /\ OnPowerup(s, m).question = s.question /\ OnPowerup(s, m).answer = s.answer
    BY DEF OnPowerup, Stores
  <2>4. /\ OnFinished(s, m).question = s.question /\ OnFinished(s, m).answer = s.answer
    BY DEF OnFinished, Stores
  <2>. QED
    BY <1>3, <2>1, <2>2, <2>3, <2>4, HandlerOf DEF IsStart
<1>. QED
  BY <1>1, <1>2, <1>3, TypeOf

\* The queue of a frame that is handled, or dropped, stays in order after what the store
\* shows.
LEMMA DeliverInOrder ==
  ASSUME IInv, NEW i \in Sockets, Open(i), sock[i].down # <<>>,
         sock'[i].down = Tail(sock[i].down), sock'[i].ticket = sock[i].ticket,
         \/ /\ store' = Handle(store, Head(sock[i].down))
            /\ heard' = heard \cup {sock[i].ticket}
         \/ UNCHANGED <<store, heard>>
  PROVE  /\ InOrder(sock'[i].down, GameOf(i), room[GameOf(i)].cur, Seen(i)')
         /\ Heard(i)' => /\ store'.question[1] = GameOf(i)
                         /\ store'.question[2] <= room[GameOf(i)].cur
<1> DEFINE g == GameOf(i)
           cur == room[g].cur
           m == Head(sock[i].down)
<1>1. /\ cur \in Nat /\ Seen(i) \in Nat /\ Seen(i) <= cur /\ sock[i].down \in Seq(Frames)
      /\ InOrder(sock[i].down, g, cur, Seen(i))
      /\ Heard(i) => store.question[1] = g /\ store.question[2] <= cur
  BY SeenFacts, TicketFacts DEF IInv, HeardInv, StartsInv
<1>2. /\ InOrder(Tail(sock[i].down), g, cur, Seen(i))
      /\ IsStart(m) =>
           /\ m.question[1] = g
           /\ Seen(i) < m.question[2] /\ m.question[2] <= cur
           /\ InOrder(Tail(sock[i].down), g, cur, m.question[2])
  <2>1. sock[i].down \in Seq(Frames) /\ sock[i].down # <<>> /\ InOrder(sock[i].down, g, cur, Seen(i))
    BY <1>1
  <2> HIDE DEF cur, g
  <2>. QED
    BY <2>1, TailInOrder
<1>3. /\ Tail(sock[i].down) \in Seq(Frames) /\ m \in Frames
  BY <1>1, HeadTailProperties
<1>4. InOrder(Tail(sock[i].down), g, cur, 0)
  <2>1. \A k \in DOMAIN Tail(sock[i].down) : IsStart(Tail(sock[i].down)[k]) =>
          Tail(sock[i].down)[k].question[2] \in Nat
    BY <1>3, StartIndex
  <2> DEFINE d == Tail(sock[i].down)
             seen == Seen(i)
  <2>2. /\ \A k \in DOMAIN d : IsStart(d[k]) => d[k].question[2] \in Nat
        /\ InOrder(d, g, cur, seen) /\ seen \in Nat
    BY <1>1, <1>2, <2>1
  <2> HIDE DEF d, g, cur, seen
  <2>3. InOrder(d, g, cur, 0)
    BY <2>2 DEF InOrder
  <2>. QED
    BY <2>3 DEF d
<1>5. store \in Stores /\ (heard = {} => store.question = None)
  BY ServerSame DEF TabTypeOK, IInv, HeardInv
<1>6. CASE UNCHANGED <<store, heard>>
  <2>1. Heard(i)' = Heard(i) /\ Seen(i)' = Seen(i)
    BY <1>6 DEF Heard, Seen
  <2>. QED
    BY <1>1, <1>2, <1>6, <2>1
<1>7. CASE store' = Handle(store, m) /\ heard' = heard \cup {sock[i].ticket}
  <2>1. CASE ~Heard(i)'
    <3>1. Seen(i)' = 0
      BY <2>1 DEF Seen
    <3>. QED
      BY <1>4, <2>1, <3>1
  <2>2. CASE Heard(i)' /\ IsStart(m)
    <3>1. store'.question = m.question
      BY <1>3, <1>5, <1>7, <2>2, HandleQuestion
    <3>2. Seen(i)' = m.question[2]
      BY <2>2, <3>1 DEF Seen
    <3>. QED
      BY <1>2, <2>2, <3>1, <3>2
  <2>3. CASE Heard(i)' /\ ~IsStart(m)
    <3>1. store'.question = store.question
      BY <1>3, <1>5, <1>7, <2>3, HandleQuestion
    <3>2. heard \cup {sock[i].ticket} = {sock[i].ticket} /\ store.question # None
      BY <1>7, <2>3, <3>1 DEF Heard
    <3>3. heard = {sock[i].ticket}
      BY <1>5, <3>2
    <3>4. Heard(i) /\ Seen(i)' = Seen(i)
      BY <2>3, <3>1, <3>2, <3>3 DEF Heard, Seen
    <3>. QED
      BY <1>1, <1>2, <3>1, <3>4
  <2>. QED
    BY <2>1, <2>2, <2>3
<1>. QED
  BY <1>6, <1>7

\* A frame that is handled keeps the invariant.
LEMMA DeliverKeeps ==
  ASSUME IInv, NEW i \in Sockets, Deliver(i)
  PROVE  IInv'
<1> DEFINE m == Head(sock[i].down)
           t == sock[i].ticket
<1>1. /\ Open(i) /\ sock[i].down # <<>>
      /\ sock' = [sock EXCEPT ![i].down = Tail(@)]
      /\ \/ store' = Handle(store, m) /\ heard' = heard \cup {t}
         \/ UNCHANGED <<store, heard>>
      /\ UNCHANGED <<tab, page, code, hostTicket, linkVars, roomVars>>
  BY DEF Deliver
<1>2. /\ Fits(sock, Len(issued)) /\ sock[i].down \in Seq(Frames)
      /\ Len(sock[i].down) <= MaxDown /\ sock \in [Sockets -> Links] /\ MaxDown \in Nat
      /\ t \in spent /\ t \in Tickets
  BY <1>1, SockFits, LinkFields, OpenFacts DEF IInv, Fits
<1>3. m \in Frames
  BY <1>1, <1>2, HeadTailProperties
<1>4. PICK d \in Seq(Frames) : d = Tail(sock[i].down) /\ Len(d) <= MaxDown
  <2>1. Tail(sock[i].down) \in Seq(Frames) /\ Len(Tail(sock[i].down)) = Len(sock[i].down) - 1
    BY <1>1, <1>2, HeadTailProperties
  <2>2. Len(sock[i].down) \in Nat
    BY <1>2, LenProperties
  <2>3. Len(Tail(sock[i].down)) <= MaxDown
    BY <1>2, <2>1, <2>2
  <2>. QED
    BY <2>1, <2>3
<1>5. /\ Fits(sock', Len(issued)) /\ SameEnds(sock') /\ sock'[i].down = d
      /\ \A j \in Sockets \ {i} : sock'[j].down = sock[j].down
  <2>1. sock' = WithDown(sock, i, d)
    BY <1>1, <1>2, <1>4 DEF WithDown
  <2>2. SameDown(sock) /\ d \in Seq(Frames) /\ Len(d) <= MaxDown
    BY <1>4, SockSame
  <2>. QED
    BY ONLY <1>2, <2>1, <2>2, i \in Sockets, DownOnly
<1>6. Extends(issued') /\ SameQuestions(room') /\ seat' = seat /\ spent' = spent
      /\ issued' = issued
  BY <1>1, ServerSame DEF roomVars, Extends, SameQuestions
<1>7. store \in Stores /\ heard \subseteq Tickets /\ heard \subseteq spent
      /\ (heard = {} => store.question = None /\ store.answer = None)
  BY ServerSame DEF TabTypeOK, IInv, HeardInv
<1>8. TabTypeOK' /\ LinksTyped'
  <2>1. store' \in Stores /\ heard' \subseteq Tickets
    BY <1>1, <1>2, <1>3, <1>7, HandleKeepsStores
  <2>. QED
    BY <1>1, <2>1, ServerSame DEF TabTypeOK, LinksTyped, linkVars
<1>9. \A j \in Sockets : sock'[j].st = sock[j].st /\ sock'[j].ticket = sock[j].ticket
  BY <1>5 DEF SameEnds
<1>10. Remembers'
  <2>1. ws \in Sockets \cup {0} /\ role' = role
    BY <1>1, ServerSame DEF LinksTyped, role
  <2>. QED
    BY <1>1, <1>6, <1>9, <2>1, ServerSame DEF Remembers, linkVars
<1>11. \A j \in Sockets : Open(j)' => Open(j) /\ sock'[j].ticket = sock[j].ticket
  BY <1>9 DEF Open
<1>12. /\ heard' \subseteq spent
       /\ heard' = {} => store'.question = None /\ store'.answer = None
  BY <1>1, <1>2, <1>7
<1>13. ASSUME NEW j \in Sockets, Open(j)'
       PROVE  /\ InOrder(sock'[j].down, GameOf(j), room[GameOf(j)].cur, Seen(j)')
              /\ Heard(j)' => /\ store'.question[1] = GameOf(j)
                              /\ store'.question[2] <= room[GameOf(j)].cur
  <2>1. Open(j) /\ sock'[j].ticket = sock[j].ticket
    BY <1>11, <1>13
  <2>2. CASE j # i
    <3>1. sock'[j].down = sock[j].down
      BY <1>5, <2>2
    <3>2. sock[j].ticket # t
      BY <1>1, <2>1, <2>2, ServerSame DEF OneEach
    <3>3. (heard' = heard /\ store' = store) \/ ~Heard(j)'
      BY <1>1, <2>1, <3>2 DEF Heard
    <3>. QED
      BY <2>1, <3>1, <3>3, StartsStay
  <2>3. CASE j = i
    BY <2>3, DeliverInOrder, <1>1, <1>3, <1>5, <1>4, <1>9, <1>7, <1>2
  <2>. QED
    BY <2>2, <2>3
<1>. QED
  BY <1>1, <1>5, <1>6, <1>8, <1>10, <1>11, <1>12, <1>13, ServerSame, TabStep


LEMMA PairIsConcat ==
  ASSUME NEW S, NEW a \in S, NEW b \in S
  PROVE  <<a>> \o <<b>> = <<a, b>>
<1> DEFINE s == <<a>>
           u == <<b>>
           p == <<a, b>>
<1>1. /\ s \in Seq(S) /\ u \in Seq(S) /\ p \in Seq(S)
      /\ Len(s) = 1 /\ Len(u) = 1 /\ Len(p) = 2 /\ s[1] = a /\ u[1] = b /\ p[1] = a /\ p[2] = b
  OBVIOUS
<1> HIDE DEF s, u, p
<1>2. /\ s \o u \in Seq(S) /\ Len(s \o u) = 2
      /\ (s \o u)[1] = a /\ (s \o u)[2] = b
  BY <1>1, ConcatProperties
<1>3. s \o u = p
  <2>1. \A k \in 1 .. Len(p) : (s \o u)[k] = p[k]
    BY <1>1, <1>2
  <2>. QED
    BY <1>1, <1>2, <2>1, SeqEqual
<1>. QED
  BY <1>3 DEF s, u, p

\* The frames of a new connection: the room, and the question that is open.
LEMMA HelloFrames ==
  ASSUME NEW g \in Games, NEW who \in SUBSET People, IInv,
         NEW replay, replay = <<>> \/ (room[g].open /\ replay = <<Start(g, room[g].cur)>>)
  PROVE  /\ <<StateOf(g, who)>> \o replay \in Seq(Frames)
         /\ Len(<<StateOf(g, who)>> \o replay) <= 2
         /\ InOrder(<<StateOf(g, who)>> \o replay, g, room[g].cur, 0)
<1> DEFINE h == StateOf(g, who)
           cur == room[g].cur
<1>1. h \in Frames /\ ~IsStart(h)
  <2>1. room[g].status \in Statuses
    BY RoomFields
  <2>. QED
    BY <2>1, FrameTypes DEF StateOf, IsStart
<1> HIDE DEF h
<1> DEFINE fs == <<h>> \o replay
<1>2. CASE replay = <<>>
  <2>1. fs = <<h>>
    BY <1>1, <1>2
  <2> HIDE DEF fs
  <2>2. /\ fs \in Seq(Frames) /\ Len(fs) = 1 /\ fs[1] = h /\ DOMAIN fs = 1 .. 1
    BY <1>1, <2>1
  <2>3. InOrder(fs, g, cur, 0)
    BY <1>1, <2>2 DEF InOrder
  <2>. QED
    BY <2>2, <2>3 DEF fs, h
<1>3. CASE room[g].open /\ replay = <<Start(g, cur)>>
  <2>1. cur \in 1 .. NQ
    <3>1. cur \in 0 .. NQ /\ cur > 0
      BY <1>3, RoomFields
    <3>. QED
      BY <3>1, TicketFacts
  <2> DEFINE s == Start(g, cur)
  <2>2. s \in Frames /\ s.question = <<g, cur>>
    BY <2>1, FrameTypes, StartFrames
  <2> HIDE DEF s, cur
  <2>3. <<h>> \o <<s>> = <<h, s>>
    BY <1>1, <2>2, PairIsConcat
  <2>4. fs = <<h, s>>
    <3>1. replay = <<s>>
      BY <1>3 DEF s
    <3>. QED
      BY <2>3, <3>1
  <2> HIDE DEF fs
  <2>5. /\ fs \in Seq(Frames) /\ Len(fs) = 2 /\ fs[1] = h /\ fs[2] = s /\ DOMAIN fs = 1 .. 2
    BY <1>1, <2>2, <2>4
  <2>6. InOrder(fs, g, cur, 0)
    <3>1. \A k \in DOMAIN fs : IsStart(fs[k]) => k = 2
      BY <1>1, <2>5
    <3>2. 0 < cur /\ cur <= cur
      BY <2>1, TicketFacts
    <3>. QED
      BY <2>2, <2>5, <3>1, <3>2 DEF InOrder
  <2>. QED
    BY <2>5, <2>6 DEF fs, h, cur
<1>. QED
  BY <1>2, <1>3

\* A ticket that is redeemed keeps the invariant: nobody has heard of it, and its seat is
\* new.
LEMMA AcceptKeeps ==
  ASSUME IInv, NEW i \in Sockets, Accept(i)
  PROVE  IInv'
<1> DEFINE t == sock[i].ticket
           g == issued[t]
           who == Seated(g) \cup room[g].others \cup (IF role = "player" THEN {t} ELSE {})
           replay == IF role = "player" /\ room[g].open THEN <<Start(g, room[g].cur)>> ELSE <<>>
           heads == IF role = "player" THEN TellAll(sock, g, <<About("participant.joined", t)>>)
                    ELSE sock
           down == <<StateOf(g, who)>> \o replay
<1>1. /\ sock[i].st = "dialing" /\ t \notin spent /\ Reachable(g, 1)
      /\ spent' = spent \cup {t}
      /\ sock' = [heads EXCEPT ![i].st = "open", ![i].down = down]
      /\ UNCHANGED <<tabVars, linkVars, issued, room, seat>>
  BY DEF Accept
<1>2. /\ t \in 1 .. Len(issued) /\ t \in Tickets /\ t \in People /\ g \in Games
      /\ issued \in Seq(Games)
  <2>1. t \in 1 .. Len(issued) /\ t \in Tickets
    BY <1>1, OpenFacts DEF IInv
  <2>2. issued \in Seq(Games)
    BY DEF IInv, TypeOK, RoomTypeOK
  <2>3. g \in Games
    BY <2>1, <2>2, ElementOfSeq
  <2>. QED
    BY <2>1, <2>2, <2>3, TicketFacts
<1>3. /\ down \in Seq(Frames) /\ Len(down) <= 2 /\ InOrder(down, g, room[g].cur, 0)
  <2>1. who \in SUBSET People
    BY <1>2, RoomFields
  <2>2. replay = <<>> \/ (room[g].open /\ replay = <<Start(g, room[g].cur)>>)
    <3>1. CASE role = "player" /\ room[g].open
      BY <3>1
    <3>2. CASE ~(role = "player" /\ room[g].open)
      <4>1. replay = <<>>
        BY <3>2
      <4> HIDE DEF replay, g
      <4>. QED
        BY <4>1
    <3> HIDE DEF replay, g
    <3>. QED
      BY <3>1, <3>2
  <2> HIDE DEF who, replay, g
  <2>. QED
    BY <1>2, <2>1, <2>2, HelloFrames
<1>4. PICK sk : /\ sk = heads /\ Fits(sk, Len(issued)) /\ SameEnds(sk)
                /\ \A j \in Sockets :
                     \/ sk[j].down = sock[j].down
                     \/ \E m \in Frames : sk[j].down = sock[j].down \o <<m>> /\ ~IsStart(m)
  <2>1. CASE role = "player"
    <3> DEFINE m == About("participant.joined", t)
    <3>1. m \in Frames /\ ~IsStart(m)
      BY <1>2, NoticeFrames
    <3>2. heads = TellAll(sock, g, <<m>>)
      BY <2>1
    <3>3. Fits(sock, Len(issued)) /\ SameDown(sock) /\ Reachable(g, 1)
      BY <1>1, SockSame
    <3> HIDE DEF m, heads, g
    <3>4. /\ Fits(TellAll(sock, g, <<m>>), Len(issued))
          /\ \A j \in Sockets :
               /\ TellAll(sock, g, <<m>>)[j].st = sock[j].st
               /\ TellAll(sock, g, <<m>>)[j].ticket = sock[j].ticket
               /\ TellAll(sock, g, <<m>>)[j].down =
                    IF j \in Members(g) THEN sock[j].down \o <<m>> ELSE sock[j].down
      BY ONLY IInv, <3>1, <3>3, NoticeFits
    <3>. QED
      BY <3>1, <3>2, <3>4 DEF SameEnds
  <2>2. CASE role # "player"
    BY <2>2, SockSame DEF SameDown
  <2>. QED
    BY <2>1, <2>2
<1> HIDE DEF heads, who, replay
<1>5. PICK d \in Seq(Frames) : d = down /\ Len(d) <= 2 /\ InOrder(d, g, room[g].cur, 0)
  BY <1>3
<1> HIDE DEF down
<1>6. /\ Fits(sock', Len(issued)) /\ sock'[i].st = "open" /\ sock'[i].ticket = t
      /\ sock'[i].down = d /\ \A j \in Sockets \ {i} : sock'[j] = sk[j]
  <2>1. /\ sk[i] \in Links /\ sk[i].ticket = t /\ sk \in [Sockets -> Links]
        /\ sk[i].ticket <= Len(issued) /\ Len(sk[i].up) <= MaxUp /\ t # 0
        /\ MaxDown \in Nat \ {0, 1}
    BY <1>2, <1>4, LinkFields, TicketFacts, ClientAssumption DEF SameEnds, Fits
  <2>2. PICK l : l = [sk[i] EXCEPT !.st = "open", !.down = d]
    OBVIOUS
  <2>3. /\ l \in Links /\ l.st = "open" /\ l.down = d /\ l.ticket = t /\ l.up = sk[i].up
    BY ONLY <2>1, <2>2, <1>5 DEF Links
  <2>4. sock' = WithLink(sk, i, l)
    BY <1>1, <1>4, <1>5, <2>1, <2>2 DEF WithLink
  <2>5. Len(d) <= MaxDown
    <3>1. Len(d) \in Nat
      BY <1>5, LenProperties
    <3>. QED
      BY <1>5, <2>1, <3>1
  <2>6. /\ Fits(sk, Len(issued)) /\ i \in Sockets /\ l \in Links
        /\ l.ticket <= Len(issued) /\ (l.st # "none" => l.ticket # 0)
        /\ Len(l.up) <= MaxUp /\ Len(l.down) <= MaxDown
    BY <1>4, <2>1, <2>3, <2>5
  <2>7. /\ Fits(sock', Len(issued)) /\ sock'[i] = l
        /\ \A j \in Sockets \ {i} : sock'[j] = sk[j]
    BY ONLY <2>4, <2>6, LinkReplaced
  <2>. QED
    BY <2>3, <2>7
<1>7. ASSUME NEW j \in Sockets, j # i
      PROVE  /\ sock'[j].st = sock[j].st /\ sock'[j].ticket = sock[j].ticket
             /\ sock'[j].down = sk[j].down
             /\ Open(j)' = Open(j) /\ GameOf(j)' = GameOf(j)
  BY <1>1, <1>4, <1>6, <1>7 DEF SameEnds, Open, GameOf
<1>8. ~Open(i) /\ Open(i)' /\ GameOf(i)' = g
  BY <1>1, <1>6 DEF Open, GameOf
<1> HIDE DEF t, g
<1>9. TypeOK'
  <2>1. TabTypeOK'
    BY <1>1, ServerSame DEF TabTypeOK, tabVars
  <2>2. LinkTypeOK'
    BY <1>1, <1>6, ServerSame DEF LinkTypeOK, LinksTyped, linkVars, Fits
  <2>3. RoomTypeOK'
    <3>1. GameRooms' = GameRooms
      BY <1>1 DEF tabVars, GameRooms, Others
    <3>. QED
      BY <1>1, <1>2, <3>1 DEF IInv, TypeOK, RoomTypeOK
  <2>. QED
    BY <2>1, <2>2, <2>3 DEF TypeOK
<1>10. TabInv'
  <2>1. Remembers'
    <3>1. \A j \in Sockets : sock'[j].st = "none" => sock[j].st = "none"
      BY <1>6, <1>7
    <3>2. url # None /\ ws \in Sockets \cup {0} /\ role' = role
      BY <1>1, ServerSame DEF Remembers, LinksTyped, tabVars, role
    <3>. QED
      BY <1>1, <3>1, <3>2, ServerSame DEF Remembers, tabVars, linkVars
  <2>2. OneEach'
    <3>1. \A j \in Sockets : j # i /\ Open(j)' => sock'[j].ticket \in spent
      BY <1>7, ServerSame DEF OneEach
    <3>2. \A j \in Sockets : j # i /\ Open(j)' => Open(j) /\ sock'[j].ticket = sock[j].ticket
      BY <1>7
    <3>3. \A j, k \in Sockets : Open(j) /\ Open(k) /\ sock[j].ticket = sock[k].ticket => j = k
      BY ServerSame DEF OneEach
    <3>4. ASSUME NEW j \in Sockets, Open(j)' PROVE sock'[j].ticket \in spent'
      <4>1. CASE j = i
        BY <1>1, <1>6, <4>1
      <4>2. CASE j # i
        <5>1. sock'[j].ticket \in spent /\ spent' = spent \cup {t}
          BY <1>1, <3>1, <3>4, <4>2
        <5>. QED
          BY ONLY <5>1
      <4>. QED
        BY <4>1, <4>2
    <3>5. ASSUME NEW j \in Sockets, NEW k \in Sockets, Open(j)', Open(k)',
                 sock'[j].ticket = sock'[k].ticket
          PROVE  j = k
      <4>1. CASE j = i \/ k = i
        BY <1>1, <1>6, <3>1, <3>5, <4>1
      <4>2. CASE j # i /\ k # i
        BY <3>2, <3>3, <3>5, <4>2
      <4>. QED
        BY <4>1, <4>2
    <3>. QED
      BY <3>4, <3>5 DEF OneEach
  <2>. QED
    BY <2>1, <2>2 DEF TabInv
<1>11. RoomInv'
  BY <1>1 DEF IInv, RoomInv, tabVars
<1>12. ASSUME NEW h, NEW u \in Seated(h)'
       PROVE  u \in Seated(h) \/ (u = t /\ h = g)
  <2>1. role' = "player" /\ \E j \in Members(h)' : u = sock'[j].ticket
    BY <1>12 DEF Seated
  <2>2. PICK j \in Sockets : Open(j)' /\ GameOf(j)' = h /\ u = sock'[j].ticket
    BY <2>1 DEF Members
  <2>3. role = "player"
    BY <1>1, <2>1 DEF tabVars, role
  <2>4. CASE j = i
    BY <1>6, <1>8, <2>2, <2>4
  <2>5. CASE j # i
    <3>1. Open(j) /\ GameOf(j) = h /\ u = sock[j].ticket
      BY <1>7, <2>2, <2>5
    <3>2. j \in Members(h)
      BY <3>1 DEF Members
    <3>3. u \in Seated(h)
      BY <2>3, <3>1, <3>2 DEF Seated
    <3>. QED
      BY ONLY <3>3
  <2>. QED
    BY <2>4, <2>5
<1>13. SeatInv'
  <2>1. seat[t] = NewSeat
    BY <1>1, <1>2 DEF IInv, SeatInv
  <2>2. ASSUME NEW h \in Games, NEW u \in Seated(h)'
        PROVE  /\ seat[u].answer # None => seat[u].answer[1] = <<h, room[h].cur>>
               /\ seat[u].score <= room[h].cur
               /\ room[h].open => seat[u].score < room[h].cur
    <3>1. CASE u \in Seated(h)
      BY <3>1, SeatedSeat DEF Asked
    <3>2. CASE u = t /\ h = g
      <4>1. seat[u].answer = None /\ seat[u].score = 0
        BY <2>1, <3>2, NewSeatTyped
      <4>2. room[h].cur \in 0 .. NQ /\ (room[h].open => room[h].cur > 0)
        BY RoomFields
      <4>. QED
        BY <4>1, <4>2, TicketFacts
    <3>. QED
      BY <1>12, <2>2, <3>1, <3>2
  <2>3. AnswersMeetTheirQuestion'
    BY <1>1, <2>2 DEF AnswersMeetTheirQuestion, Asked
  <2>4. \A u \in Tickets \ spent' : seat'[u] = NewSeat
    BY <1>1 DEF IInv, SeatInv
  <2>. QED
    BY <1>1, <2>2, <2>3, <2>4 DEF SeatInv, NewSeat
<1>14. HeardInv'
  <2>1. heard \subseteq spent /\ (heard = {} => store.question = None /\ store.answer = None)
    BY DEF IInv, HeardInv
  <2>2. heard' = heard /\ store' = store
    BY <1>1 DEF tabVars
  <2>3. ASSUME NEW j \in Sockets, Open(j)' PROVE StartsInv(j)'
    <3>1. CASE j = i
      <4>1. ~Heard(i)'
        BY <1>1, <1>6, <2>1, <2>2 DEF Heard
      <4>. QED
        BY <1>1, <1>5, <1>6, <1>8, <3>1, <4>1 DEF StartsInv, Seen
    <3>2. CASE j # i
      <4>1. /\ Open(j) /\ sock'[j].ticket = sock[j].ticket /\ GameOf(j)' = GameOf(j)
            /\ \/ sock'[j].down = sock[j].down
               \/ \E m \in Frames : sock'[j].down = sock[j].down \o <<m>> /\ ~IsStart(m)
        BY <1>4, <1>7, <2>3, <3>2
      <4>2. /\ InOrder(sock'[j].down, GameOf(j), room[GameOf(j)].cur, Seen(j)')
            /\ Heard(j)' => /\ store'.question[1] = GameOf(j)
                            /\ store'.question[2] <= room[GameOf(j)].cur
        BY <2>2, <4>1, StartsStay
      <4>. QED
        BY <1>1, <4>1, <4>2 DEF StartsInv
    <3>. QED
      BY <3>1, <3>2
  <2>. QED
    BY <1>1, <2>1, <2>2, <2>3 DEF HeardInv
<1>. QED
  BY <1>9, <1>10, <1>11, <1>13, <1>14 DEF IInv


\* The host's lobby entered from the question page connects with the ticket it has.
LEMMA LobbyAgainKeeps ==
  ASSUME IInv, role = "host", page = "question", EnterHostLobby(code, hostTicket),
         UNCHANGED <<tab, hostTicket, store, heard, roomVars>>
  PROVE  IInv'
<1>1. page' = "lobby" /\ code' = code /\ Connect(hostTicket)
  BY DEF EnterHostLobby
<1>2. /\ hostTicket \in Tickets /\ hostTicket <= Len(issued) /\ hostTicket # None /\ code # None
  BY ServerSame DEF Remembers, TabTypeOK
<1>3. Extends(issued') /\ SameQuestions(room') /\ issued' = issued /\ UNCHANGED <<spent, seat>>
  BY ServerSame DEF roomVars, Extends, SameQuestions
<1>4. TabTypeOK'
  BY <1>1, ServerSame DEF TabTypeOK, Pages
<1>5. hostTicket <= Len(issued')
  BY <1>2, <1>3
<1>. QED
  BY <1>1, <1>2, <1>3, <1>4, <1>5, ConnectStep


\* The effects of the pages keep the invariant.
LEMMA EffectsKeep ==
  ASSUME IInv, Effects
  PROVE  IInv'
<1>1. Fits(sock, Len(issued)) /\ SameDown(sock) /\ TabTypeOK
  BY SockSame, ServerSame
<1>2. heard = {} => store.answer = None
  BY DEF IInv, HeardInv
<1>3. CASE PlayerLobbyEffect \/ PlayerQuestionEffect
  <2>1. /\ role = "player" /\ page' \in {"question", "results"}
        /\ UNCHANGED <<tab, code, hostTicket, store, heard, linkVars, sock, roomVars>>
    BY <1>3 DEF PlayerLobbyEffect, PlayerQuestionEffect
  <2>2. Fits(sock', Len(issued)) /\ SameDown(sock')
    BY <1>1, <2>1 DEF SameDown, SameEnds
  <2>3. store' = store /\ store' \in Stores /\ page' \in Pages
    BY <1>1, <2>1 DEF TabTypeOK, Pages
  <2>. QED
    BY <1>2, <2>1, <2>2, <2>3, PageStep
<1>4. CASE HostQuestionEffect
  <2>1. /\ role = "host" /\ page = "question"
        /\ UNCHANGED <<tab, hostTicket, store, heard, roomVars>>
        /\ \/ EnterHostLobby(code, hostTicket)
           \/ page' = "results" /\ UNCHANGED <<code, linkVars, sock>>
    BY <1>4 DEF HostQuestionEffect
  <2>2. CASE EnterHostLobby(code, hostTicket)
    BY <2>1, <2>2, LobbyAgainKeeps
  <2>3. CASE page' = "results" /\ UNCHANGED <<code, linkVars, sock>>
    <3>1. Fits(sock', Len(issued)) /\ SameDown(sock')
      BY <1>1, <2>3 DEF SameDown, SameEnds
    <3>2. store' = store /\ store' \in Stores /\ page' \in Pages
      BY <1>1, <2>1, <2>3 DEF TabTypeOK, Pages
    <3>. QED
      BY <1>2, <2>1, <2>3, <3>1, <3>2, PageStep
  <2>. QED
    BY <2>1, <2>2, <2>3
<1>. QED
  BY <1>3, <1>4 DEF Effects

\* What the person at the tab sends keeps the invariant.
LEMMA SendsKeep ==
  ASSUME IInv, Ready \/ UsePowerup \/ StartClick \/ AdvanceClick \/ \E n \in Names : Choose(n)
  PROVE  IInv'
<1>1. TabTypeOK /\ store \in Stores /\ page \in Pages
  BY ServerSame DEF TabTypeOK
<1>2. heard = {} => store.answer = None /\ store.question = None
  BY DEF IInv, HeardInv
<1>3. CASE Ready \/ AdvanceClick
  <2>1. /\ \E m \in Ups : Send(m)
        /\ UNCHANGED <<tabVars, linkVars, roomVars>>
    <3>1. /\ [type |-> "participant.ready"] \in Ups
          /\ [type |-> IF HostScreen(store).button = "next"
                       THEN "host.next_question" ELSE "host.skip_question"] \in Ups
      BY DEF Ups
    <3>. QED
      BY <1>3, <3>1 DEF Ready, AdvanceClick
  <2>2. Fits(sock', Len(issued)) /\ SameDown(sock')
    BY <2>1, SendFits
  <2>3. UNCHANGED <<tab, page, code, hostTicket, store, heard>>
    BY <2>1 DEF tabVars
  <2>. QED
    BY <1>1, <1>2, <2>1, <2>2, <2>3, PageStep
<1>4. CASE StartClick
  <2>1. /\ role = "host" /\ page = "lobby" /\ page' = "question"
        /\ Send([type |-> "host.start_game"])
        /\ UNCHANGED <<tab, code, hostTicket, store, heard, linkVars, roomVars>>
    BY <1>4 DEF StartClick
  <2>2. [type |-> "host.start_game"] \in Ups
    BY DEF Ups
  <2>3. Fits(sock', Len(issued)) /\ SameDown(sock')
    BY <2>1, <2>2, SendFits
  <2>4. page' \in Pages /\ store' = store
    BY <2>1 DEF Pages
  <2>. QED
    BY <1>1, <1>2, <2>1, <2>3, <2>4, PageStep
<1>5. CASE UsePowerup
  <2>1. /\ store.powerups > 0 /\ store' = [store EXCEPT !.powerups = @ - 1]
        /\ Send([type |-> "powerup.use"])
        /\ UNCHANGED <<tab, page, code, hostTicket, heard, linkVars, roomVars>>
    BY <1>5 DEF UsePowerup, PlayerSide, BonusReady
  <2>2. [type |-> "powerup.use"] \in Ups
    BY DEF Ups
  <2>3. Fits(sock', Len(issued)) /\ SameDown(sock')
    BY <2>1, <2>2, SendFits
  <2>4. /\ store' \in Stores /\ store'.question = store.question
        /\ store'.answer = store.answer
    <3>1. store.powerups = 1
      BY <1>1, <2>1 DEF Stores
    <3>. QED
      BY <1>1, <2>1, <3>1 DEF Stores
  <2>. QED
    BY <1>1, <1>2, <2>1, <2>3, <2>4, PageStep
<1>6. ASSUME NEW n \in Names, Choose(n) PROVE IInv'
  <2> DEFINE o == <<store.question, n>>
             m == [type |-> "answer.submit", option |-> o]
  <2>1. /\ store.question # None /\ store' = [store EXCEPT !.answer = o]
        /\ Send(m)
        /\ UNCHANGED <<tab, page, code, hostTicket, heard, linkVars, roomVars>>
    BY <1>6 DEF Choose
  <2>2. o \in Options
    <3>1. store.question \in Questions
      BY <1>1, <2>1 DEF Stores
    <3>. QED
      BY <3>1 DEF Options, Names
  <2> HIDE DEF o
  <2>3. m \in Ups
    BY <2>2 DEF Ups
  <2>4. Fits(sock', Len(issued)) /\ SameDown(sock')
    BY <2>1, <2>3, SendFits
  <2>5. store' \in Stores /\ store'.question = store.question
    BY <1>1, <2>1, <2>2 DEF Stores
  <2>. QED
    BY <1>1, <1>2, <2>1, <2>4, <2>5, PageStep
<1>. QED
  BY <1>3, <1>4, <1>5, <1>6

\* Joining, hosting, resuming and going back keep the invariant.
LEMMA EntersKeep ==
  ASSUME IInv, Back \/ \E g \in Games : Join(g) \/ HostGame(g) \/ Resume(g)
  PROVE  IInv'
<1>1. TabTypeOK /\ store \in Stores /\ page \in Pages /\ MaxTickets \in Nat
      /\ tab.tickets \in Tickets /\ Len(issued) \in Nat
  BY ServerSame, TabFields, ClientAssumption DEF TabTypeOK
<1>2. heard = {} => store.answer = None /\ store.question = None
  BY DEF IInv, HeardInv
<1>3. Fits(sock, Len(issued)) /\ SameDown(sock)
  BY SockSame
<1>4. CASE Back
  <2>1. CASE /\ page' = "home" /\ UNCHANGED <<code, linkVars, sock>>
             /\ UNCHANGED <<tab, hostTicket, store, heard, roomVars>>
    <3>1. Fits(sock', Len(issued)) /\ SameDown(sock') /\ page' \in Pages
      BY <1>3, <2>1 DEF SameDown, SameEnds, Pages
    <3>. QED
      BY <1>1, <1>2, <2>1, <3>1, PageStep
  <2>2. CASE /\ page = "question" /\ role = "host" /\ EnterHostLobby(code, hostTicket)
             /\ UNCHANGED <<tab, hostTicket, store, heard, roomVars>>
    BY <2>2, LobbyAgainKeeps
  <2>. QED
    BY <1>4, <2>1, <2>2 DEF Back
<1>5. ASSUME NEW g \in Games, NEW t, t = Len(issued) + 1, t <= tab.tickets,
             issued' = Append(issued, g)
      PROVE  t \in Tickets /\ t = Len(issued') /\ Extends(issued') /\ hostTicket # t
  <2>1. t \in Tickets /\ t <= MaxTickets
    BY <1>1, <1>5, TicketFacts
  <2>2. issued \in Seq(Games)
    BY DEF IInv, TypeOK, RoomTypeOK
  <2>3. /\ issued' \in Seq(Games) /\ Len(issued') = Len(issued) + 1
        /\ \A k \in 1 .. Len(issued) : issued'[k] = issued[k]
    BY <1>5, <2>2, AppendProperties
  <2>4. hostTicket # t
    <3>1. hostTicket # None => hostTicket <= Len(issued) /\ hostTicket \in Nat
      BY ServerSame, TicketFacts DEF Remembers, TabTypeOK
    <3>. QED
      BY <1>1, <1>5, <2>1, <3>1, TicketFacts
  <2>. QED
    BY <1>1, <1>5, <2>1, <2>3, <2>4 DEF Extends
<1>6. ASSUME NEW g \in Games, Join(g) PROVE IInv'
  <2> DEFINE t == Len(issued) + 1
  <2>1. /\ role = "player" /\ t <= tab.tickets /\ issued' = Append(issued, g)
        /\ store' = [store EXCEPT !.me = t] /\ Connect(t)
        /\ page' = "lobby" /\ code' = g
        /\ UNCHANGED <<tab, hostTicket, heard, spent, room, seat>>
    BY <1>6 DEF Join
  <2>2. t \in Tickets /\ t = Len(issued') /\ Extends(issued')
    BY <1>5, <2>1
  <2> HIDE DEF t
  <2>3. /\ store' \in Stores /\ store'.question = store.question
        /\ store'.answer = store.answer
    BY <1>1, <2>1, <2>2, TicketFacts DEF Stores
  <2>4. SameQuestions(room')
    BY <2>1, ServerSame DEF SameQuestions
  <2>5. TabTypeOK'
    BY <1>1, <2>1, <2>3 DEF TabTypeOK, Pages
  <2>6. hostTicket' # None => hostTicket' <= Len(issued')
    <3>1. hostTicket # None => hostTicket <= Len(issued) /\ hostTicket \in Nat
      BY ServerSame, TicketFacts DEF Remembers, TabTypeOK
    <3>. QED
      BY <1>1, <2>1, <2>2, <3>1 DEF t
  <2>7. t <= Len(issued')
    BY <2>2, TicketFacts
  <2>. QED
    BY <2>1, <2>2, <2>3, <2>4, <2>5, <2>6, <2>7, ConnectStep
<1>7. ASSUME NEW g \in Games, HostGame(g) PROVE IInv'
  <2> DEFINE t == Len(issued) + 1
  <2>1. /\ room[g].status = "none" /\ t <= tab.tickets /\ issued' = Append(issued, g)
        /\ room' = [room EXCEPT ![g].status = "lobby"]
        /\ hostTicket' = t /\ page' = "lobby" /\ code' = g /\ Connect(t)
        /\ UNCHANGED <<tab, store, heard, spent, seat>>
    BY <1>7 DEF HostGame, EnterHostLobby
  <2>2. t \in Tickets /\ t = Len(issued') /\ Extends(issued')
    BY <1>5, <2>1
  <2> HIDE DEF t
  <2>3. SameQuestions(room')
    <3>1. room \in [Games -> GameRooms] /\ g \in Games
      BY ServerSame DEF SameQuestions
    <3>2. room' = [room EXCEPT ![g].status = "lobby"]
      BY <2>1
    <3>3. PICK r : r = [room[g] EXCEPT !.status = "lobby"]
      OBVIOUS
    <3>4. r \in GameRooms /\ r.cur = room[g].cur /\ r.open = room[g].open
      BY ONLY <3>1, <3>3 DEF GameRooms, Statuses
    <3>5. /\ \A h \in Games : room'[h] = IF h = g THEN r ELSE room[h]
          /\ room[g].status = "none" /\ r.status = "lobby"
      BY ONLY <2>1, <3>1, <3>2, <3>3 DEF GameRooms
    <3>6. room' \in [Games -> GameRooms]
      BY ONLY <3>1, <3>2, <3>3, <3>4
    <3>. QED
      BY ONLY <3>4, <3>5, <3>6 DEF SameQuestions
  <2>4. TabTypeOK'
    BY <1>1, <2>1, <2>2 DEF TabTypeOK, Pages
  <2>5. t <= Len(issued') /\ t # None /\ g # None
    BY <2>2, TicketFacts
  <2>. QED
    BY <2>1, <2>2, <2>3, <2>4, <2>5, ConnectStep
<1>8. ASSUME NEW g \in Games, Resume(g) PROVE IInv'
  <2> DEFINE t == Len(issued) + 1
  <2>1. /\ role = "host" /\ t <= tab.tickets /\ issued' = Append(issued, g) /\ hostTicket' = t
        /\ code' = g /\ UNCHANGED <<tab, store, heard, spent, room, seat>>
        /\ \/ page' = "lobby" /\ Connect(t)
           \/ page' = "question" /\ UNCHANGED <<linkVars, sock>>
    BY <1>8 DEF Resume, EnterHostLobby
  <2>2. t \in Tickets /\ t = Len(issued') /\ Extends(issued')
    BY <1>5, <2>1
  <2> HIDE DEF t
  <2>3. SameQuestions(room')
    BY <2>1, ServerSame DEF SameQuestions
  <2>4. TabTypeOK'
    BY <1>1, <2>1, <2>2 DEF TabTypeOK, Pages
  <2>5. t <= Len(issued') /\ t # None /\ g # None
    BY <2>2, TicketFacts
  <2>6. CASE page' = "lobby" /\ Connect(t)
    BY <2>1, <2>2, <2>3, <2>4, <2>5, <2>6, ConnectStep
  <2>7. CASE page' = "question" /\ UNCHANGED <<linkVars, sock>>
    <3>1. Len(issued) <= Len(issued') /\ Len(issued') \in Nat
      BY <2>2, LenProperties DEF Extends
    <3>2. Fits(sock', Len(issued')) /\ LinksTyped'
      BY <2>7, <3>1, ServerSame, FitsMore DEF IInv, LinksTyped, linkVars
    <3>3. Remembers'
      <4>1. url # None => url <= Len(issued) /\ url \in Nat
        BY ServerSame, TicketFacts DEF Remembers, LinksTyped
      <4>2. url # None => url <= Len(issued')
        BY <1>1, <3>1, <4>1
      <4>. QED
        BY <2>1, <2>5, <2>7, <4>2, ServerSame DEF Remembers, linkVars, role
    <3>4. \A i \in Sockets : Open(i)' => /\ Open(i) /\ sock'[i].ticket = sock[i].ticket
                                         /\ sock'[i].down = sock[i].down
      BY <2>7 DEF Open
    <3>. QED
      BY <1>2, <2>1, <2>2, <2>3, <2>4, <3>2, <3>3, <3>4, QuietStep
  <2>. QED
    BY <2>1, <2>6, <2>7
<1>. QED
  BY <1>4, <1>6, <1>7, <1>8

-----------------------------------------------------------------------------
(***************************************************************************)
(* The invariant holds.                                                    *)
(***************************************************************************)

\* At first there is no ticket, no socket and no question.
LEMMA InitInv ==
  ASSUME Init
  PROVE  IInv
<1>1. /\ tab \in Setups /\ role \in {"player", "host"} /\ tab.questions \in 1 .. NQ
      /\ Others \subseteq People
  BY TabFields DEF Init
<1>2. /\ MaxTickets \in Nat /\ MaxRetries \in Nat /\ MaxUp \in Nat /\ MaxDown \in Nat
      /\ NQ \in Nat \ {0}
  BY ClientAssumption, TicketFacts
<1>3. /\ sock = [i \in Sockets |-> NoLink] /\ NoLink \in Links
      /\ NoLink.st = "none" /\ NoLink.ticket = 0 /\ NoLink.up = <<>> /\ NoLink.down = <<>>
  BY <1>2 DEF Init, NoLink, Links
<1>4. issued \in Seq(Games) /\ Len(issued) = 0
  BY DEF Init
<1>5. \A g \in Games : /\ room[g] \in GameRooms /\ room[g].cur = 0 /\ ~room[g].open
  BY <1>1, <1>2 DEF Init, GameRooms, Statuses
<1>6. room \in [Games -> GameRooms] /\ seat = [t \in Tickets |-> NewSeat]
  BY <1>5 DEF Init
<1>7. TypeOK
  <2>1. TabTypeOK
    BY <1>1, FreshStore DEF Init, TabTypeOK, Pages
  <2>2. LinkTypeOK
    <3>1. \A i \in Sockets : sock[i] = NoLink
      BY <1>3
    <3>2. Len(<<>>) = 0
      OBVIOUS
    <3>3. \A i \in Sockets : /\ sock[i].ticket <= Len(issued)
                             /\ sock[i].st # "none" => sock[i].ticket # 0
                             /\ Len(sock[i].up) <= MaxUp /\ Len(sock[i].down) <= MaxDown
      BY <1>2, <1>3, <1>4, <3>1, <3>2
    <3>4. /\ ws \in Sockets \cup {0} /\ url \in Tickets \cup {None}
          /\ closed \in BOOLEAN /\ listening \in BOOLEAN /\ retries \in 0 .. MaxRetries
      <4>1. ws = 0 /\ url = None /\ closed = FALSE /\ listening = FALSE /\ retries = 0
        BY DEF Init
      <4>2. ws \in Sockets \cup {0} /\ url \in Tickets \cup {None} /\ retries \in 0 .. MaxRetries
        BY <1>2, <4>1
      <4>. QED
        BY <4>1, <4>2
    <3>. QED
      BY <1>3, <3>3, <3>4 DEF LinkTypeOK
  <2>3. RoomTypeOK
    <3>1. seat \in [Tickets -> Seats]
      BY <1>6, NewSeatTyped
    <3>2. spent = {}
      BY DEF Init
    <3>. QED
      BY <1>2, <1>4, <1>6, <3>1, <3>2 DEF RoomTypeOK
  <2>. QED
    BY <2>1, <2>2, <2>3 DEF TypeOK
<1>8. \A i \in Sockets : ~Open(i) /\ sock[i].st = "none"
  BY <1>3 DEF Open
<1>9. TabInv
  <2>1. Remembers
    BY <1>8 DEF Init, Remembers
  <2>. QED
    BY <1>8, <2>1 DEF TabInv, OneEach
<1>10. RoomInv
  BY <1>1, <1>2, <1>5 DEF RoomInv
<1>11. SeatInv
  <2>1. \A g : Seated(g) = {}
    BY <1>8 DEF Seated, Members
  <2>2. \A t \in Tickets : seat[t] = NewSeat
    BY <1>6
  <2>. QED
    BY <2>1, <2>2 DEF SeatInv, AnswersMeetTheirQuestion
<1>12. HeardInv
  <2>1. heard = {} /\ store.question = None /\ store.answer = None
    BY DEF Init, Fresh
  <2>. QED
    BY <1>8, <2>1 DEF HeardInv
<1>. QED
  BY <1>7, <1>9, <1>10, <1>11, <1>12 DEF IInv

\* Every step keeps the invariant.
LEMMA NextInv ==
  ASSUME IInv, [Next]_vars
  PROVE  IInv'
<1>1. CASE Effects
  BY <1>1, EffectsKeep
<1>2. CASE User
  <2>1. CASE Ready \/ UsePowerup \/ StartClick \/ AdvanceClick \/ \E n \in Names : Choose(n)
    BY <2>1, SendsKeep
  <2>2. CASE Back \/ \E g \in Games : Join(g) \/ HostGame(g) \/ Resume(g)
    BY <2>2, EntersKeep
  <2>3. CASE ExitResults
    BY <2>3, ExitResultsKeeps
  <2>4. CASE Reload
    BY <2>4, ReloadKeeps
  <2>. QED
    BY <1>2, <2>1, <2>2, <2>3, <2>4 DEF User
<1>3. CASE Server
  <2>1. ASSUME NEW g \in Games,
               \/ RemoteHost(g) \/ QuestionCloses(g)
               \/ \E p \in Others : OtherJoins(g, p) \/ OtherLeaves(g, p)
        PROVE  IInv'
    BY <2>1, OthersKeep
  <2>2. ASSUME NEW i \in Sockets, Accept(i) PROVE IInv'
    BY <2>2, AcceptKeeps
  <2>3. ASSUME NEW i \in Sockets, Receive(i) PROVE IInv'
    BY <2>3, ReceiveKeeps
  <2>. QED
    BY <1>3, <2>1, <2>2, <2>3 DEF Server
<1>4. CASE Network
  <2>1. CASE Retry
    BY <2>1, RetryKeeps
  <2>2. ASSUME NEW i \in Sockets, LinkEnds(i) PROVE IInv'
    BY <2>2, LinkEndsKeeps
  <2>3. ASSUME NEW i \in Sockets, Drop(i) PROVE IInv'
    BY <2>3, DropKeeps
  <2>. QED
    BY <1>4, <2>1, <2>2, <2>3 DEF Network
<1>5. CASE \E i \in Sockets : Deliver(i)
  BY <1>5, DeliverKeeps
<1>6. CASE UNCHANGED vars
  <2>1. UNCHANGED <<tab, page, code, hostTicket, linkVars, roomVars, heard, store, sock>>
    BY <1>6 DEF vars, tabVars
  <2>2. Fits(sock', Len(issued)) /\ SameDown(sock')
    BY <2>1, SockSame DEF SameDown, SameEnds
  <2>3. page \in Pages /\ store \in Stores /\ (heard = {} => store.answer = None)
    BY ServerSame DEF TabTypeOK, IInv, HeardInv
  <2>. QED
    BY <2>1, <2>2, <2>3, PageStep
<1>. QED
  BY <1>1, <1>2, <1>3, <1>4, <1>5, <1>6 DEF Next

\* The invariant the theorems below rest on, in every reachable state.
THEOREM Invariance == Spec => []IInv
<1>1. Init => IInv
  BY InitInv
<1>2. IInv /\ [Next]_vars => IInv'
  BY NextInv
<1>. QED
  BY <1>1, <1>2, PTL DEF Spec

\* Every variable of the tab, its sockets and its rooms has its type in every reachable
\* state, and the queues keep to their bounds.
THEOREM TypeCorrect == Spec => []TypeOK
<1>1. IInv => TypeOK
  BY DEF IInv
<1>. QED
  BY <1>1, Invariance, PTL

\* An answer a room holds is to the question the room is asking, whatever order the
\* frames of the tab and the steps of the room come in (room.go: handleAnswerSubmit takes
\* options of the current question only, and every start clears the answers).
THEOREM AnswersStayCurrent == Spec => []AnswersMeetTheirQuestion
<1>1. IInv => AnswersMeetTheirQuestion
  BY DEF IInv, SeatInv
<1>. QED
  BY <1>1, Invariance, PTL

\* A question comes to the tab in order and once per connection, and the one on its screen
\* is of the game it is connected to (room.go sends to a client in the order of the room's
\* steps; store.ts keeps the last one).
QuestionsInOrder ==
  \A i \in Sockets : Open(i) => StartsInv(i)

\* ... in every reachable state.
THEOREM QuestionsComeInOrder == Spec => []QuestionsInOrder
<1>1. IInv => QuestionsInOrder
  BY DEF IInv, HeardInv, QuestionsInOrder
<1>. QED
  BY <1>1, Invariance, PTL

-----------------------------------------------------------------------------
(***************************************************************************)
(* The choice of a player stands.                                          *)
(***************************************************************************)

\* Only a frame can change a choice that was made, when the store is not cleared.
LEMMA ChoiceChanges ==
  ASSUME IInv, [Next]_vars, store.answer # None, store'.room # None
  PROVE  \/ store'.answer = store.answer
         \/ \E i \in Sockets : /\ Open(i) /\ sock[i].down # <<>>
                               /\ store' = Handle(store, Head(sock[i].down))
                               /\ heard' = heard \cup {sock[i].ticket}
<1>1. CASE Effects \/ Server \/ Network \/ UNCHANGED vars
  <2>1. store' = store
    BY <1>1 DEF Effects, PlayerLobbyEffect, PlayerQuestionEffect, HostQuestionEffect, Server,
       RemoteHost, QuestionCloses, OtherJoins, OtherLeaves, Accept, Receive, Network, Retry,
       LinkEnds, Drop, tabVars, vars
  <2>. QED
    BY <2>1
<1>2. CASE Ready \/ AdvanceClick \/ StartClick \/ Back \/ \E g \in Games : HostGame(g) \/ Resume(g)
  <2>1. store' = store
    BY <1>2 DEF Ready, AdvanceClick, StartClick, Back, HostGame, Resume, tabVars
  <2>. QED
    BY <2>1
<1>3. store \in Stores
  BY ServerSame DEF TabTypeOK
<1>4. CASE UsePowerup
  <2>1. store' = [store EXCEPT !.powerups = @ - 1]
    BY <1>4 DEF UsePowerup
  <2>. QED
    BY <1>3, <2>1 DEF Stores
<1>5. CASE \E n \in Names : Choose(n)
  BY <1>5 DEF Choose, Choosable
<1>6. CASE \E g \in Games : Join(g)
  <2>1. store' = [store EXCEPT !.me = Len(issued) + 1]
    BY <1>6 DEF Join
  <2>. QED
    BY <1>3, <2>1 DEF Stores
<1>7. CASE ExitResults \/ Reload
  BY <1>7 DEF ExitResults, Reload, Fresh
<1>8. CASE \E i \in Sockets : Deliver(i)
  BY <1>8 DEF Deliver
<1>. QED
  BY <1>1, <1>2, <1>4, <1>5, <1>6, <1>7, <1>8 DEF Next, User

\* A start that arrives on the only connection heard is of a later question.
LEMMA StartIsLater ==
  ASSUME IInv, NEW i \in Sockets, Open(i), sock[i].down # <<>>, Heard(i),
         IsStart(Head(sock[i].down))
  PROVE  Head(sock[i].down).question # store.question
<1> DEFINE m == Head(sock[i].down)
           g == GameOf(i)
           cur == room[g].cur
<1>1. /\ sock[i].down \in Seq(Frames) /\ Seen(i) \in Nat
      /\ InOrder(sock[i].down, g, cur, Seen(i))
  BY SeenFacts DEF IInv, HeardInv, StartsInv
<1>2. Seen(i) < m.question[2]
  <2> HIDE DEF g, cur
  <2>. QED
    BY <1>1, TailInOrder
<1>3. Seen(i) = store.question[2]
  BY DEF Seen
<1> HIDE DEF m
<1>4. m.question # store.question
  BY <1>1, <1>2, <1>3
<1>. QED
  BY <1>4 DEF m

\* While a question stays on the player's screen, the choice made for it stays: no frame
\* and no click takes it back or changes it (store.ts: setMyAnswer, and the question.start
\* case of handle).
THEOREM ChoicesStand == Spec => ChoiceStands
<1> DEFINE A == /\ store.answer # None /\ store'.question = store.question
                /\ store'.room # None /\ Cardinality(heard') <= 1
                => store'.answer = store.answer
<1>1. IInv /\ [Next]_vars => A
  <2> SUFFICES ASSUME IInv, [Next]_vars, store.answer # None,
                      store'.question = store.question, store'.room # None,
                      Cardinality(heard') <= 1
               PROVE  store'.answer = store.answer
    OBVIOUS
  <2>1. CASE \E i \in Sockets : /\ Open(i) /\ sock[i].down # <<>>
                                /\ store' = Handle(store, Head(sock[i].down))
                                /\ heard' = heard \cup {sock[i].ticket}
    <3>1. PICK i \in Sockets : /\ Open(i) /\ sock[i].down # <<>>
                               /\ store' = Handle(store, Head(sock[i].down))
                               /\ heard' = heard \cup {sock[i].ticket}
      BY <2>1
    <3>2. store \in Stores /\ Head(sock[i].down) \in Frames
      BY <3>1, ServerSame, SeenFacts, HeadTailProperties DEF TabTypeOK
    <3>3. CASE ~IsStart(Head(sock[i].down))
      BY <3>1, <3>2, <3>3, HandleQuestion
    <3>4. CASE IsStart(Head(sock[i].down))
      <4>1. Head(sock[i].down).question = store.question
        BY <3>1, <3>2, <3>4, HandleQuestion
      <4>2. heard # {} /\ heard \subseteq Tickets
        BY ServerSame DEF IInv, HeardInv, TabTypeOK
      <4>3. heard = {sock[i].ticket}
        <5>1. heard' \subseteq Tickets
          BY <3>1, <4>2, OpenFacts DEF IInv
        <5>2. IsFiniteSet(heard') /\ Cardinality(heard') \in Nat
          <6>1. IsFiniteSet(Tickets)
            BY ClientAssumption, FS_Interval DEF Tickets
          <6>. QED
            BY <5>1, <6>1, FS_Subset, FS_CardinalityType
        <5>3. heard' # {}
          BY <3>1
        <5>4. Cardinality(heard') = 1
          BY <5>2, <5>3, FS_EmptySet
        <5>5. \E x : heard' = {x}
          BY <5>2, <5>4, FS_Singleton
        <5>. QED
          BY <3>1, <4>2, <5>5
      <4>4. store.question # None
        <5>1. Head(sock[i].down).question \in Questions
          BY <3>2, <3>4, FieldsOf DEF IsStart
        <5>. QED
          BY <4>1, <5>1, StoreAssumption
      <4>5. Heard(i)
        BY <4>3, <4>4 DEF Heard
      <4>. QED
        BY <3>1, <3>4, <4>1, <4>5, StartIsLater
    <3>. QED
      BY <3>3, <3>4
  <2>. QED
    BY <2>1, ChoiceChanges
<1>. QED
  BY <1>1, Invariance, PTL DEF Spec, ChoiceStands

-----------------------------------------------------------------------------
(***************************************************************************)
(* What a store becomes when everything in flight has arrived.             *)
(***************************************************************************)

\* What the starts in a queue do to the question and the choice on the screen: the last
\* one stays, and it takes the choice back.
Ties(s, down, e) ==
  /\ (\A k \in DOMAIN down : ~IsStart(down[k])) => e.answer = s.answer /\ e.question = s.question
  /\ \A k \in DOMAIN down : IsStart(down[k]) => e.answer = None
  /\ \A k \in DOMAIN down :
       IsStart(down[k]) /\ (\A l \in DOMAIN down : l > k => ~IsStart(down[l]))
         => e.question = down[k].question

\* h is the history of a store from s on while it handles the frames of down, in order.
Handling(h, s, down) ==
  /\ h \in [0 .. Len(down) -> Stores] /\ h[0] = s
  /\ \A k \in 1 .. Len(down) : h[k] = Handle(h[k - 1], down[k])

\* The frames of down lead from store s to store e.
Leads(s, down, e) == (\E h : Handling(h, s, down) /\ h[Len(down)] = e) /\ Ties(s, down, e)

\* No frame leads nowhere else.
LEMMA LeadsNowhere ==
  ASSUME NEW s \in Stores
  PROVE  Leads(s, <<>>, s) /\ \A e : Leads(s, <<>>, e) => e = s
<1> DEFINE h == [k \in 0 .. 0 |-> s]
<1>1. Len(<<>>) = 0 /\ DOMAIN <<>> = {}
  OBVIOUS
<1>2. Handling(h, s, <<>>) /\ h[Len(<<>>)] = s
  BY <1>1 DEF Handling
<1>3. Ties(s, <<>>, s)
  BY <1>1 DEF Ties
<1>4. ASSUME NEW e, Leads(s, <<>>, e) PROVE e = s
  BY <1>1, <1>4 DEF Leads, Handling
<1>. QED
  BY <1>2, <1>3, <1>4 DEF Leads

\* One frame leads to what the handler makes of it.
LEMMA LeadsOne ==
  ASSUME NEW s \in Stores, NEW m \in Frames
  PROVE  Leads(s, <<m>>, Handle(s, m)) /\ Handle(s, m) \in Stores
<1> DEFINE f == Handle(s, m)
           d == <<m>>
           h == [k \in 0 .. 1 |-> IF k = 0 THEN s ELSE f]
<1>1. f \in Stores
  BY HandleKeepsStores
<1>2. Len(d) = 1 /\ DOMAIN d = 1 .. 1 /\ d[1] = m
  OBVIOUS
<1>3. Handling(h, s, d) /\ h[Len(d)] = f
  <2> HIDE DEF d
  <2>1. h \in [0 .. Len(d) -> Stores] /\ h[0] = s /\ h[1] = f
    BY <1>1, <1>2
  <2>2. \A k \in 1 .. Len(d) : h[k] = Handle(h[k - 1], d[k])
    <3>1. \A k \in 1 .. Len(d) : k = 1 /\ k - 1 = 0
      BY <1>2
    <3>. QED
      BY <1>2, <2>1, <3>1
  <2>. QED
    BY <1>2, <2>1, <2>2 DEF Handling
<1>4. Ties(s, d, f)
  <2>1. /\ IsStart(m) => f.question = m.question /\ f.answer = None
        /\ ~IsStart(m) => f.question = s.question /\ f.answer = s.answer
    BY HandleQuestion
  <2> HIDE DEF d, f
  <2>. QED
    BY <1>2, <2>1 DEF Ties
<1>. QED
  BY <1>1, <1>3, <1>4 DEF Leads

\* Frames lead on from where others lead.
LEMMA LeadsOn ==
  ASSUME NEW s \in Stores, NEW e \in Stores, NEW f \in Stores,
         NEW d \in Seq(Frames), NEW fs \in Seq(Frames), Leads(s, d, e), Leads(e, fs, f)
  PROVE  Leads(s, d \o fs, f)
<1> DEFINE c == d \o fs
           m == Len(d)
           n == Len(fs)
<1>1. /\ m \in Nat /\ n \in Nat /\ Len(c) = m + n
      /\ DOMAIN d = 1 .. m /\ DOMAIN fs = 1 .. n /\ DOMAIN c = 1 .. m + n
      /\ \A k \in 1 .. m : c[k] = d[k]
      /\ \A k \in m + 1 .. m + n : c[k] = fs[k - m]
  BY ConcatProperties, LenProperties
<1>2. PICK h : Handling(h, s, d) /\ h[m] = e
  BY DEF Leads
<1>3. PICK l : Handling(l, e, fs) /\ l[n] = f
  BY DEF Leads
<1> DEFINE j == [k \in 0 .. m + n |-> IF k <= m THEN h[k] ELSE l[k - m]]
<1> HIDE DEF c, m, n
<1>4. Handling(j, s, c) /\ j[Len(c)] = f
  <2>1. /\ h \in [0 .. m -> Stores] /\ h[0] = s
        /\ \A k \in 1 .. m : h[k] = Handle(h[k - 1], d[k])
        /\ l \in [0 .. n -> Stores] /\ l[0] = e
        /\ \A k \in 1 .. n : l[k] = Handle(l[k - 1], fs[k])
    BY <1>2, <1>3 DEF Handling, m, n
  <2>2. j \in [0 .. m + n -> Stores]
    <3>1. \A k \in 0 .. m + n : k <= m \/ k - m \in 0 .. n
      BY <1>1
    <3>2. \A k \in 0 .. m + n : k <= m => k \in 0 .. m
      BY <1>1
    <3>. QED
      BY <2>1, <3>1, <3>2
  <2>3. j[0] = s
    BY <1>1, <2>1
  <2>4. j[m + n] = f
    <3>1. CASE n = 0
      <4>1. m + n = m /\ f = e
        BY <1>1, <1>3, <2>1, <3>1
      <4>2. j[m] = h[m]
        BY <1>1, <3>1
      <4>. QED
        BY <1>2, <4>1, <4>2 DEF m
    <3>2. CASE n # 0
      <4>1. m + n \in 0 .. m + n /\ ~(m + n <= m) /\ (m + n) - m = n
        BY <1>1, <3>2
      <4>. QED
        BY <1>3, <4>1
    <3>. QED
      BY <3>1, <3>2
  <2>5. ASSUME NEW k \in 1 .. m + n PROVE j[k] = Handle(j[k - 1], c[k])
    <3>1. CASE k <= m
      <4>1. /\ k \in 1 .. m /\ k - 1 \in 0 .. m + n /\ k - 1 <= m /\ k \in 0 .. m + n
        BY <1>1, <3>1
      <4>2. j[k] = h[k] /\ j[k - 1] = h[k - 1] /\ c[k] = d[k]
        BY <1>1, <3>1, <4>1
      <4>. QED
        BY <2>1, <4>1, <4>2
    <3>2. CASE ~(k <= m)
      <4>1. /\ k \in m + 1 .. m + n /\ k - m \in 1 .. n /\ k \in 0 .. m + n
            /\ k - 1 \in 0 .. m + n /\ (k - m) - 1 = (k - 1) - m
        BY <1>1, <3>2
      <4>2. j[k] = l[k - m] /\ c[k] = fs[k - m]
        BY <1>1, <3>2, <4>1
      <4>3. j[k - 1] = l[(k - m) - 1]
        <5>1. CASE k - 1 = m
          <6>1. j[k - 1] = h[m] /\ (k - m) - 1 = 0
            BY <1>1, <4>1, <5>1
          <6>. QED
            BY <1>2, <2>1, <6>1 DEF m
        <5>2. CASE k - 1 # m
          <6>1. ~(k - 1 <= m)
            BY <1>1, <3>2, <4>1, <5>2
          <6>. QED
            BY <4>1, <6>1
        <5>. QED
          BY <5>1, <5>2
      <4>. QED
        BY <2>1, <4>1, <4>2, <4>3
    <3>. QED
      BY <3>1, <3>2
  <2> HIDE DEF j
  <2>. QED
    BY <1>1, <2>2, <2>3, <2>4, <2>5 DEF Handling
<1>5. Ties(s, c, f)
  <2>1. Ties(s, d, e) /\ Ties(e, fs, f)
    BY DEF Leads
  <2>2. \A k \in 1 .. m : k \in 1 .. m + n /\ k \in DOMAIN d
    BY <1>1
  <2>3. \A k \in 1 .. n : k + m \in 1 .. m + n /\ c[k + m] = fs[k]
    BY <1>1
  <2>4. (\A k \in DOMAIN c : ~IsStart(c[k])) => f.answer = s.answer /\ f.question = s.question
    <3> SUFFICES ASSUME \A k \in DOMAIN c : ~IsStart(c[k])
                 PROVE  f.answer = s.answer /\ f.question = s.question
      OBVIOUS
    <3>1. \A k \in DOMAIN d : ~IsStart(d[k])
      BY <1>1, <2>2
    <3>2. \A k \in DOMAIN fs : ~IsStart(fs[k])
      BY <1>1, <2>3
    <3>. QED
      BY <2>1, <3>1, <3>2 DEF Ties
  <2>5. ASSUME NEW k \in DOMAIN c, IsStart(c[k])
        PROVE  /\ f.answer = None
               /\ (\A i \in DOMAIN c : i > k => ~IsStart(c[i])) => f.question = c[k].question
    <3>1. CASE k \in m + 1 .. m + n
      <4>1. k - m \in DOMAIN fs /\ c[k] = fs[k - m]
        BY <1>1, <3>1
      <4>2. ASSUME \A i \in DOMAIN c : i > k => ~IsStart(c[i])
            PROVE  \A i \in DOMAIN fs : i > k - m => ~IsStart(fs[i])
        <5>1. \A i \in 1 .. n : i > k - m => i + m > k
          BY <1>1, <3>1
        <5>. QED
          BY <1>1, <2>3, <4>2, <5>1
      <4>. QED
        BY <2>1, <2>5, <4>1, <4>2 DEF Ties
    <3>2. CASE k \in 1 .. m
      <4>1. k \in DOMAIN d /\ c[k] = d[k] /\ e.answer = None
        BY <1>1, <2>1, <2>5, <3>2 DEF Ties
      <4>2. CASE \E i \in DOMAIN fs : IsStart(fs[i])
        <5>1. f.answer = None
          BY <2>1, <4>2 DEF Ties
        <5>2. \A i \in 1 .. n : i + m > k
          BY <1>1, <3>2
        <5>3. ~ \A i \in DOMAIN c : i > k => ~IsStart(c[i])
          BY <1>1, <2>3, <4>2, <5>2
        <5>. QED
          BY <5>1, <5>3
      <4>3. CASE \A i \in DOMAIN fs : ~IsStart(fs[i])
        <5>1. f.answer = e.answer /\ f.question = e.question
          BY <2>1, <4>3 DEF Ties
        <5>2. ASSUME \A i \in DOMAIN c : i > k => ~IsStart(c[i])
              PROVE  e.question = c[k].question
          <6>1. \A i \in DOMAIN d : i > k => ~IsStart(d[i])
            BY <1>1, <2>2, <5>2
          <6>. QED
            BY <2>1, <2>5, <4>1, <6>1 DEF Ties
        <5>. QED
          BY <4>1, <5>1, <5>2
      <4>. QED
        BY <4>2, <4>3
    <3>. QED
      BY <1>1, <3>1, <3>2
  <2>. QED
    BY <2>4, <2>5 DEF Ties
<1>. QED
  BY <1>4, <1>5 DEF Leads, c

\* What is in flight leads from the store that handled the first frame to the same end.
LEMMA LeadsRest ==
  ASSUME NEW s \in Stores, NEW e, NEW d \in Seq(Frames), d # <<>>, Leads(s, d, e)
  PROVE  Leads(Handle(s, Head(d)), Tail(d), e)
<1> DEFINE t == Tail(d)
           n == Len(d)
           s1 == Handle(s, Head(d))
<1>1. /\ n \in Nat \ {0} /\ DOMAIN d = 1 .. n /\ DOMAIN t = 1 .. n - 1 /\ Len(t) = n - 1
      /\ \A k \in 1 .. n - 1 : t[k] = d[k + 1]
      /\ Head(d) = d[1] /\ Head(d) \in Frames
  BY HeadTailProperties, EmptySeq, LenProperties
<1>2. PICK h : Handling(h, s, d) /\ h[n] = e
  BY DEF Leads
<1> DEFINE j == [k \in 0 .. n - 1 |-> h[k + 1]]
<1> HIDE DEF t, n
<1>3. Handling(j, s1, t) /\ j[Len(t)] = e
  <2>1. /\ h \in [0 .. n -> Stores] /\ h[0] = s
        /\ \A k \in 1 .. n : h[k] = Handle(h[k - 1], d[k])
    BY <1>2 DEF Handling, n
  <2>2. \A k \in 0 .. n - 1 : k + 1 \in 0 .. n /\ k + 1 \in 1 .. n
    BY <1>1
  <2>3. j \in [0 .. n - 1 -> Stores]
    BY <2>1, <2>2
  <2>4. j[0] = s1
    <3>1. j[0] = h[1] /\ 1 \in 1 .. n /\ 1 - 1 = 0
      BY <1>1
    <3>. QED
      BY <1>1, <2>1, <3>1
  <2>5. ASSUME NEW k \in 1 .. n - 1 PROVE j[k] = Handle(j[k - 1], t[k])
    <3>1. /\ k + 1 \in 1 .. n /\ k \in 0 .. n - 1 /\ k - 1 \in 0 .. n - 1
          /\ (k + 1) - 1 = k /\ (k - 1) + 1 = k
      BY <1>1
    <3>2. j[k] = h[k + 1] /\ j[k - 1] = h[k] /\ t[k] = d[k + 1]
      BY <1>1, <3>1
    <3>. QED
      BY <2>1, <3>1, <3>2
  <2>6. j[n - 1] = e
    <3>1. n - 1 \in 0 .. n - 1 /\ (n - 1) + 1 = n
      BY <1>1
    <3>. QED
      BY <1>2, <3>1 DEF n
  <2> HIDE DEF j, s1
  <2>. QED
    BY <1>1, <2>3, <2>4, <2>5, <2>6 DEF Handling
<1>4. Ties(s1, t, e)
  <2>1. Ties(s, d, e)
    BY DEF Leads
  <2>2. /\ IsStart(Head(d)) => s1.question = Head(d).question /\ s1.answer = None
        /\ ~IsStart(Head(d)) => s1.question = s.question /\ s1.answer = s.answer
    BY <1>1, HandleQuestion
  <2> HIDE DEF s1
  <2>3. \A k \in 1 .. n - 1 : k + 1 \in 1 .. n /\ k + 1 > 1
    BY <1>1
  <2>4. \A l \in 1 .. n : l > 1 => l - 1 \in 1 .. n - 1 /\ t[l - 1] = d[l]
    BY <1>1
  <2>5. 1 \in 1 .. n /\ \A l \in 1 .. n : l = 1 \/ l > 1
    BY <1>1
  <2>6. ASSUME \A k \in DOMAIN t : ~IsStart(t[k])
        PROVE  e.answer = s1.answer /\ e.question = s1.question
    <3>1. \A l \in DOMAIN d : l > 1 => ~IsStart(d[l])
      BY <1>1, <2>4, <2>6
    <3>2. CASE IsStart(Head(d))
      BY <1>1, <2>1, <2>2, <2>5, <3>1, <3>2 DEF Ties
    <3>3. CASE ~IsStart(Head(d))
      <4>1. \A l \in DOMAIN d : ~IsStart(d[l])
        BY <1>1, <2>5, <3>1, <3>3
      <4>. QED
        BY <2>1, <2>2, <3>3, <4>1 DEF Ties
    <3>. QED
      BY <3>2, <3>3
  <2>7. ASSUME NEW k \in DOMAIN t, IsStart(t[k])
        PROVE  /\ e.answer = None
               /\ (\A l \in DOMAIN t : l > k => ~IsStart(t[l])) => e.question = t[k].question
    <3>1. k + 1 \in DOMAIN d /\ t[k] = d[k + 1]
      BY <1>1, <2>3
    <3>2. ASSUME \A l \in DOMAIN t : l > k => ~IsStart(t[l])
          PROVE  \A l \in DOMAIN d : l > k + 1 => ~IsStart(d[l])
      <4>1. \A l \in 1 .. n : l > k + 1 => l > 1 /\ l - 1 > k
        BY <1>1
      <4>. QED
        BY <1>1, <2>4, <3>2, <4>1
    <3>. QED
      BY <2>1, <2>7, <3>1, <3>2 DEF Ties
  <2>. QED
    BY <2>6, <2>7 DEF Ties
<1>. QED
  BY <1>3, <1>4 DEF Leads, t

\* Store s with choice o, and with n power-ups left: what a click makes of it.
WithAnswer(s, o)   == [s EXCEPT !.answer = o]
WithPowerups(s, n) == [s EXCEPT !.powerups = n]

\* A choice made before a frame comes is there after it, unless the frame is a start,
\* which takes it back.
LEMMA HandleAnswer ==
  ASSUME NEW s \in Stores, NEW m \in Frames, NEW o
  PROVE  /\ ~IsStart(m) => Handle(WithAnswer(s, o), m) = WithAnswer(Handle(s, m), o)
         /\ IsStart(m) => Handle(WithAnswer(s, o), m) = Handle(s, m)
<1>1. OnRoomState(WithAnswer(s, o), m) = WithAnswer(OnRoomState(s, m), o)
  BY DEF OnRoomState, WithAnswer, Stores
<1>2. OnJoined(WithAnswer(s, o), m) = WithAnswer(OnJoined(s, m), o)
  BY DEF OnJoined, WithAnswer, Stores
<1>3. OnLeft(WithAnswer(s, o), m) = WithAnswer(OnLeft(s, m), o)
  BY DEF OnLeft, WithAnswer, Stores
<1>4. OnStatus(WithAnswer(s, o), m) = WithAnswer(OnStatus(s, m), o)
  BY DEF OnStatus, WithAnswer, Stores
<1>5. OnPowerup(WithAnswer(s, o), m) = WithAnswer(OnPowerup(s, m), o)
  BY DEF OnPowerup, WithAnswer, Stores
<1>6. OnQuestionEnd(WithAnswer(s, o), m) = WithAnswer(OnQuestionEnd(s, m), o)
  BY DEF OnQuestionEnd, WithAnswer, Stores
<1>7. OnBoard(WithAnswer(s, o), m) = WithAnswer(OnBoard(s, m), o)
  BY DEF OnBoard, WithAnswer, Stores
<1>8. OnFinished(WithAnswer(s, o), m) = WithAnswer(OnFinished(s, m), o)
  BY DEF OnFinished, WithAnswer, Stores
<1>9. OnQuestionStart(WithAnswer(s, o), m) = OnQuestionStart(s, m)
  BY DEF OnQuestionStart, WithAnswer, Stores
<1>. QED
  BY <1>1, <1>2, <1>3, <1>4, <1>5, <1>6, <1>7, <1>8, <1>9, HandlerOf, TypeOf DEF IsStart

\* No frame looks at the power-ups that are left, or changes them.
LEMMA HandlePowerups ==
  ASSUME NEW s \in Stores, NEW m \in Frames, NEW n
  PROVE  Handle(WithPowerups(s, n), m) = WithPowerups(Handle(s, m), n)
<1>1. OnRoomState(WithPowerups(s, n), m) = WithPowerups(OnRoomState(s, m), n)
  BY DEF OnRoomState, WithPowerups, Stores
<1>2. OnJoined(WithPowerups(s, n), m) = WithPowerups(OnJoined(s, m), n)
  BY DEF OnJoined, WithPowerups, Stores
<1>3. OnLeft(WithPowerups(s, n), m) = WithPowerups(OnLeft(s, m), n)
  BY DEF OnLeft, WithPowerups, Stores
<1>4. OnStatus(WithPowerups(s, n), m) = WithPowerups(OnStatus(s, m), n)
  BY DEF OnStatus, WithPowerups, Stores
<1>5. OnPowerup(WithPowerups(s, n), m) = WithPowerups(OnPowerup(s, m), n)
  BY DEF OnPowerup, WithPowerups, Stores
<1>6. OnQuestionEnd(WithPowerups(s, n), m) = WithPowerups(OnQuestionEnd(s, m), n)
  BY DEF OnQuestionEnd, WithPowerups, Stores
<1>7. OnBoard(WithPowerups(s, n), m) = WithPowerups(OnBoard(s, m), n)
  BY DEF OnBoard, WithPowerups, Stores
<1>8. OnFinished(WithPowerups(s, n), m) = WithPowerups(OnFinished(s, m), n)
  BY DEF OnFinished, WithPowerups, Stores
<1>9. OnQuestionStart(WithPowerups(s, n), m) = WithPowerups(OnQuestionStart(s, m), n)
  BY DEF OnQuestionStart, WithPowerups, Stores
<1>. QED
  BY <1>1, <1>2, <1>3, <1>4, <1>5, <1>6, <1>7, <1>8, <1>9, HandlerOf, TypeOf

\* Types of the two, and what they leave alone.
LEMMA WithTyped ==
  ASSUME NEW s \in Stores
  PROVE  /\ \A o \in Options : /\ WithAnswer(s, o) \in Stores
                               /\ WithAnswer(s, o).answer = o /\ WithAnswer(s, o).question = s.question
         /\ \A n \in {0, 1} : /\ WithPowerups(s, n) \in Stores
                              /\ WithPowerups(s, n).answer = s.answer
                              /\ WithPowerups(s, n).question = s.question
  BY DEF WithAnswer, WithPowerups, Stores

\* The choice is on the screen at the end, unless a start is in flight.
LEMMA LeadsChosen ==
  ASSUME NEW s \in Stores, NEW e \in Stores, NEW d \in Seq(Frames), NEW o \in Options,
         Leads(s, d, e)
  PROVE  Leads(WithAnswer(s, o), d, IF \E k \in DOMAIN d : IsStart(d[k]) THEN e ELSE WithAnswer(e, o))
<1> DEFINE n == Len(d)
           Begun(k) == \E l \in 1 .. k : IsStart(d[l])
           f == IF \E k \in DOMAIN d : IsStart(d[k]) THEN e ELSE WithAnswer(e, o)
<1>1. n \in Nat /\ DOMAIN d = 1 .. n /\ \A k \in 1 .. n : d[k] \in Frames
  BY ElementOfSeq, LenProperties
<1>2. PICK h : Handling(h, s, d) /\ h[n] = e
  BY DEF Leads
<1> HIDE DEF n
<1>3. /\ h \in [0 .. n -> Stores] /\ h[0] = s
      /\ \A k \in 1 .. n : h[k] = Handle(h[k - 1], d[k])
  BY <1>2 DEF Handling, n
<1> DEFINE j == [k \in 0 .. n |-> IF Begun(k) THEN h[k] ELSE WithAnswer(h[k], o)]
<1>4. Handling(j, WithAnswer(s, o), d) /\ j[n] = f
  <2>1. j \in [0 .. n -> Stores]
    BY <1>3, WithTyped
  <2>2. j[0] = WithAnswer(s, o)
    <3>1. 0 \in 0 .. n /\ ~Begun(0)
      BY <1>1
    <3>. QED
      BY <1>3, <3>1
  <2>3. j[n] = f
    <3>1. n \in 0 .. n /\ (Begun(n) <=> \E k \in DOMAIN d : IsStart(d[k]))
      BY <1>1
    <3>. QED
      BY <1>2, <3>1 DEF n
  <2>4. ASSUME NEW k \in 1 .. n PROVE j[k] = Handle(j[k - 1], d[k])
    <3>1. /\ k \in 0 .. n /\ k - 1 \in 0 .. n /\ h[k - 1] \in Stores /\ d[k] \in Frames
          /\ h[k] = Handle(h[k - 1], d[k])
      BY <1>1, <1>3
    <3>2. Begun(k) <=> Begun(k - 1) \/ IsStart(d[k])
      <4>1. 1 .. k = (1 .. k - 1) \cup {k}
        BY <1>1
      <4>. QED
        BY <4>1
    <3>3. /\ j[k] = IF Begun(k) THEN h[k] ELSE WithAnswer(h[k], o)
          /\ j[k - 1] = IF Begun(k - 1) THEN h[k - 1] ELSE WithAnswer(h[k - 1], o)
      BY <3>1
    <3>4. /\ ~IsStart(d[k]) => Handle(WithAnswer(h[k - 1], o), d[k]) = WithAnswer(h[k], o)
          /\ IsStart(d[k]) => Handle(WithAnswer(h[k - 1], o), d[k]) = h[k]
      BY <3>1, HandleAnswer
    <3> HIDE DEF Begun, j
    <3>. QED
      BY <3>1, <3>2, <3>3, <3>4
  <2> HIDE DEF j, f
  <2>. QED
    BY <2>1, <2>2, <2>3, <2>4 DEF Handling, n
<1>5. Ties(WithAnswer(s, o), d, f)
  <2>1. Ties(s, d, e)
    BY DEF Leads
  <2>2. /\ WithAnswer(s, o).answer = o /\ WithAnswer(s, o).question = s.question
        /\ WithAnswer(e, o).answer = o /\ WithAnswer(e, o).question = e.question
    BY WithTyped
  <2>3. CASE \E k \in DOMAIN d : IsStart(d[k])
    <3>1. f = e
      BY <2>3
    <3> HIDE DEF f
    <3>. QED
      BY <2>1, <2>3, <3>1 DEF Ties
  <2>4. CASE ~ \E k \in DOMAIN d : IsStart(d[k])
    <3>1. f = WithAnswer(e, o) /\ e.question = s.question
      BY <2>1, <2>4 DEF Ties
    <3> HIDE DEF f
    <3>. QED
      BY <2>2, <2>4, <3>1 DEF Ties
  <2>. QED
    BY <2>3, <2>4
<1>6. f = IF \E k \in DOMAIN d : IsStart(d[k]) THEN e ELSE WithAnswer(e, o)
  OBVIOUS
<1> HIDE DEF f
<1>7. Leads(WithAnswer(s, o), d, f)
  BY <1>4, <1>5 DEF Leads, n
<1>. QED
  BY <1>6, <1>7

\* Power-ups that are used up stay used up.
LEMMA LeadsPowerups ==
  ASSUME NEW s \in Stores, NEW e \in Stores, NEW d \in Seq(Frames), NEW p \in {0, 1},
         Leads(s, d, e)
  PROVE  Leads(WithPowerups(s, p), d, WithPowerups(e, p))
<1> DEFINE n == Len(d)
<1>1. n \in Nat /\ DOMAIN d = 1 .. n /\ \A k \in 1 .. n : d[k] \in Frames
  BY ElementOfSeq, LenProperties
<1>2. PICK h : Handling(h, s, d) /\ h[n] = e
  BY DEF Leads
<1> HIDE DEF n
<1>3. /\ h \in [0 .. n -> Stores] /\ h[0] = s
      /\ \A k \in 1 .. n : h[k] = Handle(h[k - 1], d[k])
  BY <1>2 DEF Handling, n
<1> DEFINE j == [k \in 0 .. n |-> WithPowerups(h[k], p)]
<1>4. Handling(j, WithPowerups(s, p), d) /\ j[n] = WithPowerups(e, p)
  <2>1. j \in [0 .. n -> Stores]
    BY <1>3, WithTyped
  <2>2. j[0] = WithPowerups(s, p) /\ j[n] = WithPowerups(e, p)
    <3>1. 0 \in 0 .. n /\ n \in 0 .. n
      BY <1>1
    <3>. QED
      BY <1>2, <1>3, <3>1 DEF n
  <2>3. ASSUME NEW k \in 1 .. n PROVE j[k] = Handle(j[k - 1], d[k])
    <3>1. /\ k \in 0 .. n /\ k - 1 \in 0 .. n /\ h[k - 1] \in Stores /\ d[k] \in Frames
          /\ h[k] = Handle(h[k - 1], d[k])
      BY <1>1, <1>3
    <3>2. j[k] = WithPowerups(h[k], p) /\ j[k - 1] = WithPowerups(h[k - 1], p)
      BY <3>1
    <3>. QED
      BY <3>1, <3>2, HandlePowerups
  <2> HIDE DEF j
  <2>. QED
    BY <2>1, <2>2, <2>3 DEF Handling, n
<1>5. Ties(WithPowerups(s, p), d, WithPowerups(e, p))
  <2>1. Ties(s, d, e)
    BY DEF Leads
  <2>2. /\ WithPowerups(s, p).answer = s.answer /\ WithPowerups(s, p).question = s.question
        /\ WithPowerups(e, p).answer = e.answer /\ WithPowerups(e, p).question = e.question
    BY WithTyped
  <2>. QED
    BY <2>1, <2>2 DEF Ties
<1>. QED
  BY <1>4, <1>5 DEF Leads, n

-----------------------------------------------------------------------------
(***************************************************************************)
(* A store that agrees with its room.                                      *)
(***************************************************************************)

\* A message that submits an answer.
IsSubmit(m) == m.type = "answer.submit"

\* Store e shows who is in room r of game g, and how far the game is.
RoomShown(e, g, r, who) ==
  /\ e.room # None /\ e.room.game = g /\ e.room.who = who
  /\ r.status \in {"lobby", "in_progress"} => e.room.status = r.status
  /\ r.status = "finished" => e.finished = g \/ e.room.status = "finished"
  /\ r.status = "lobby" => e.question = None

\* ... the question, and when it is over what the answer in seat me was worth.
QuestionShown(e, g, r, me) ==
  e.question # None =>
    /\ e.question = <<g, r.cur>>
    /\ r.open => e.result = None
    /\ ~r.open => /\ e.result # None /\ e.result.right = Right(me.answer)
                  /\ e.board = <<g, r.cur>>

\* ... to a player the score, and an open question with the options that are left.
SeatShown(e, g, r, me) ==
  /\ e.score = me.score
  /\ r.status = "lobby" => ~me.used
  /\ r.open => /\ e.question = <<g, r.cur>>
               /\ e.hidden = IF me.used THEN {<<<<g, r.cur>>, "wrong">>} ELSE {}

\* ... and the choice that the room counts, or has in flight in up.
AnswerShown(e, g, r, me, pl, up) ==
  /\ me.answer # None => e.answer = me.answer
  /\ pl /\ r.open /\ me.answer = None /\ e.answer # None =>
       /\ e.answer[1] = <<g, r.cur>>
       /\ \E k \in DOMAIN up : IsSubmit(up[k]) /\ up[k].option = e.answer

\* All of it.  pl says that the tab is a player's.
Agrees(e, g, r, who, me, pl, up) ==
  /\ RoomShown(e, g, r, who) /\ QuestionShown(e, g, r, me)
  /\ pl => SeatShown(e, g, r, me)
  /\ AnswerShown(e, g, r, me, pl, up)

\* Two rooms that differ in who is there at most.
SameRoom(r, q) == r.status = q.status /\ r.cur = q.cur /\ r.open = q.open

\* A notice to the room: who comes, who goes and who is ready.
LEMMA AgreesNotice ==
  ASSUME NEW e \in Stores, NEW g, NEW r, NEW q, SameRoom(r, q), NEW who \in SUBSET People,
         NEW me, NEW pl, NEW up, Agrees(e, g, r, who, me, pl, up), NEW p \in People
  PROVE  /\ Agrees(Handle(e, About("participant.joined", p)), g, q, who \cup {p}, me, pl, up)
         /\ Agrees(Handle(e, About("participant.left", p)), g, q, who \ {p}, me, pl, up)
         /\ Agrees(Handle(e, About("participant.status", p)), g, q, who, me, pl, up)
<1> DEFINE j == About("participant.joined", p)
           l == About("participant.left", p)
           s == About("participant.status", p)
<1>1. /\ j \in Frames /\ j.type = "participant.joined" /\ j.who = p
      /\ l \in Frames /\ l.type = "participant.left" /\ l.who = p
      /\ s \in Frames /\ s.type = "participant.status" /\ s.who = p
  BY NoticeFrames DEF About
<1> HIDE DEF j, l, s
<1>2. /\ Handle(e, j) = OnJoined(e, j) /\ Handle(e, l) = OnLeft(e, l)
      /\ Handle(e, s) = OnStatus(e, s)
  BY <1>1, HandlerOf
<1>3. /\ e.room \in Rooms /\ e.room # None
  BY DEF Agrees, RoomShown, Stores
<1>4. ASSUME NEW f, NEW to,
             /\ f.question = e.question /\ f.result = e.result /\ f.board = e.board
             /\ f.answer = e.answer /\ f.score = e.score /\ f.finished = e.finished
             /\ f.hidden = e.hidden,
             /\ f.room # None /\ f.room.game = e.room.game /\ f.room.status = e.room.status
             /\ f.room.who = to
      PROVE  Agrees(f, g, q, to, me, pl, up)
  <2>1. RoomShown(f, g, q, to)
    BY <1>4 DEF RoomShown, Agrees, SameRoom
  <2>2. QuestionShown(f, g, q, me)
    BY <1>4 DEF QuestionShown, Agrees, SameRoom
  <2>3. pl => SeatShown(f, g, q, me)
    BY <1>4 DEF SeatShown, Agrees, SameRoom
  <2>4. AnswerShown(f, g, q, me, pl, up)
    BY <1>4 DEF AnswerShown, Agrees, SameRoom
  <2>. QED
    BY <2>1, <2>2, <2>3, <2>4 DEF Agrees
<1>5. /\ OnJoined(e, j).question = e.question /\ OnJoined(e, j).result = e.result
      /\ OnJoined(e, j).board = e.board /\ OnJoined(e, j).answer = e.answer
      /\ OnJoined(e, j).score = e.score /\ OnJoined(e, j).finished = e.finished
      /\ OnJoined(e, j).hidden = e.hidden
      /\ OnJoined(e, j).room = [e.room EXCEPT !.who = @ \cup {p}]
  BY <1>1, <1>3 DEF OnJoined, Stores
<1>6. /\ OnLeft(e, l).question = e.question /\ OnLeft(e, l).result = e.result
      /\ OnLeft(e, l).board = e.board /\ OnLeft(e, l).answer = e.answer
      /\ OnLeft(e, l).score = e.score /\ OnLeft(e, l).finished = e.finished
      /\ OnLeft(e, l).hidden = e.hidden
      /\ OnLeft(e, l).room = [e.room EXCEPT !.who = @ \ {p}, !.ready = @ \ {p}]
  BY <1>1, <1>3 DEF OnLeft, Stores
<1>7. /\ OnStatus(e, s).question = e.question /\ OnStatus(e, s).result = e.result
      /\ OnStatus(e, s).board = e.board /\ OnStatus(e, s).answer = e.answer
      /\ OnStatus(e, s).score = e.score /\ OnStatus(e, s).finished = e.finished
      /\ OnStatus(e, s).hidden = e.hidden
      /\ OnStatus(e, s).room = [e.room EXCEPT !.ready = @ \cup ({p} \cap e.room.who)]
  BY <1>1, <1>3 DEF OnStatus, Stores
<1>8. e.room.who = who
  BY DEF Agrees, RoomShown
<1>9. Agrees(OnJoined(e, j), g, q, who \cup {p}, me, pl, up)
  <2>1. /\ [e.room EXCEPT !.who = @ \cup {p}] \in Rooms
        /\ [e.room EXCEPT !.who = @ \cup {p}].game = e.room.game
        /\ [e.room EXCEPT !.who = @ \cup {p}].status = e.room.status
        /\ [e.room EXCEPT !.who = @ \cup {p}].who = who \cup {p}
    BY <1>3, <1>8 DEF Rooms
  <2>. QED
    BY <1>4, <1>5, <2>1, StoreAssumption
<1>10. Agrees(OnLeft(e, l), g, q, who \ {p}, me, pl, up)
  <2>1. /\ [e.room EXCEPT !.who = @ \ {p}, !.ready = @ \ {p}] \in Rooms
        /\ [e.room EXCEPT !.who = @ \ {p}, !.ready = @ \ {p}].game = e.room.game
        /\ [e.room EXCEPT !.who = @ \ {p}, !.ready = @ \ {p}].status = e.room.status
        /\ [e.room EXCEPT !.who = @ \ {p}, !.ready = @ \ {p}].who = who \ {p}
    BY <1>3, <1>8 DEF Rooms
  <2>. QED
    BY <1>4, <1>6, <2>1, StoreAssumption
<1>11. Agrees(OnStatus(e, s), g, q, who, me, pl, up)
  <2>1. /\ [e.room EXCEPT !.ready = @ \cup ({p} \cap e.room.who)] \in Rooms
        /\ [e.room EXCEPT !.ready = @ \cup ({p} \cap e.room.who)].game = e.room.game
        /\ [e.room EXCEPT !.ready = @ \cup ({p} \cap e.room.who)].status = e.room.status
        /\ [e.room EXCEPT !.ready = @ \cup ({p} \cap e.room.who)].who = who
    BY <1>3, <1>8 DEF Rooms
  <2>. QED
    BY <1>4, <1>7, <2>1, StoreAssumption
<1>. QED
  BY <1>2, <1>9, <1>10, <1>11 DEF j, l, s

\* An error changes nothing.
LEMMA AgreesError ==
  ASSUME NEW e, NEW g, NEW r, NEW who, NEW me, NEW pl, NEW up,
         Agrees(e, g, r, who, me, pl, up)
  PROVE  Agrees(Handle(e, [type |-> "error"]), g, r, who, me, pl, up)
<1>1. [type |-> "error"] \in Frames
  BY DEF Frames
<1>2. Handle(e, [type |-> "error"]) = e
  BY <1>1, HandlerOf
<1>. QED
  BY <1>2

\* The question ends: its verdict and the score, then the leaderboard.
LEMMA AgreesClosed ==
  ASSUME NEW e \in Stores, NEW g \in Games, NEW r, NEW q, NEW who, NEW me, NEW you, NEW pl,
         NEW up, Agrees(e, g, r, who, me, pl, up), r.cur \in 1 .. NQ, r.open,
         q.status = r.status, q.cur = r.cur, ~q.open,
         you.answer = me.answer, you.used = me.used, you.score \in Nat,
         NEW end, NEW board,
         end = [type |-> "question.end", question |-> <<g, r.cur>>,
                right |-> Right(me.answer), score |-> you.score],
         board = [type |-> "leaderboard.update", question |-> <<g, r.cur>>,
                  score |-> you.score]
  PROVE  Agrees(Handle(Handle(e, end), board), g, q, who, you, pl, up)
<1>1. Right(me.answer) \in BOOLEAN /\ <<g, r.cur>> \in Questions
  BY DEF Right, Questions, Indexes
<1>2. end \in Frames /\ board \in Frames
  BY <1>1, FrameTypes
<1>3. /\ Handle(e, end) = OnQuestionEnd(e, end) /\ OnQuestionEnd(e, end) \in Stores
      /\ Handle(OnQuestionEnd(e, end), board) = OnBoard(OnQuestionEnd(e, end), board)
  <2>1. end.type = "question.end" /\ board.type = "leaderboard.update"
    OBVIOUS
  <2>. QED
    BY <1>2, <2>1, HandlerOf, HandleKeepsStores
<1> DEFINE f == OnBoard(OnQuestionEnd(e, end), board)
           v == [question |-> <<g, r.cur>>, right |-> Right(me.answer)]
<1>4. v \in Results /\ v # None /\ v.right = Right(me.answer)
  BY <1>1, StoreAssumption DEF Results
<1>5. /\ f.question = e.question /\ f.answer = e.answer /\ f.finished = e.finished
      /\ f.hidden = e.hidden /\ f.room = e.room
      /\ f.result = v /\ f.board = <<g, r.cur>> /\ f.score = you.score
  BY DEF OnBoard, OnQuestionEnd, Stores
<1> HIDE DEF f, v
<1>6. RoomShown(f, g, q, who)
  BY <1>5 DEF RoomShown, Agrees
<1>7. QuestionShown(f, g, q, you)
  BY <1>4, <1>5 DEF QuestionShown, Agrees
<1>8. pl => SeatShown(f, g, q, you)
  BY <1>5 DEF SeatShown, Agrees
<1>9. AnswerShown(f, g, q, you, pl, up)
  BY <1>5 DEF AnswerShown, Agrees
<1>. QED
  BY <1>3, <1>6, <1>7, <1>8, <1>9 DEF Agrees, f

\* The next question starts, or the first.
LEMMA AgreesNext ==
  ASSUME NEW e \in Stores, NEW g \in Games, NEW r, NEW q, NEW who, NEW me, NEW pl, NEW up,
         RoomShown(e, g, r, who), r.status = "in_progress",
         q.status = "in_progress", q.open, q.cur \in 1 .. NQ,
         pl => e.score = me.score /\ ~me.used, me.answer = None
  PROVE  Agrees(Handle(e, Start(g, q.cur)), g, q, who, me, pl, up)
<1> DEFINE m == Start(g, q.cur)
           f == OnQuestionStart(e, m)
<1>1. m \in Frames /\ m.type = "question.start" /\ m.question = <<g, q.cur>>
  BY FrameTypes DEF Start
<1> HIDE DEF m
<1>2. Handle(e, m) = f
  BY <1>1, HandlerOf
<1>3. /\ f.question = <<g, q.cur>> /\ f.answer = None /\ f.result = None /\ f.hidden = {}
      /\ f.room = e.room /\ f.score = e.score /\ f.finished = e.finished
  BY <1>1 DEF OnQuestionStart, Stores
<1> HIDE DEF f
<1>4. RoomShown(f, g, q, who)
  BY <1>3 DEF RoomShown
<1>5. QuestionShown(f, g, q, me)
  BY <1>3 DEF QuestionShown
<1>6. pl => SeatShown(f, g, q, me)
  BY <1>3 DEF SeatShown
<1>7. AnswerShown(f, g, q, me, pl, up)
  BY <1>3 DEF AnswerShown
<1>. QED
  BY <1>2, <1>4, <1>5, <1>6, <1>7 DEF Agrees, m

\* The game is over.
LEMMA AgreesFinished ==
  ASSUME NEW e \in Stores, NEW g \in Games, NEW r, NEW q, NEW who, NEW me, NEW pl, NEW up,
         Agrees(e, g, r, who, me, pl, up), ~r.open,
         q.status = "finished", ~q.open, q.cur = r.cur
  PROVE  Agrees(Handle(e, [type |-> "game.finished", game |-> g]), g, q, who, me, pl, up)
<1> DEFINE m == [type |-> "game.finished", game |-> g]
           f == OnFinished(e, m)
<1>1. m \in Frames /\ m.type = "game.finished" /\ m.game = g
  BY FrameTypes
<1> HIDE DEF m
<1>2. Handle(e, m) = f
  BY <1>1, HandlerOf
<1>3. /\ f.question = e.question /\ f.answer = e.answer /\ f.result = e.result
      /\ f.hidden = e.hidden /\ f.board = e.board
      /\ f.room = e.room /\ f.score = e.score /\ f.finished = g
  BY <1>1 DEF OnFinished, Stores
<1> HIDE DEF f
<1>4. RoomShown(f, g, q, who)
  BY <1>3 DEF RoomShown, Agrees
<1>5. QuestionShown(f, g, q, me)
  BY <1>3 DEF QuestionShown, Agrees
<1>6. pl => SeatShown(f, g, q, me)
  BY <1>3 DEF SeatShown, Agrees
<1>7. AnswerShown(f, g, q, me, pl, up)
  BY <1>3 DEF AnswerShown, Agrees
<1>. QED
  BY <1>2, <1>4, <1>5, <1>6, <1>7 DEF Agrees, m

\* The power-up takes an option away.
LEMMA AgreesPowerup ==
  ASSUME NEW e \in Stores, NEW g \in Games, NEW r, NEW who, NEW me, NEW you, NEW pl, NEW up,
         Agrees(e, g, r, who, me, pl, up), r.open, r.status # "lobby", r.cur \in 1 .. NQ,
         you.answer = me.answer, you.score = me.score, you.used,
         NEW m, m = [type |-> "powerup.applied", hidden |-> {<<<<g, r.cur>>, "wrong">>}]
  PROVE  Agrees(Handle(e, m), g, r, who, you, pl, up)
<1> DEFINE f == OnPowerup(e, m)
<1>1. m \in Frames /\ m.type = "powerup.applied" /\ m.hidden = {<<<<g, r.cur>>, "wrong">>}
  <2>1. {<<<<g, r.cur>>, "wrong">>} \in SUBSET Options
    BY DEF Options, Questions, Indexes
  <2>. QED
    BY <2>1, FrameTypes
<1>2. Handle(e, m) = f
  BY <1>1, HandlerOf
<1>3. /\ f.question = e.question /\ f.answer = e.answer /\ f.result = e.result
      /\ f.hidden = {<<<<g, r.cur>>, "wrong">>} /\ f.board = e.board
      /\ f.room = e.room /\ f.score = e.score /\ f.finished = e.finished
  BY <1>1 DEF OnPowerup, Stores
<1> HIDE DEF f
<1>4. RoomShown(f, g, r, who)
  BY <1>3 DEF RoomShown, Agrees
<1>5. QuestionShown(f, g, r, you)
  BY <1>3 DEF QuestionShown, Agrees
<1>6. pl => SeatShown(f, g, r, you)
  BY <1>3 DEF SeatShown, Agrees
<1>7. AnswerShown(f, g, r, you, pl, up)
  BY <1>3 DEF AnswerShown, Agrees
<1>. QED
  BY <1>2, <1>4, <1>5, <1>6, <1>7 DEF Agrees

\* The answer on the screen is counted.
LEMMA AgreesAnswered ==
  ASSUME NEW e, NEW g, NEW r, NEW who, NEW me, NEW you, NEW pl, NEW up, NEW rest,
         Agrees(e, g, r, who, me, pl, up), r.open,
         you.answer # None, e.answer = you.answer, you.score = me.score, you.used = me.used
  PROVE  Agrees(e, g, r, who, you, pl, rest)
  BY DEF Agrees, QuestionShown, SeatShown, AnswerShown

\* A message of the tab is taken that is no answer the room counts.
LEMMA AgreesTaken ==
  ASSUME NEW e, NEW g, NEW r, NEW who, NEW me, NEW pl, NEW up \in Seq(Ups), up # <<>>,
         Agrees(e, g, r, who, me, pl, up),
         IsSubmit(Head(up)) /\ r.open /\ me.answer = None => Head(up).option[1] # <<g, r.cur>>
  PROVE  Agrees(e, g, r, who, me, pl, Tail(up))
<1> DEFINE n == Len(up)
           t == Tail(up)
<1>1. /\ n \in Nat \ {0} /\ DOMAIN up = 1 .. n /\ DOMAIN t = 1 .. n - 1
      /\ \A k \in 1 .. n - 1 : t[k] = up[k + 1]
      /\ Head(up) = up[1]
  BY HeadTailProperties, EmptySeq, LenProperties
<1> HIDE DEF n, t
<1>2. AnswerShown(e, g, r, me, pl, t)
  <2> SUFFICES ASSUME pl, r.open, me.answer = None, e.answer # None
               PROVE  \E k \in DOMAIN t : IsSubmit(t[k]) /\ t[k].option = e.answer
    BY DEF AnswerShown, Agrees
  <2>1. e.answer[1] = <<g, r.cur>>
    BY DEF AnswerShown, Agrees
  <2>2. PICK k \in DOMAIN up : IsSubmit(up[k]) /\ up[k].option = e.answer
    BY DEF AnswerShown, Agrees
  <2>3. k # 1
    BY <1>1, <2>1, <2>2
  <2>4. k - 1 \in DOMAIN t /\ t[k - 1] = up[k]
    BY <1>1, <2>3
  <2>. QED
    BY <2>2, <2>4
<1>. QED
  BY <1>2 DEF Agrees, t

\* A message is sent.
LEMMA AgreesSent ==
  ASSUME NEW e, NEW g, NEW r, NEW who, NEW me, NEW pl, NEW up \in Seq(Ups), NEW m \in Ups,
         Agrees(e, g, r, who, me, pl, up)
  PROVE  Agrees(e, g, r, who, me, pl, Append(up, m))
<1> DEFINE a == Append(up, m)
<1>1. /\ DOMAIN up \subseteq DOMAIN a /\ \A k \in DOMAIN up : a[k] = up[k]
  BY AppendProperties, LenProperties
<1> HIDE DEF a
<1>2. AnswerShown(e, g, r, me, pl, a)
  BY <1>1 DEF AnswerShown, Agrees
<1>. QED
  BY <1>2 DEF Agrees, a

\* An empty store that is told of its room, and of the question that is open.
LEMMA AgreesHello ==
  ASSUME NEW e \in Stores, NEW g \in Games, NEW r \in GameRooms, NEW who \in SUBSET People,
         NEW pl, NEW up,
         e.room = None, e.question = None, e.result = None, e.answer = None,
         e.score = 0, e.hidden = {}, e.finished = None,
         NEW hello, hello = [type |-> "room.state", game |-> g, status |-> r.status, who |-> who],
         r.status = "lobby" => ~r.open
  PROVE  /\ ~(pl /\ r.open) => Agrees(Handle(e, hello), g, r, who, NewSeat, pl, up)
         /\ r.cur \in 1 .. NQ /\ r.open =>
              Agrees(Handle(Handle(e, hello), Start(g, r.cur)), g, r, who, NewSeat, pl, up)
<1>1. /\ hello \in Frames /\ hello.type = "room.state" /\ hello.game = g
      /\ hello.status = r.status /\ hello.who = who /\ r.status \in Statuses
  BY FrameTypes DEF GameRooms
<1> DEFINE f == OnRoomState(e, hello)
           w == [game |-> g, status |-> r.status, who |-> who, ready |-> {}]
<1>2. Handle(e, hello) = f /\ f \in Stores
  BY <1>1, HandlerOf, HandleKeepsStores
<1>3. w \in Rooms /\ w # None /\ w.game = g /\ w.status = r.status /\ w.who = who
  BY <1>1, StoreAssumption DEF Rooms
<1>4. /\ f.room = w /\ f.question = None /\ f.result = None /\ f.answer = None
      /\ f.score = 0 /\ f.hidden = {} /\ f.finished = None
  BY <1>1 DEF OnRoomState, Stores
<1>5. NewSeat.answer = None /\ NewSeat.score = 0 /\ NewSeat.used = FALSE
  BY DEF NewSeat
<1> HIDE DEF f, w
<1>6. RoomShown(f, g, r, who)
  BY <1>3, <1>4 DEF RoomShown
<1>7. ASSUME ~(pl /\ r.open) PROVE Agrees(f, g, r, who, NewSeat, pl, up)
  BY <1>4, <1>5, <1>6, <1>7 DEF Agrees, QuestionShown, SeatShown, AnswerShown
<1>8. ASSUME r.cur \in 1 .. NQ, r.open
      PROVE  Agrees(Handle(f, Start(g, r.cur)), g, r, who, NewSeat, pl, up)
  <2> DEFINE m == Start(g, r.cur)
             h == OnQuestionStart(f, m)
  <2>1. m \in Frames /\ m.type = "question.start" /\ m.question = <<g, r.cur>>
    BY <1>8, FrameTypes DEF Start
  <2> HIDE DEF m
  <2>2. Handle(f, m) = h
    BY <2>1, HandlerOf
  <2>3. /\ h.question = <<g, r.cur>> /\ h.answer = None /\ h.result = None /\ h.hidden = {}
        /\ h.room = f.room /\ h.score = f.score /\ h.finished = f.finished
    BY <1>2, <2>1 DEF OnQuestionStart, Stores
  <2> HIDE DEF h
  <2>4. RoomShown(h, g, r, who) /\ QuestionShown(h, g, r, NewSeat)
    BY <1>6, <1>8, <2>3 DEF RoomShown, QuestionShown
  <2>5. pl => SeatShown(h, g, r, NewSeat)
    BY <1>4, <1>5, <1>8, <2>3 DEF SeatShown
  <2>6. AnswerShown(h, g, r, NewSeat, pl, up)
    BY <1>5, <2>3 DEF AnswerShown
  <2>. QED
    BY <2>2, <2>4, <2>5, <2>6 DEF Agrees, m
<1>. QED
  BY <1>2, <1>7, <1>8

\* The choice on the screen is sent.
LEMMA AgreesChosen ==
  ASSUME NEW e \in Stores, NEW g, NEW r, NEW who, NEW me, NEW pl, NEW up \in Seq(Ups),
         Agrees(e, g, r, who, me, pl, up), e.answer = None, me.answer # None => e.answer = me.answer,
         NEW o \in Options, e.question # None, o[1] = e.question,
         NEW m \in Ups, IsSubmit(m), m.option = o
  PROVE  Agrees(WithAnswer(e, o), g, r, who, me, pl, Append(up, m))
<1> DEFINE f == WithAnswer(e, o)
           a == Append(up, m)
           n == Len(up) + 1
<1>1. /\ f.question = e.question /\ f.answer = o /\ f.result = e.result
      /\ f.hidden = e.hidden /\ f.board = e.board
      /\ f.room = e.room /\ f.score = e.score /\ f.finished = e.finished
  BY DEF WithAnswer, Stores
<1>2. n \in DOMAIN a /\ a[n] = m
  BY AppendProperties, LenProperties
<1> HIDE DEF f, a, n
<1>3. RoomShown(f, g, r, who)
  BY <1>1 DEF RoomShown, Agrees
<1>4. QuestionShown(f, g, r, me)
  BY <1>1 DEF QuestionShown, Agrees
<1>5. pl => SeatShown(f, g, r, me)
  BY <1>1 DEF SeatShown, Agrees
<1>6. AnswerShown(f, g, r, me, pl, a)
  <2>1. me.answer = None
    OBVIOUS
  <2>2. pl /\ r.open => o[1] = <<g, r.cur>>
    BY DEF Agrees, QuestionShown
  <2>. QED
    BY <1>1, <1>2, <2>1, <2>2 DEF AnswerShown
<1>. QED
  BY <1>3, <1>4, <1>5, <1>6 DEF Agrees, f, a

-----------------------------------------------------------------------------
(***************************************************************************)
(* The tab that will agree, once what is in flight has arrived.            *)
(***************************************************************************)

\* i is the connection the tab uses, and its store heard of no other.
Current(i) == i = ws /\ Open(i) /\ heard \subseteq {sock[i].ticket}

\* Who is in the room of game g.
Who(g) == Seated(g) \cup room[g].others

\* Store e, with up in flight from the tab, agrees with i's room.
Shows(i, e, up) ==
  Agrees(e, GameOf(i), room[GameOf(i)], Who(GameOf(i)), seat[sock[i].ticket],
         role = "player", up)

\* The frames in flight lead the tab's store to one that agrees.
Follows(i) == \E e \in Stores : Leads(store, sock[i].down, e) /\ Shows(i, e, sock[i].up)

\* An answer in flight is to no later question than the one on the screen, and one to
\* that question is the choice on the screen.
AnswersOf(i) ==
  \A k \in DOMAIN sock[i].up : IsSubmit(sock[i].up[k]) =>
    LET o == sock[i].up[k].option
    IN o[1][2] <= Seen(i) /\ (o[1] = store.question => o = store.answer)

\* There is a listener as long as there is a connection it is for, only an open socket
\* sends, what the store knows it has heard, and no host plays.
Listens ==
  /\ ws # 0 /\ sock[ws].st \in {"dialing", "open"} => listening
  /\ url # None /\ ~closed => listening

Silent == \A i \in Sockets : ~Open(i) => sock[i].up = <<>>

Unheard == heard = {} => store = [Fresh EXCEPT !.me = store.me]

Plays(m) == m.type \in {"answer.submit", "powerup.use"}

HostOnlyHosts ==
  role = "host" =>
    /\ \A t \in Tickets : seat[t] = NewSeat
    /\ \A i \in Sockets : \A k \in DOMAIN sock[i].up : ~Plays(sock[i].up[k])

Quiet == Listens /\ Silent /\ Unheard /\ HostOnlyHosts

\* The invariant that ScreenAgrees rests on: all that is in flight considered, the tab's
\* one connection brings its store to what the room holds.
FollowInv == Quiet /\ \A i \in Sockets : Current(i) => Follows(i) /\ AnswersOf(i)

-----------------------------------------------------------------------------
(***************************************************************************)
(* Steps of the rooms.                                                     *)
(***************************************************************************)

\* At most the message at the head of a queue is taken.
Taking(sk) ==
  \A i \in Sockets : \/ sk[i].up = sock[i].up
                     \/ sock[i].up # <<>> /\ sk[i].up = Tail(sock[i].up)

\* What is left of a queue was in it.
LEMMA TakenFrom ==
  ASSUME TypeOK, NEW sk, Taking(sk), NEW i \in Sockets, NEW k \in DOMAIN sk[i].up
  PROVE  \E l \in DOMAIN sock[i].up : sk[i].up[k] = sock[i].up[l]
<1>1. sock[i].up \in Seq(Ups)
  BY SockFits, LinkFields
<1>2. CASE sk[i].up = sock[i].up
  BY <1>2
<1>3. CASE sock[i].up # <<>> /\ sk[i].up = Tail(sock[i].up)
  <2> DEFINE u == sock[i].up
             n == Len(u)
  <2>1. /\ n \in Nat \ {0} /\ DOMAIN u = 1 .. n /\ DOMAIN Tail(u) = 1 .. n - 1
        /\ \A j \in 1 .. n - 1 : Tail(u)[j] = u[j + 1]
    BY <1>1, <1>3, HeadTailProperties, EmptySeq, LenProperties
  <2> HIDE DEF u
  <2>2. k \in 1 .. n - 1 /\ k + 1 \in DOMAIN u /\ sk[i].up[k] = u[k + 1]
    BY <1>3, <2>1 DEF u
  <2>. QED
    BY <2>2 DEF u
<1>. QED
  BY <1>2, <1>3 DEF Taking

\* What a step of a room has to show: each current connection is sent frames that lead
\* from a store that agreed to one that agrees again.
ShowsNext(i, e) ==
  Agrees(e, GameOf(i), room'[GameOf(i)], Seated(GameOf(i)) \cup room'[GameOf(i)].others,
         seat'[sock[i].ticket], role = "player", sock'[i].up)

\* When the tab stays and a room goes on, it is enough that what comes leads every store
\* that agreed with the room on to one that agrees again.
LEMMA RoomFollows ==
  ASSUME IInv, FollowInv, UNCHANGED <<tabVars, linkVars, issued, spent>>,
         SameEnds(sock'), Taking(sock'),
         role = "host" => \A t \in Tickets : seat'[t] = seat[t],
         \A i \in Sockets : Current(i) =>
           \A e \in Stores : Leads(store, sock[i].down, e) /\ Shows(i, e, sock[i].up) =>
             \/ sock'[i].down = sock[i].down /\ ShowsNext(i, e)
             \/ \E fs \in Seq(Frames), f \in Stores :
                  /\ sock'[i].down = sock[i].down \o fs
                  /\ Leads(e, fs, f) /\ ShowsNext(i, f)
  PROVE  FollowInv'
<1>1. /\ \A i \in Sockets : Open(i)' = Open(i) /\ GameOf(i)' = GameOf(i)
      /\ \A g : Seated(g)' = Seated(g)
  BY SameMembers DEF tabVars
<1>2. /\ ws' = ws /\ url' = url /\ closed' = closed /\ listening' = listening
      /\ store' = store /\ heard' = heard /\ role' = role /\ store \in Stores
      /\ \A i \in Sockets : sock'[i].st = sock[i].st /\ sock'[i].ticket = sock[i].ticket
  BY ServerSame DEF tabVars, linkVars, role, SameEnds, TabTypeOK
<1>3. Listens' /\ Unheard'
  <2>1. ws \in Sockets \cup {0}
    BY ServerSame DEF LinksTyped
  <2>. QED
    BY <1>2, <2>1 DEF FollowInv, Quiet, Listens, Unheard
<1>4. TypeOK
  BY DEF IInv
<1>5. Silent'
  <2> SUFFICES ASSUME NEW i \in Sockets, ~Open(i) PROVE sock'[i].up = <<>>
    BY <1>1 DEF Silent
  <2>1. sock[i].up = <<>>
    BY DEF FollowInv, Quiet, Silent
  <2>. QED
    BY <2>1 DEF Taking
<1>6. HostOnlyHosts'
  <2> SUFFICES ASSUME role = "host"
               PROVE  /\ \A t \in Tickets : seat'[t] = NewSeat
                      /\ \A i \in Sockets : \A k \in DOMAIN sock'[i].up : ~Plays(sock'[i].up[k])
    BY <1>2 DEF HostOnlyHosts
  <2>1. HostOnlyHosts
    BY DEF FollowInv, Quiet
  <2>2. \A t \in Tickets : seat'[t] = NewSeat
    BY <2>1 DEF HostOnlyHosts
  <2>3. ASSUME NEW i \in Sockets, NEW k \in DOMAIN sock'[i].up PROVE ~Plays(sock'[i].up[k])
    <3>1. \E l \in DOMAIN sock[i].up : sock'[i].up[k] = sock[i].up[l]
      BY <1>4, TakenFrom
    <3>. QED
      BY <2>1, <3>1 DEF HostOnlyHosts
  <2>. QED
    BY <2>2, <2>3
<1>7. ASSUME NEW i \in Sockets, Current(i)' PROVE Follows(i)' /\ AnswersOf(i)'
  <2>1. Current(i)
    BY <1>1, <1>2, <1>7 DEF Current
  <2>2. Follows(i) /\ AnswersOf(i) /\ sock[i].down \in Seq(Frames)
    BY <1>4, <2>1, SockFits, LinkFields DEF FollowInv
  <2>3. PICK e \in Stores : Leads(store, sock[i].down, e) /\ Shows(i, e, sock[i].up)
    BY <2>2 DEF Follows
  <2>4. ASSUME NEW f \in Stores, Leads(store, sock'[i].down, f), ShowsNext(i, f)
        PROVE  Follows(i)'
    <3>1. Shows(i, f, sock[i].up)'
      <4>1. /\ GameOf(i)' = GameOf(i) /\ sock'[i].ticket = sock[i].ticket
            /\ Seated(GameOf(i))' = Seated(GameOf(i))
        BY <1>1, <1>2
      <4>2. Who(GameOf(i))' = Seated(GameOf(i)) \cup room'[GameOf(i)].others
        BY <4>1 DEF Who
      <4>. QED
        BY <1>2, <2>4, <4>1, <4>2 DEF Shows, ShowsNext
    <3>. QED
      BY <1>2, <2>4, <3>1 DEF Follows
  <2>5. Follows(i)'
    <3>1. CASE sock'[i].down = sock[i].down /\ ShowsNext(i, e)
      BY <2>3, <2>4, <3>1
    <3>2. ASSUME NEW fs \in Seq(Frames), NEW f \in Stores, sock'[i].down = sock[i].down \o fs,
                 Leads(e, fs, f), ShowsNext(i, f)
          PROVE  Follows(i)'
      <4>1. Leads(store, sock[i].down \o fs, f)
        BY <1>2, <2>2, <2>3, <3>2, LeadsOn
      <4>. QED
        BY <2>4, <3>2, <4>1
    <3>. QED
      BY <2>1, <2>3, <3>1, <3>2
  <2>6. AnswersOf(i)'
    <3>1. Seen(i)' = Seen(i)
      BY <1>2 DEF Seen, Heard
    <3>2. ASSUME NEW k \in DOMAIN sock'[i].up, IsSubmit(sock'[i].up[k])
          PROVE  LET o == sock'[i].up[k].option
                 IN o[1][2] <= Seen(i) /\ (o[1] = store.question => o = store.answer)
      <4>1. PICK l \in DOMAIN sock[i].up : sock'[i].up[k] = sock[i].up[l]
        BY <1>4, TakenFrom
      <4>. QED
        BY <2>2, <3>2, <4>1 DEF AnswersOf
    <3>. QED
      BY <1>2, <3>1, <3>2 DEF AnswersOf
  <2>. QED
    BY <2>5, <2>6
<1>. QED
  BY <1>3, <1>5, <1>6, <1>7 DEF FollowInv, Quiet

\* What is known of a current connection.
LEMMA CurrentFacts ==
  ASSUME IInv, NEW i \in Sockets, Current(i)
  PROVE  /\ Open(i) /\ GameOf(i) \in Games /\ sock[i].ticket \in Tickets
         /\ sock[i].up \in Seq(Ups) /\ sock[i].down \in Seq(Frames) /\ store \in Stores
         /\ seat[sock[i].ticket] \in Seats /\ Who(GameOf(i)) \in SUBSET People
         /\ role = "player" => sock[i].ticket \in Seated(GameOf(i))
<1>1. Open(i)
  BY DEF Current
<1>2. GameOf(i) \in Games /\ i \in Members(GameOf(i)) /\ sock[i].ticket \in Tickets
  BY <1>1, OpenFacts DEF IInv
<1>3. sock[i].up \in Seq(Ups) /\ sock[i].down \in Seq(Frames)
  BY SockFits, LinkFields DEF IInv
<1>4. store \in Stores
  BY ServerSame DEF TabTypeOK
<1>5. Who(GameOf(i)) \in SUBSET People
  BY <1>2, RoomFields DEF Who
<1>6. role = "player" => sock[i].ticket \in Seated(GameOf(i))
  BY <1>2 DEF Seated
<1>7. seat[sock[i].ticket] \in Seats
  BY <1>2, ServerSame
<1>. QED
  BY <1>1, <1>2, <1>3, <1>4, <1>5, <1>6, <1>7

\* A connection is a member of its own game only, and has a seat there if it is a player's.
LEMMA MemberSeat ==
  ASSUME IInv, NEW i \in Sockets, Open(i), NEW g
  PROVE  /\ i \in Members(g) <=> GameOf(i) = g
         /\ sock[i].ticket \in Seated(g) <=> GameOf(i) = g /\ role = "player"
         /\ role = "host" => Seated(g) = {}
<1>1. i \in Members(g) <=> GameOf(i) = g
  BY DEF Members
<1>2. sock[i].ticket \in Seated(g) => GameOf(i) = g /\ role = "player"
  BY SeatedFacts DEF GameOf, IInv
<1>3. GameOf(i) = g /\ role = "player" => sock[i].ticket \in Seated(g)
  BY <1>1 DEF Seated
<1>4. role = "host" => Seated(g) = {}
  BY DEF Seated
<1>. QED
  BY <1>1, <1>2, <1>3, <1>4

\* At most a message that is no answer is taken.
TakingClick(sk) ==
  \A i \in Sockets :
    \/ sk[i].up = sock[i].up
    \/ sock[i].up # <<>> /\ sk[i].up = Tail(sock[i].up) /\ ~IsSubmit(Head(sock[i].up))

\* ... which leaves an agreement as it is.
LEMMA ShowsTaken ==
  ASSUME IInv, NEW sk, TakingClick(sk), NEW i \in Sockets, Current(i), NEW e, NEW g, NEW r,
         NEW who, NEW me, NEW pl, Agrees(e, g, r, who, me, pl, sock[i].up)
  PROVE  Agrees(e, g, r, who, me, pl, sk[i].up)
<1>1. sock[i].up \in Seq(Ups)
  BY CurrentFacts
<1>2. CASE sock[i].up # <<>> /\ sk[i].up = Tail(sock[i].up) /\ ~IsSubmit(Head(sock[i].up))
  BY <1>1, <1>2, AgreesTaken
<1>. QED
  BY <1>2 DEF TakingClick

\* A room does not change what the other rooms' connections show.
LEMMA ShowsElsewhere ==
  ASSUME IInv, NEW i \in Sockets, Current(i), NEW g, GameOf(i) # g, NEW e,
         Shows(i, e, sock'[i].up), \A h \in Games \ {g} : room'[h] = room[h],
         \A t \in Tickets : t \notin Seated(g) => seat'[t] = seat[t]
  PROVE  ShowsNext(i, e)
<1>1. GameOf(i) \in Games \ {g} /\ sock[i].ticket \in Tickets /\ sock[i].ticket \notin Seated(g)
  BY CurrentFacts, MemberSeat
<1>. QED
  BY <1>1 DEF Shows, ShowsNext, Who

\* The game starts.
LEMMA StartGameFollows ==
  ASSUME IInv, FollowInv, UNCHANGED <<tabVars, linkVars, issued, spent>>,
         NEW sk, Fits(sk, Len(issued)), SameDown(sk), TakingClick(sk), NEW g \in Games,
         room[g].status = "lobby", StartGame(sk, g)
  PROVE  FollowInv'
<1> DEFINE who == Seated(g) \cup room[g].others
           hello == [StateOf(g, who) EXCEPT !.status = "in_progress"]
           start == Start(g, 1)
           fs == <<hello, start>>
<1>1. /\ room \in [Games -> GameRooms] /\ seat \in [Tickets -> Seats] /\ who \in SUBSET People
      /\ role \in {"player", "host"}
  BY RoomFields, ServerSame
<1>2. room[g].cur = 0 /\ ~room[g].open
  BY DEF IInv, RoomInv
<1>3. /\ \A i \in Members(g) : Len(sock[i].down) + 2 <= MaxDown
      /\ room' = [room EXCEPT ![g].status = "in_progress", ![g].cur = 1, ![g].open = TRUE]
      /\ seat' = [t \in Tickets |-> IF t \in Seated(g) THEN [seat[t] EXCEPT !.left = 1]
                                    ELSE seat[t]]
      /\ sock' = TellAll(sk, g, fs)
  BY DEF StartGame, Reachable
<1>4. /\ hello \in Frames /\ start \in Frames /\ fs \in Seq(Frames) /\ Len(fs) = 2
      /\ hello.type = "room.state" /\ hello.game = g /\ hello.status = "in_progress"
      /\ hello.who = who
  <2>1. hello = [type |-> "room.state", game |-> g, status |-> "in_progress", who |-> who]
    BY StartedState
  <2>2. hello \in Frames
    <3>1. who \in SUBSET People /\ "in_progress" \in Statuses
      BY <1>1 DEF Statuses
    <3> HIDE DEF who, hello
    <3>. QED
      BY <2>1, <3>1, FrameTypes
  <2>3. start \in Frames
    <3>1. 1 \in 1 .. NQ
      BY TicketFacts
    <3>. QED
      BY <3>1, FrameTypes
  <2> HIDE DEF hello, start
  <2>. QED
    BY <2>1, <2>2, <2>3
<1> HIDE DEF hello, start, fs, who
<1>5. \A i \in Sockets :
        /\ sock'[i].st = sock[i].st /\ sock'[i].ticket = sock[i].ticket
        /\ sock'[i].up = sk[i].up
        /\ sock'[i].down = IF i \in Members(g) THEN sock[i].down \o fs ELSE sock[i].down
  <2>1. \A i \in Members(g) : i \in Sockets /\ Len(sk[i].down) + Len(fs) <= MaxDown
    BY <1>3, <1>4 DEF SameDown, Members
  <2>2. fs \in Seq(Frames) /\ Fits(sk, Len(issued))
    BY <1>4
  <2>3. \A i \in Sockets :
          /\ TellAll(sk, g, fs)[i].st = sk[i].st /\ TellAll(sk, g, fs)[i].ticket = sk[i].ticket
          /\ TellAll(sk, g, fs)[i].up = sk[i].up
          /\ TellAll(sk, g, fs)[i].down = IF i \in Members(g) THEN sk[i].down \o fs
                                          ELSE sk[i].down
    BY ONLY <2>1, <2>2, TellAllFits
  <2>. QED
    BY <1>3, <2>3 DEF SameDown, SameEnds
<1>6. /\ room'[g].status = "in_progress" /\ room'[g].cur = 1 /\ room'[g].open
      /\ room'[g].others = room[g].others /\ \A h \in Games \ {g} : room'[h] = room[h]
  BY <1>1, <1>3 DEF GameRooms
<1>7. /\ \A t \in Tickets : /\ seat'[t].answer = seat[t].answer /\ seat'[t].score = seat[t].score
                            /\ seat'[t].used = seat[t].used
      /\ \A t \in Tickets : t \notin Seated(g) => seat'[t] = seat[t]
  BY <1>1, <1>3 DEF Seats
<1>8. SameEnds(sock') /\ Taking(sock')
  BY <1>5 DEF SameEnds, Taking, TakingClick
<1>9. role = "host" => \A t \in Tickets : seat'[t] = seat[t]
  BY <1>7 DEF Seated
<1>10. ASSUME NEW i \in Sockets, Current(i), NEW e \in Stores, Leads(store, sock[i].down, e),
              Shows(i, e, sock[i].up)
       PROVE  \/ sock'[i].down = sock[i].down /\ ShowsNext(i, e)
              \/ \E d \in Seq(Frames), f \in Stores :
                   /\ sock'[i].down = sock[i].down \o d
                   /\ Leads(e, d, f) /\ ShowsNext(i, f)
  <2>1. Open(i)
    BY <1>10 DEF Current
  <2>2. CASE GameOf(i) # g
    <3>1. Shows(i, e, sock'[i].up)
      BY <1>5, <1>10, <1>8, ShowsTaken DEF Shows
    <3>2. ShowsNext(i, e)
      BY <1>6, <1>7, <1>10, <2>2, <3>1, ShowsElsewhere
    <3>. QED
      BY <1>5, <2>1, <2>2, <3>2, MemberSeat
  <2>3. CASE GameOf(i) = g
    <3> DEFINE me == seat[sock[i].ticket]
               you == seat'[sock[i].ticket]
               e1 == Handle(e, hello)
               f == Handle(e1, start)
               pl == role = "player"
    <3>1. sock'[i].down = sock[i].down \o fs
      BY <1>5, <2>1, <2>3, MemberSeat
    <3>2. /\ sock[i].ticket \in Tickets /\ me \in Seats
          /\ pl => sock[i].ticket \in Seated(g)
      BY <1>10, <2>3, CurrentFacts
    <3>3. Agrees(e, g, room[g], who, me, pl, sock[i].up)
      BY <1>10, <2>3 DEF Shows, Who, who
    <3>4. me.answer = None
      <4>1. CASE role = "host"
        BY <3>2, <4>1, NewSeatTyped DEF FollowInv, Quiet, HostOnlyHosts
      <4>2. CASE role = "player"
        <5>1. me.answer # None => me.answer[1] = <<g, 0>>
          BY <1>2, <3>2, <4>2, SeatedSeat DEF Asked
        <5>2. me.answer \in Options \cup {None}
          BY <1>1, <3>2, SeatFields
        <5>3. \A o \in Options : o[1] # <<g, 0>>
          BY TicketFacts DEF Options, Questions, Indexes
        <5>. QED
          BY <5>1, <5>2, <5>3
      <4>. QED
        BY <1>1, <4>1, <4>2
    <3>5. you.answer = None /\ you.score = me.score /\ you.used = me.used
      BY <1>7, <3>2, <3>4
    <3>6. pl => e.score = you.score /\ ~you.used
      BY <3>3, <3>5 DEF Agrees, SeatShown
    <3> HIDE DEF me, you, pl
    <3>7. e1 = OnRoomState(e, hello) /\ e1 \in Stores
      BY <1>4, HandlerOf, HandleKeepsStores
    <3>8. f \in Stores
      BY <1>4, <3>7, HandleKeepsStores
    <3>9. Leads(e, fs, f)
      <4>1. Leads(e, <<hello>>, e1) /\ Leads(e1, <<start>>, f)
        BY <1>4, <3>7, LeadsOne
      <4>2. <<hello>> \o <<start>> = fs
        BY <1>4, PairIsConcat DEF fs
      <4>3. <<hello>> \in Seq(Frames) /\ <<start>> \in Seq(Frames)
        BY <1>4
      <4> HIDE DEF e1, f
      <4>. QED
        BY <3>7, <3>8, <4>1, <4>2, <4>3, LeadsOn
    <3>10. RoomShown(e1, g, [room[g] EXCEPT !.status = "in_progress"], who)
      <4> DEFINE w == [game |-> g, status |-> "in_progress", who |-> who, ready |-> {}]
      <4>1. w \in Rooms /\ w # None /\ w.game = g /\ w.status = "in_progress" /\ w.who = who
        BY <1>1, StoreAssumption DEF Rooms, Statuses
      <4>2. e1.room = w
        BY <1>4, <3>7 DEF OnRoomState, Stores
      <4> HIDE DEF w, e1
      <4>3. [room[g] EXCEPT !.status = "in_progress"].status = "in_progress"
        BY <1>1 DEF GameRooms
      <4>. QED
        BY <4>1, <4>2, <4>3 DEF RoomShown
    <3>11. e1.score = e.score
      BY <3>7 DEF OnRoomState, Stores
    <3> HIDE DEF e1
    <3>12. Agrees(f, g, room'[g], who, you, pl, sock[i].up)
      <4> DEFINE r == [room[g] EXCEPT !.status = "in_progress"]
      <4>1. r.status = "in_progress"
        BY <1>1 DEF GameRooms
      <4>2. /\ room'[g].cur \in 1 .. NQ /\ room'[g].status = "in_progress" /\ room'[g].open
        BY <1>6, TicketFacts
      <4>3. pl => e1.score = you.score /\ ~you.used
        BY <3>6, <3>11
      <4>4. f = Handle(e1, Start(g, room'[g].cur))
        BY <1>6 DEF start
      <4>5. RoomShown(e1, g, r, who)
        BY <3>10
      <4> HIDE DEF r, f
      <4>. QED
        BY <3>5, <3>7, <4>1, <4>2, <4>3, <4>4, <4>5, AgreesNext
    <3> HIDE DEF f
    <3>13. ShowsNext(i, f)
      <4>1. Agrees(f, g, room'[g], who, you, pl, sock'[i].up)
        <5>1. Agrees(f, g, room'[g], who, you, pl, sk[i].up)
          BY <1>10, <3>12, ShowsTaken
        <5>. QED
          BY <1>5, <5>1
      <4>2. who = Seated(g) \cup room'[g].others
        BY <1>6 DEF who
      <4>. QED
        BY <2>3, <4>1, <4>2 DEF ShowsNext, you, pl
    <3>. QED
      BY <1>4, <3>1, <3>8, <3>9, <3>13
  <2>. QED
    BY <2>2, <2>3
<1>. QED
  BY <1>8, <1>9, <1>10, RoomFollows

\* What the connections of a room are told, each its own frames.
LEMMA ToldFits ==
  ASSUME IInv, NEW sk, Fits(sk, Len(issued)), SameDown(sk), NEW g, NEW n \in Nat,
         Reachable(g, n), NEW frames, DOMAIN frames = Members(g),
         \A i \in Members(g) : frames[i] \in Seq(Frames) /\ Len(frames[i]) <= n
  PROVE  \A i \in Sockets :
           /\ Tell(sk, frames)[i].st = sock[i].st /\ Tell(sk, frames)[i].ticket = sock[i].ticket
           /\ Tell(sk, frames)[i].up = sk[i].up
           /\ Tell(sk, frames)[i].down = IF i \in Members(g) THEN sock[i].down \o frames[i]
                                         ELSE sock[i].down
<1>1. ASSUME NEW i \in Sockets, i \in DOMAIN frames
      PROVE  frames[i] \in Seq(Frames) /\ Len(sk[i].down) + Len(frames[i]) <= MaxDown
  <2>1. i \in Members(g) /\ sk[i].down = sock[i].down
    BY <1>1 DEF SameDown
  <2>2. Len(sock[i].down) + n <= MaxDown /\ MaxDown \in Nat /\ sock[i].down \in Seq(Frames)
    BY <2>1, SockFits, LinkFields DEF IInv, Reachable
  <2>3. frames[i] \in Seq(Frames) /\ Len(frames[i]) \in Nat /\ Len(frames[i]) <= n
    BY <2>1, LenProperties
  <2>4. Len(sk[i].down) \in Nat /\ Len(sk[i].down) + n <= MaxDown
    BY <2>1, <2>2, LenProperties
  <2>5. \A a, b \in Nat : a + n <= MaxDown /\ b <= n => a + b <= MaxDown
    BY <2>2
  <2>. QED
    BY <2>3, <2>4, <2>5, Zenon
<1>2. \A i \in Sockets :
        /\ Tell(sk, frames)[i].st = sk[i].st /\ Tell(sk, frames)[i].ticket = sk[i].ticket
        /\ Tell(sk, frames)[i].up = sk[i].up
        /\ Tell(sk, frames)[i].down = IF i \in DOMAIN frames THEN sk[i].down \o frames[i]
                                      ELSE sk[i].down
  <2>1. Fits(sk, Len(issued))
    OBVIOUS
  <2>. QED
    BY ONLY <1>1, <2>1, TellFits
<1>. QED
  BY <1>2 DEF SameDown, SameEnds

\* The frames that end a question lead to an agreement on what it was worth.
LEMMA EndingLeads ==
  ASSUME IInv, NEW g \in Games, room[g].open, NEW seats, Answered(seats),
         \A t \in Tickets : seats[t].used = seat[t].used, NEW i \in Members(g),
         NEW e \in Stores, NEW who, NEW pl, NEW up,
         Agrees(e, g, room[g], who, seats[sock[i].ticket], pl, up),
         NEW q, q.status = room[g].status, q.cur = room[g].cur, ~q.open
  PROVE  /\ Counted(g, seats)[sock[i].ticket].used = seats[sock[i].ticket].used
         /\ \E f \in Stores : /\ Leads(e, Ending(g, seats, i), f)
                              /\ Agrees(f, g, q, who, Counted(g, seats)[sock[i].ticket], pl, up)
<1> DEFINE me == seats[sock[i].ticket]
           you == Counted(g, seats)[sock[i].ticket]
           end == [type |-> "question.end", question |-> <<g, room[g].cur>>,
                   right |-> Right(me.answer), score |-> you.score]
           board == [type |-> "leaderboard.update", question |-> <<g, room[g].cur>>,
                     score |-> you.score]
           d == Handle(e, end)
           f == Handle(d, board)
<1>1. i \in Sockets /\ Open(i) /\ sock[i].ticket \in Tickets
  BY OpenFacts DEF Members, IInv
<1>2. you.answer = me.answer /\ you.score \in Nat
  BY <1>1, CountedSeats, TicketFacts
<1>3. you.used = me.used
  <2>1. seats \in [Tickets -> Seats] /\ me \in Seats
    BY <1>1 DEF Answered
  <2>. QED
    BY <1>1, <2>1 DEF Counted, Seats
<1>4. Ending(g, seats, i) = <<end, board>>
  BY <1>2 DEF Ending, Asked
<1>5. room[g].cur \in 1 .. NQ
  <2>1. room[g].cur \in 0 .. NQ /\ room[g].cur > 0
    BY RoomFields
  <2>. QED
    BY <2>1, TicketFacts
<1>6. end \in Frames /\ board \in Frames
  <2>1. Right(me.answer) \in BOOLEAN
    BY DEF Right
  <2> HIDE DEF me, you
  <2>. QED
    BY <1>2, <1>5, <2>1, FrameTypes
<1>7. Agrees(f, g, q, who, you, pl, up)
  <2>1. Agrees(e, g, room[g], who, me, pl, up)
    OBVIOUS
  <2> HIDE DEF me, you
  <2>. QED
    BY <1>2, <1>3, <1>5, <2>1, AgreesClosed
<1> HIDE DEF end, board
<1>8. d \in Stores /\ f \in Stores /\ Leads(e, <<end>>, d) /\ Leads(d, <<board>>, f)
  BY <1>6, LeadsOne
<1>9. /\ <<end>> \o <<board>> = <<end, board>>
      /\ <<end>> \in Seq(Frames) /\ <<board>> \in Seq(Frames)
  BY <1>6, PairIsConcat
<1> HIDE DEF d, f
<1>10. Leads(e, <<end, board>>, f)
  BY <1>8, <1>9, LeadsOn
<1>. QED
  BY <1>3, <1>4, <1>7, <1>8, <1>10

\* A question ends with answers that the connections agree with.
LEMMA CloseFollows ==
  ASSUME IInv, FollowInv, UNCHANGED <<tabVars, linkVars, issued, spent>>,
         NEW sk, Fits(sk, Len(issued)), SameDown(sk), Taking(sk), NEW g \in Games,
         room[g].open, Reachable(g, 2), NEW seats, Answered(seats),
         \A t \in Tickets : /\ seats[t].used = seat[t].used
                            /\ role = "host" => seats[t] = seat[t],
         CloseQuestion(sk, g, seats),
         \A i \in Sockets : Current(i) =>
           \A e \in Stores : Leads(store, sock[i].down, e) /\ Shows(i, e, sock[i].up) =>
             Agrees(e, GameOf(i), room[GameOf(i)], Who(GameOf(i)), seats[sock[i].ticket],
                    role = "player", sk[i].up)
  PROVE  FollowInv'
<1> DEFINE frames == [i \in Members(g) |-> Ending(g, seats, i)]
<1>1. room \in [Games -> GameRooms]
  BY RoomFields
<1>2. /\ room' = [room EXCEPT ![g].open = FALSE]
      /\ seat' = Counted(g, seats)
      /\ sock' = Tell(sk, frames)
  BY DEF CloseQuestion
<1>3. /\ DOMAIN frames = Members(g)
      /\ \A i \in Members(g) : frames[i] = Ending(g, seats, i)
      /\ \A i \in Members(g) : frames[i] \in Seq(Frames) /\ Len(frames[i]) <= 2
  <2>1. \A i \in Members(g) : /\ Ending(g, seats, i) \in Seq(Frames)
                               /\ Len(Ending(g, seats, i)) = 2
    BY EndingFrames
  <2>2. \A x : Len(x) = 2 => Len(x) <= 2
    OBVIOUS
  <2>. QED
    BY <2>1, <2>2
<1> HIDE DEF frames
<1>4. \A i \in Sockets :
        /\ sock'[i].st = sock[i].st /\ sock'[i].ticket = sock[i].ticket
        /\ sock'[i].up = sk[i].up
        /\ sock'[i].down = IF i \in Members(g) THEN sock[i].down \o frames[i] ELSE sock[i].down
  BY <1>2, <1>3, ToldFits
<1>5. /\ room'[g].status = room[g].status /\ room'[g].cur = room[g].cur /\ ~room'[g].open
      /\ room'[g].others = room[g].others /\ \A h \in Games \ {g} : room'[h] = room[h]
  BY <1>1, <1>2 DEF GameRooms
<1>6. \A t \in Tickets : t \notin Seated(g) => seat'[t] = seats[t]
  BY <1>2, CountedSeats
<1>7. SameEnds(sock') /\ Taking(sock')
  BY <1>4 DEF SameEnds, Taking
<1>8. role = "host" => \A t \in Tickets : seat'[t] = seat[t]
  BY <1>6 DEF Seated
<1>9. ASSUME NEW i \in Sockets, Current(i), NEW e \in Stores, Leads(store, sock[i].down, e),
             Shows(i, e, sock[i].up)
      PROVE  \/ sock'[i].down = sock[i].down /\ ShowsNext(i, e)
             \/ \E d \in Seq(Frames), f \in Stores :
                  /\ sock'[i].down = sock[i].down \o d
                  /\ Leads(e, d, f) /\ ShowsNext(i, f)
  <2>1. Open(i) /\ GameOf(i) \in Games /\ sock[i].ticket \in Tickets
    BY <1>9, CurrentFacts
  <2>2. Agrees(e, GameOf(i), room[GameOf(i)], Who(GameOf(i)), seats[sock[i].ticket],
               role = "player", sock'[i].up)
    BY <1>4, <1>9
  <2>3. CASE GameOf(i) # g
    <3>1. sock'[i].down = sock[i].down
      BY <1>4, <2>1, <2>3, MemberSeat
    <3>2. seat'[sock[i].ticket] = seats[sock[i].ticket] /\ room'[GameOf(i)] = room[GameOf(i)]
      BY <1>5, <1>6, <2>1, <2>3, MemberSeat
    <3>3. ShowsNext(i, e)
      BY <2>2, <3>2 DEF ShowsNext, Who
    <3>. QED
      BY <3>1, <3>3
  <2>4. CASE GameOf(i) = g
    <3>1. i \in Members(g)
      BY <2>1, <2>4, MemberSeat
    <3>2. PICK f \in Stores :
            /\ Leads(e, Ending(g, seats, i), f)
            /\ Agrees(f, g, room'[g], Who(g), Counted(g, seats)[sock[i].ticket],
                      role = "player", sock'[i].up)
      BY <1>5, <2>2, <2>4, <3>1, EndingLeads
    <3>3. ShowsNext(i, f)
      BY <1>2, <1>5, <2>4, <3>2 DEF ShowsNext, Who
    <3>4. /\ Ending(g, seats, i) \in Seq(Frames)
          /\ sock'[i].down = sock[i].down \o Ending(g, seats, i)
      BY <1>3, <1>4, <3>1
    <3>. QED
      BY <3>2, <3>3, <3>4
  <2>. QED
    BY <2>3, <2>4
<1>. QED
  BY <1>7, <1>8, <1>9, RoomFollows

\* The next question, or the end.
LEMMA AdvanceFollows ==
  ASSUME IInv, FollowInv, UNCHANGED <<tabVars, linkVars, issued, spent>>,
         NEW sk, Fits(sk, Len(issued)), SameDown(sk), TakingClick(sk), NEW g \in Games,
         room[g].status = "in_progress", Advance(sk, g)
  PROVE  FollowInv'
<1> DEFINE last == room[g].cur = tab.questions
           next == IF last THEN [type |-> "game.finished", game |-> g]
                   ELSE Start(g, room[g].cur + 1)
           end(i) == IF room[g].open THEN Ending(g, seat, i) ELSE <<>>
           counted == IF room[g].open THEN Counted(g, seat) ELSE seat
           frames == [i \in Members(g) |-> Append(end(i), next)]
           q == [room[g] EXCEPT !.open = FALSE]
<1>1. /\ room \in [Games -> GameRooms] /\ seat \in [Tickets -> Seats]
      /\ room[g].cur \in 0 .. NQ /\ room[g].cur <= tab.questions
      /\ tab.questions \in 1 .. NQ /\ NQ \in Nat /\ role \in {"player", "host"}
  BY RoomFields, TicketFacts, ServerSame
<1>2. /\ Reachable(g, 3)
      /\ sock' = Tell(sk, frames)
      /\ room' = IF last THEN [room EXCEPT ![g].open = FALSE, ![g].status = "finished"]
                 ELSE [room EXCEPT ![g].open = TRUE, ![g].cur = @ + 1]
      /\ seat' = IF last THEN counted
                 ELSE [t \in Tickets |-> IF t \in Seated(g)
                                         THEN [counted[t] EXCEPT !.answer = None, !.used = FALSE]
                                         ELSE counted[t]]
  BY DEF Advance
<1>3. /\ counted \in [Tickets -> Seats]
      /\ \A t \in Tickets : t \notin Seated(g) => counted[t] = seat[t]
  <2>1. CASE room[g].open
    BY <2>1, SeatAnswered, CountedSeats
  <2>2. CASE ~room[g].open
    BY <1>1, <2>2
  <2>. QED
    BY <2>1, <2>2
<1>4. /\ next \in Frames
      /\ ~last => room[g].cur + 1 \in 1 .. NQ
  <2>1. CASE last
    BY <2>1, FrameTypes
  <2>2. CASE ~last
    <3>1. room[g].cur + 1 \in 1 .. NQ
      BY <1>1, <2>2
    <3>. QED
      BY <2>2, <3>1, FrameTypes
  <2>. QED
    BY <2>1, <2>2
<1>5. ASSUME NEW i \in Members(g)
      PROVE  end(i) \in Seq(Frames) /\ Len(end(i)) \in {0, 2}
  <2>1. CASE room[g].open
    BY <2>1, SeatAnswered, EndingFrames
  <2>2. CASE ~room[g].open
    BY <2>2
  <2>. QED
    BY <2>1, <2>2
<1>6. /\ DOMAIN frames = Members(g)
      /\ \A i \in Members(g) : frames[i] = Append(end(i), next)
  OBVIOUS
<1>7. /\ q.status = "in_progress" /\ q.cur = room[g].cur /\ q.open = FALSE
  BY <1>1 DEF GameRooms
<1>8. ASSUME NEW i \in Members(g), NEW e \in Stores, NEW pl, NEW up,
             Agrees(e, g, room[g], Who(g), seat[sock[i].ticket], pl, up)
      PROVE  \E f \in Stores : /\ Leads(e, end(i), f)
                               /\ Agrees(f, g, q, Who(g), counted[sock[i].ticket], pl, up)
  <2>1. CASE room[g].open
    <3>1. \E f \in Stores :
            /\ Leads(e, Ending(g, seat, i), f)
            /\ Agrees(f, g, q, Who(g), Counted(g, seat)[sock[i].ticket], pl, up)
      <4> HIDE DEF q
      <4>. QED
        BY <1>7, <1>8, <2>1, SeatAnswered, EndingLeads
    <3>. QED
      BY <2>1, <3>1
  <2>2. CASE ~room[g].open
    <3>1. q = room[g]
      BY <1>1, <2>2 DEF GameRooms
    <3>2. end(i) = <<>> /\ counted = seat
      BY <2>2
    <3>. QED
      BY <1>8, <3>1, <3>2, LeadsNowhere
  <2>. QED
    BY <2>1, <2>2
<1> HIDE DEF end, next, counted, frames, last, q
<1>9. ASSUME NEW i \in Members(g)
      PROVE  /\ frames[i] \in Seq(Frames) /\ Len(frames[i]) <= 3
             /\ frames[i] = end(i) \o <<next>>
  <2>1. frames[i] \in Seq(Frames) /\ Len(frames[i]) = Len(end(i)) + 1
    BY <1>4, <1>5, <1>6, AppendProperties
  <2>2. Len(end(i)) + 1 <= 3
    <3>1. CASE Len(end(i)) = 0
      BY <3>1
    <3>2. CASE Len(end(i)) = 2
      BY <3>2
    <3>. QED
      BY <1>5, <3>1, <3>2
  <2>. QED
    BY <1>4, <1>5, <1>6, <2>1, <2>2, AppendIsConcat
<1>10. \A i \in Sockets :
        /\ sock'[i].st = sock[i].st /\ sock'[i].ticket = sock[i].ticket
        /\ sock'[i].up = sk[i].up
        /\ sock'[i].down = IF i \in Members(g) THEN sock[i].down \o frames[i] ELSE sock[i].down
  <2>1. \A i \in Members(g) : frames[i] \in Seq(Frames) /\ Len(frames[i]) <= 3
    BY <1>9
  <2>2. /\ IInv /\ Fits(sk, Len(issued)) /\ SameDown(sk) /\ Reachable(g, 3) /\ 3 \in Nat
        /\ DOMAIN frames = Members(g)
    BY <1>2, <1>6
  <2>3. \A i \in Sockets :
          /\ Tell(sk, frames)[i].st = sock[i].st /\ Tell(sk, frames)[i].ticket = sock[i].ticket
          /\ Tell(sk, frames)[i].up = sk[i].up
          /\ Tell(sk, frames)[i].down = IF i \in Members(g) THEN sock[i].down \o frames[i]
                                        ELSE sock[i].down
    BY ONLY <2>1, <2>2, ToldFits
  <2>. QED
    BY <1>2, <2>3
<1>11. /\ room'[g].others = room[g].others /\ \A h \in Games \ {g} : room'[h] = room[h]
       /\ last => room'[g].status = "finished" /\ ~room'[g].open /\ room'[g].cur = room[g].cur
       /\ ~last => /\ room'[g].status = "in_progress" /\ room'[g].open
                   /\ room'[g].cur = room[g].cur + 1
  BY <1>1, <1>2 DEF GameRooms
<1>12. /\ \A t \in Tickets : t \notin Seated(g) => seat'[t] = seat[t]
       /\ last => seat' = counted
       /\ \A t \in Tickets : ~last /\ t \in Seated(g) =>
            /\ seat'[t].score = counted[t].score
            /\ seat'[t].answer = None /\ seat'[t].used = FALSE
  BY <1>2, <1>3 DEF Seats
<1>13. SameEnds(sock') /\ Taking(sock')
  BY <1>10 DEF SameEnds, Taking, TakingClick
<1>14. role = "host" => \A t \in Tickets : seat'[t] = seat[t]
  BY <1>12 DEF Seated
<1>15. ASSUME NEW i \in Sockets, Current(i), NEW e \in Stores, Leads(store, sock[i].down, e),
              Shows(i, e, sock[i].up)
       PROVE  \/ sock'[i].down = sock[i].down /\ ShowsNext(i, e)
              \/ \E d \in Seq(Frames), f \in Stores :
                   /\ sock'[i].down = sock[i].down \o d
                   /\ Leads(e, d, f) /\ ShowsNext(i, f)
  <2>1. Open(i) /\ GameOf(i) \in Games /\ sock[i].ticket \in Tickets
        /\ seat[sock[i].ticket] \in Seats
        /\ (role = "player" => sock[i].ticket \in Seated(GameOf(i)))
    BY <1>15, CurrentFacts
  <2>2. Shows(i, e, sock'[i].up)
    BY <1>10, <1>15, ShowsTaken DEF Shows
  <2>3. CASE GameOf(i) # g
    <3>1. ShowsNext(i, e)
      BY <1>11, <1>12, <1>15, <2>2, <2>3, ShowsElsewhere
    <3>. QED
      BY <1>10, <2>1, <2>3, <3>1, MemberSeat
  <2>4. CASE GameOf(i) = g
    <3> DEFINE t == sock[i].ticket
               pl == role = "player"
    <3>1. i \in Members(g)
      BY <2>1, <2>4, MemberSeat
    <3>2. PICK d \in Stores : /\ Leads(e, end(i), d)
                              /\ Agrees(d, g, q, Who(g), counted[t], pl, sock'[i].up)
      <4>1. Agrees(e, g, room[g], Who(g), seat[t], pl, sock'[i].up)
        BY <2>2, <2>4 DEF Shows
      <4>. QED
        BY <1>8, <3>1, <4>1
    <3> DEFINE f == Handle(d, next)
    <3>3. f \in Stores /\ Leads(e, frames[i], f)
      <4>1. f \in Stores /\ Leads(d, <<next>>, f) /\ <<next>> \in Seq(Frames)
        BY <1>4, LeadsOne
      <4>2. /\ end(i) \in Seq(Frames) /\ Leads(e, end(i), d)
            /\ frames[i] = end(i) \o <<next>>
        BY <1>5, <1>9, <3>1, <3>2
      <4> HIDE DEF f
      <4>3. Leads(e, end(i) \o <<next>>, f)
        BY <4>1, <4>2, LeadsOn
      <4>. QED
        BY <4>1, <4>2, <4>3
    <3>4. Agrees(f, g, room'[g], Who(g), seat'[t], pl, sock'[i].up)
      <4>1. CASE last
        <5>1. next = [type |-> "game.finished", game |-> g]
          BY <4>1 DEF next
        <5>2. seat'[t] = counted[t]
          BY <1>12, <4>1
        <5>3. Agrees(d, g, q, Who(g), counted[t], pl, sock'[i].up) /\ ~q.open
              /\ room'[g].status = "finished" /\ ~room'[g].open /\ room'[g].cur = q.cur
          BY <1>7, <1>11, <3>2, <4>1
        <5> HIDE DEF pl, t
        <5>4. Agrees(Handle(d, [type |-> "game.finished", game |-> g]), g, room'[g], Who(g),
                     counted[t], pl, sock'[i].up)
          BY <5>3, AgreesFinished
        <5>. QED
          BY <5>1, <5>2, <5>4
      <4>2. CASE ~last
        <5>1. next = Start(g, room'[g].cur) /\ room'[g].cur \in 1 .. NQ
          BY <1>4, <1>11, <4>2 DEF next
        <5>2. RoomShown(d, g, q, Who(g)) /\ (pl => d.score = counted[t].score)
          BY <3>2 DEF Agrees, SeatShown
        <5>3. /\ pl => d.score = seat'[t].score /\ ~seat'[t].used
              /\ seat'[t].answer = None
          <6>1. CASE role = "player"
            BY <1>12, <2>1, <2>4, <4>2, <5>2, <6>1
          <6>2. CASE role = "host"
            <7>1. seat'[t] = seat[t] /\ seat[t] = NewSeat
              BY <1>14, <2>1, <6>2 DEF FollowInv, Quiet, HostOnlyHosts
            <7>. QED
              BY <6>2, <7>1, NewSeatTyped
          <6>. QED
            BY <1>1, <6>1, <6>2
        <5>4. room'[g].status = "in_progress" /\ room'[g].open /\ q.status = "in_progress"
          BY <1>7, <1>11, <4>2
        <5> HIDE DEF pl, t
        <5>5. Agrees(Handle(d, Start(g, room'[g].cur)), g, room'[g], Who(g), seat'[t], pl,
                     sock'[i].up)
          BY <5>1, <5>2, <5>3, <5>4, AgreesNext
        <5>. QED
          BY <5>1, <5>5
      <4>. QED
        BY <4>1, <4>2
    <3>5. ShowsNext(i, f)
      BY <1>11, <2>4, <3>4 DEF ShowsNext, Who
    <3> HIDE DEF f
    <3>. QED
      BY <1>9, <1>10, <3>1, <3>3, <3>5
  <2>. QED
    BY <2>3, <2>4
<1>. QED
  BY <1>13, <1>14, <1>15, RoomFollows

\* Everyone in a room is told of somebody.
LEMMA NoticeFollows ==
  ASSUME IInv, FollowInv, UNCHANGED <<tabVars, linkVars, issued, spent, seat>>,
         NEW sk, Fits(sk, Len(issued)), SameDown(sk), TakingClick(sk), NEW g \in Games,
         Reachable(g, 1), NEW m \in Frames, sock' = TellAll(sk, g, <<m>>),
         \A h \in Games \ {g} : room'[h] = room[h],
         \A e \in Stores : \A me, pl, up :
           Agrees(e, g, room[g], Who(g), me, pl, up) =>
             Agrees(Handle(e, m), g, room'[g], Seated(g) \cup room'[g].others, me, pl, up)
  PROVE  FollowInv'
<1>1. \A i \in Sockets :
        /\ sock'[i].st = sock[i].st /\ sock'[i].ticket = sock[i].ticket
        /\ sock'[i].up = sk[i].up
        /\ sock'[i].down = IF i \in Members(g) THEN sock[i].down \o <<m>> ELSE sock[i].down
  <2>1. \A j \in Sockets :
          /\ TellAll(sk, g, <<m>>)[j].st = sock[j].st
          /\ TellAll(sk, g, <<m>>)[j].ticket = sock[j].ticket
          /\ TellAll(sk, g, <<m>>)[j].up = sk[j].up
          /\ TellAll(sk, g, <<m>>)[j].down =
               IF j \in Members(g) THEN sock[j].down \o <<m>> ELSE sock[j].down
    BY NoticeFits
  <2>. QED
    BY <2>1
<1>2. SameEnds(sock') /\ Taking(sock')
  BY <1>1 DEF SameEnds, Taking, TakingClick
<1>3. ASSUME NEW i \in Sockets, Current(i), NEW e \in Stores, Leads(store, sock[i].down, e),
             Shows(i, e, sock[i].up)
      PROVE  \/ sock'[i].down = sock[i].down /\ ShowsNext(i, e)
             \/ \E d \in Seq(Frames), f \in Stores :
                  /\ sock'[i].down = sock[i].down \o d
                  /\ Leads(e, d, f) /\ ShowsNext(i, f)
  <2>1. Open(i)
    BY <1>3 DEF Current
  <2>2. Shows(i, e, sock'[i].up)
    BY <1>1, <1>3, ShowsTaken DEF Shows
  <2>3. CASE GameOf(i) # g
    <3>1. ShowsNext(i, e)
      BY <1>3, <2>2, <2>3, ShowsElsewhere
    <3>. QED
      BY <1>1, <2>1, <2>3, <3>1, MemberSeat
  <2>4. CASE GameOf(i) = g
    <3>1. sock'[i].down = sock[i].down \o <<m>>
      BY <1>1, <2>1, <2>4, MemberSeat
    <3>2. Handle(e, m) \in Stores /\ Leads(e, <<m>>, Handle(e, m)) /\ <<m>> \in Seq(Frames)
      BY LeadsOne
    <3>3. Agrees(e, g, room[g], Who(g), seat[sock[i].ticket], role = "player", sock'[i].up)
      BY <2>2, <2>4 DEF Shows
    <3>4. ShowsNext(i, Handle(e, m))
      BY <2>4, <3>3 DEF ShowsNext
    <3>. QED
      BY <3>1, <3>2, <3>4
  <2>. QED
    BY <2>3, <2>4
<1>. QED
  BY <1>2, <1>3, RoomFollows

\* Somebody comes, goes or is ready, and the rooms' questions are as they were.
LEMMA SomebodyFollows ==
  ASSUME IInv, FollowInv, UNCHANGED <<tabVars, linkVars, issued, spent, seat>>,
         NEW sk, Fits(sk, Len(issued)), SameDown(sk), TakingClick(sk), NEW g \in Games,
         Reachable(g, 1), NEW p \in People, NEW type, sock' = TellAll(sk, g, <<About(type, p)>>),
         \A h \in Games \ {g} : room'[h] = room[h], SameRoom(room[g], room'[g]),
         \/ /\ type = "participant.joined"
            /\ Seated(g) \cup room'[g].others = Who(g) \cup {p}
         \/ /\ type = "participant.left"
            /\ Seated(g) \cup room'[g].others = Who(g) \ {p}
         \/ /\ type = "participant.status"
            /\ Seated(g) \cup room'[g].others = Who(g)
  PROVE  FollowInv'
<1> DEFINE m == About(type, p)
<1>1. m \in Frames
  BY NoticeFrames
<1>2. Who(g) \in SUBSET People
  BY RoomFields DEF Who
<1>3. ASSUME NEW e \in Stores, NEW me, NEW pl, NEW up, Agrees(e, g, room[g], Who(g), me, pl, up)
      PROVE  Agrees(Handle(e, m), g, room'[g], Seated(g) \cup room'[g].others, me, pl, up)
  <2>1. /\ Agrees(Handle(e, About("participant.joined", p)), g, room'[g], Who(g) \cup {p}, me, pl, up)
        /\ Agrees(Handle(e, About("participant.left", p)), g, room'[g], Who(g) \ {p}, me, pl, up)
        /\ Agrees(Handle(e, About("participant.status", p)), g, room'[g], Who(g), me, pl, up)
    BY <1>2, <1>3, AgreesNotice
  <2>. QED
    BY <2>1
<1> HIDE DEF m
<1>4. sock' = TellAll(sk, g, <<m>>)
  BY DEF m
<1>. QED
  BY <1>1, <1>3, <1>4, NoticeFollows

\* A message is taken from connection i, and only i and its seat are concerned.
LEMMA AloneFollows ==
  ASSUME IInv, FollowInv, UNCHANGED <<tabVars, linkVars, issued, spent, room>>,
         NEW i \in Sockets, Open(i), sock[i].up # <<>>, SameEnds(sock'),
         sock'[i].up = Tail(sock[i].up), \A j \in Sockets \ {i} : sock'[j] = sock[j],
         \A t \in Tickets : t # sock[i].ticket \/ role = "host" => seat'[t] = seat[t],
         \A e \in Stores :
           Current(i) /\ Leads(store, sock[i].down, e) /\ Shows(i, e, sock[i].up) =>
             \/ sock'[i].down = sock[i].down /\ ShowsNext(i, e)
             \/ \E fs \in Seq(Frames), f \in Stores :
                  /\ sock'[i].down = sock[i].down \o fs
                  /\ Leads(e, fs, f) /\ ShowsNext(i, f)
  PROVE  FollowInv'
<1>1. Taking(sock')
  BY DEF Taking
<1>2. ASSUME NEW j \in Sockets \ {i}, Current(j), NEW e, Shows(j, e, sock[j].up)
      PROVE  sock'[j].down = sock[j].down /\ ShowsNext(j, e)
  <2>1. sock[j].ticket \in Tickets /\ sock[j].ticket # sock[i].ticket
    BY <1>2, CurrentFacts DEF IInv, TabInv, OneEach
  <2>. QED
    BY <1>2, <2>1 DEF Shows, ShowsNext, Who
<1>. QED
  BY <1>1, <1>2, RoomFollows

\* What is left of i's queue, and what i is told.
LEMMA ReplyUps ==
  ASSUME IInv, NEW i \in Sockets, sock[i].up # <<>>
  PROVE  /\ Took(i)[i].up = Tail(sock[i].up) /\ \A j \in Sockets \ {i} : Took(i)[j] = sock[j]
         /\ \A m : sock' = [Took(i) EXCEPT ![i].down = Append(@, m)] =>
              sock'[i].up = Tail(sock[i].up) /\ \A j \in Sockets \ {i} : sock'[j] = sock[j]
<1>1. sock \in [Sockets -> Links] /\ Took(i) \in [Sockets -> Links]
  BY SockFits, TookFits DEF Fits, IInv
<1>2. Took(i)[i].up = Tail(sock[i].up) /\ \A j \in Sockets \ {i} : Took(i)[j] = sock[j]
  BY <1>1 DEF Took, Links
<1>3. ASSUME NEW m, sock' = [Took(i) EXCEPT ![i].down = Append(@, m)]
      PROVE  sock'[i].up = Tail(sock[i].up) /\ \A j \in Sockets \ {i} : sock'[j] = sock[j]
  BY <1>1, <1>2, <1>3 DEF Links
<1>. QED
  BY <1>2, <1>3

\* The room refuses what it was sent.
LEMMA ReplyErrorFollows ==
  ASSUME IInv, FollowInv, UNCHANGED <<tabVars, linkVars, issued, spent>>,
         NEW i \in Sockets, Open(i), sock[i].up # <<>>, Reachable(GameOf(i), 1), ReplyError(i),
         /\ IsSubmit(Head(sock[i].up)) /\ room[GameOf(i)].open
         /\ seat[sock[i].ticket].answer = None
         => Head(sock[i].up).option[1] # Asked(GameOf(i))
  PROVE  FollowInv'
<1> DEFINE m == [type |-> "error"]
           g == GameOf(i)
<1>1. sock' = [Took(i) EXCEPT ![i].down = Append(@, m)] /\ UNCHANGED <<room, seat>>
  BY DEF ReplyError
<1>2. m \in Frames
  BY DEF Frames
<1>3. /\ SameEnds(sock') /\ sock'[i].down = sock[i].down \o <<m>>
      /\ sock'[i].up = Tail(sock[i].up) /\ \A j \in Sockets \ {i} : sock'[j] = sock[j]
  BY <1>1, <1>2, ReplyFits, ReplyUps
<1>4. ASSUME NEW e \in Stores, Current(i), Shows(i, e, sock[i].up)
      PROVE  \E f \in Stores : Leads(e, <<m>>, f) /\ ShowsNext(i, f)
  <2>1. Handle(e, m) \in Stores /\ Leads(e, <<m>>, Handle(e, m))
    BY <1>2, LeadsOne
  <2>2. Agrees(e, g, room[g], Who(g), seat[sock[i].ticket], role = "player", sock[i].up)
        /\ sock[i].up \in Seq(Ups)
    BY <1>4, CurrentFacts DEF Shows
  <2> HIDE DEF g
  <2>3. Agrees(e, g, room[g], Who(g), seat[sock[i].ticket], role = "player", Tail(sock[i].up))
    BY <2>2, AgreesTaken DEF Asked, g
  <2>4. Agrees(Handle(e, m), g, room[g], Who(g), seat[sock[i].ticket], role = "player",
               Tail(sock[i].up))
    BY <2>3, AgreesError
  <2>5. ShowsNext(i, Handle(e, m))
    BY <1>1, <1>3, <2>4 DEF ShowsNext, Who, g
  <2>. QED
    BY <2>1, <2>5
<1>5. <<m>> \in Seq(Frames)
  BY <1>2
<1> HIDE DEF m
<1>6. \A e \in Stores :
        Current(i) /\ Leads(store, sock[i].down, e) /\ Shows(i, e, sock[i].up) =>
          \E fs \in Seq(Frames), f \in Stores :
            /\ sock'[i].down = sock[i].down \o fs
            /\ Leads(e, fs, f) /\ ShowsNext(i, f)
  BY <1>3, <1>4, <1>5
<1>. QED
  BY <1>1, <1>3, <1>6, AloneFollows

\* An answer to the open question that reaches the room is the choice that the tab shows
\* and will show.
LEMMA AnswerIsShown ==
  ASSUME IInv, FollowInv, NEW i \in Sockets, Current(i), sock[i].up # <<>>,
         IsSubmit(Head(sock[i].up)), NEW o \in Options, o = Head(sock[i].up).option,
         room[GameOf(i)].open, o[1] = Asked(GameOf(i)), NEW e, Leads(store, sock[i].down, e)
  PROVE  e.answer = o
<1> DEFINE g == GameOf(i)
           cur == room[g].cur
<1>1. /\ Open(i) /\ g \in Games /\ sock[i].up \in Seq(Ups) /\ sock[i].down \in Seq(Frames)
      /\ store \in Stores
  BY CurrentFacts
<1>2. cur \in 0 .. NQ /\ cur > 0 /\ NQ \in Nat /\ Seen(i) \in Nat /\ Seen(i) <= cur
  BY <1>1, RoomFields, SeenFacts, TicketFacts
<1>3. AnswersOf(i)
  BY DEF FollowInv
<1>4. 1 \in DOMAIN sock[i].up /\ sock[i].up[1] = Head(sock[i].up)
  BY <1>1, HeadTailProperties, EmptySeq, LenProperties
<1>5. o[1][2] <= Seen(i) /\ (o[1] = store.question => o = store.answer)
  BY <1>3, <1>4 DEF AnswersOf
<1>6. o[1] = <<g, cur>>
  BY DEF Asked
<1> HIDE DEF g, cur
<1>7. Seen(i) = cur
  BY <1>2, <1>5, <1>6
<1>8. /\ Heard(i) /\ store.question[2] = cur
  BY <1>2, <1>7 DEF Seen
<1>9. store.question = o[1]
  <2>1. store.question \in Questions /\ store.question[1] = g
    BY <1>1, <1>8 DEF IInv, HeardInv, StartsInv, Heard, Stores, g
  <2>. QED
    BY <1>6, <1>8, <2>1 DEF Questions
<1>10. \A k \in DOMAIN sock[i].down : ~IsStart(sock[i].down[k])
  <2> SUFFICES ASSUME NEW k \in DOMAIN sock[i].down, IsStart(sock[i].down[k]) PROVE FALSE
    OBVIOUS
  <2>1. Seen(i) < sock[i].down[k].question[2] /\ sock[i].down[k].question[2] <= cur
    BY <1>1 DEF IInv, HeardInv, StartsInv, InOrder, g, cur
  <2>2. sock[i].down[k].question[2] \in 1 .. NQ
    BY <1>1, StartIndex
  <2>. QED
    BY <1>2, <1>7, <2>1, <2>2
<1>11. e.answer = store.answer
  BY <1>10 DEF Leads, Ties
<1>. QED
  BY <1>5, <1>9, <1>11

\* An answer arrives.
LEMMA TakeAnswerFollows ==
  ASSUME IInv, FollowInv, UNCHANGED <<tabVars, linkVars, issued, spent>>,
         NEW i \in Sockets, Open(i), sock[i].up # <<>>, IsSubmit(Head(sock[i].up)),
         NEW o \in Options, o = Head(sock[i].up).option, TakeAnswer(i, o)
  PROVE  FollowInv'
<1> DEFINE g == GameOf(i)
           t == sock[i].ticket
           seats == [seat EXCEPT ![t].answer = o]
<1>1. g \in Games /\ t \in Tickets /\ t \in spent /\ i \in Members(g)
      /\ sock[i].up \in Seq(Ups)
  BY OpenFacts, SockFits, LinkFields DEF IInv
<1>2. Fits(Took(i), Len(issued)) /\ SameDown(Took(i))
  BY TookFits DEF IInv
<1>3. role = "player"
  <2>1. role # "host"
    <3>1. 1 \in DOMAIN sock[i].up /\ sock[i].up[1] = Head(sock[i].up)
      BY <1>1, HeadTailProperties, EmptySeq, LenProperties
    <3>2. Plays(sock[i].up[1])
      BY <3>1 DEF Plays, IsSubmit
    <3>. QED
      BY <3>1, <3>2 DEF FollowInv, Quiet, HostOnlyHosts
  <2>. QED
    BY <2>1, ServerSame
<1>4. CASE ~AnswerCounts(g, t, o)
  <2>1. Reachable(g, 1) /\ ReplyError(i)
    BY <1>4 DEF TakeAnswer
  <2>2. room[g].open /\ seat[t].answer = None => o[1] # Asked(g)
    BY <1>4 DEF AnswerCounts
  <2>. QED
    BY <2>1, <2>2, ReplyErrorFollows
<1>5. CASE AnswerCounts(g, t, o)
  <2>1. room[g].open /\ o[1] = Asked(g) /\ seat[t].answer = None
    BY <1>5 DEF AnswerCounts
  <2>2. /\ seats \in [Tickets -> Seats] /\ seats[t].answer = o
        /\ seats[t].score = seat[t].score /\ seats[t].used = seat[t].used
        /\ \A u \in Tickets : u # t => seats[u] = seat[u]
    <3>1. seat \in [Tickets -> Seats]
      BY ServerSame
    <3>. QED
      BY <1>1, <3>1 DEF Seats
  <2>3. \/ seat' = seats /\ sock' = Took(i) /\ UNCHANGED room
        \/ Reachable(g, 2) /\ CloseQuestion(Took(i), g, seats)
    BY <1>5 DEF TakeAnswer
  <2> HIDE DEF seats
  <2>4. Answered(seats)
    <3>1. Answered(seat)
      BY SeatAnswered
    <3>2. ASSUME NEW h \in Games, NEW u \in Seated(h), seats[u].answer # None
          PROVE  seats[u].answer[1] = Asked(h)
      <4>1. u \in Tickets /\ (seat[u].answer # None => seat[u].answer[1] = Asked(h))
        BY SeatedSeat
      <4>2. CASE u = t
        <5>1. issued[t] = h
          BY <4>2, SeatedFacts DEF IInv
        <5>. QED
          BY <2>1, <2>2, <4>2, <5>1 DEF GameOf
      <4>3. CASE u # t
        BY <2>2, <3>2, <4>1, <4>3
      <4>. QED
        BY <4>2, <4>3
    <3>. QED
      BY <1>1, <2>2, <3>1, <3>2 DEF Answered
  <2>5. ASSUME NEW e \in Stores, Current(i), Leads(store, sock[i].down, e),
               Shows(i, e, sock[i].up), NEW rest
        PROVE  Agrees(e, g, room[g], Who(g), seats[t], role = "player", rest)
    <3>1. e.answer = o /\ o # None
      BY <2>1, <2>5, AnswerIsShown, StoreAssumption
    <3>2. Agrees(e, g, room[g], Who(g), seat[t], role = "player", sock[i].up)
      BY <2>5 DEF Shows
    <3> HIDE DEF g, t
    <3>. QED
      BY <2>1, <2>2, <3>1, <3>2, AgreesAnswered
  <2>6. /\ Took(i)[i].up = Tail(sock[i].up) /\ \A j \in Sockets \ {i} : Took(i)[j] = sock[j]
    BY ReplyUps
  <2>7. CASE seat' = seats /\ sock' = Took(i) /\ UNCHANGED room
    <3>1. /\ SameEnds(sock') /\ sock'[i].up = Tail(sock[i].up)
          /\ sock'[i].down = sock[i].down /\ \A j \in Sockets \ {i} : sock'[j] = sock[j]
      BY <1>2, <2>6, <2>7 DEF SameDown
    <3>2. \A u \in Tickets : u # t \/ role = "host" => seat'[u] = seat[u]
      BY <1>3, <2>2, <2>7
    <3>3. ASSUME NEW e \in Stores, Current(i), Leads(store, sock[i].down, e),
                 Shows(i, e, sock[i].up)
          PROVE  sock'[i].down = sock[i].down /\ ShowsNext(i, e)
      <4>1. Agrees(e, g, room[g], Who(g), seats[t], role = "player", sock'[i].up)
        BY <2>5, <3>3
      <4>. QED
        BY <2>7, <3>1, <4>1 DEF ShowsNext, Who
    <3> HIDE DEF g
    <3>. QED
      BY <2>7, <3>1, <3>2, <3>3, AloneFollows
  <2>8. CASE Reachable(g, 2) /\ CloseQuestion(Took(i), g, seats)
    <3>1. Taking(Took(i))
      BY <2>6 DEF Taking
    <3>2. \A u \in Tickets : /\ seats[u].used = seat[u].used
                             /\ role = "host" => seats[u] = seat[u]
      BY <1>3, <2>2
    <3>3. ASSUME NEW j \in Sockets, Current(j), NEW e \in Stores,
                 Leads(store, sock[j].down, e), Shows(j, e, sock[j].up)
          PROVE  Agrees(e, GameOf(j), room[GameOf(j)], Who(GameOf(j)), seats[sock[j].ticket],
                        role = "player", Took(i)[j].up)
      <4>1. CASE j = i
        BY <2>5, <3>3, <4>1
      <4>2. CASE j # i
        <5>1. sock[j].ticket \in Tickets /\ sock[j].ticket # t
          BY <3>3, <4>2, CurrentFacts DEF IInv, TabInv, OneEach
        <5>. QED
          BY <2>2, <2>6, <3>3, <4>2, <5>1 DEF Shows
      <4>. QED
        BY <4>1, <4>2
    <3>4. Fits(Took(i), Len(issued)) /\ SameDown(Took(i)) /\ room[g].open
      BY <1>2, <2>1
    <3> HIDE DEF g
    <3>. QED
      BY <1>1, <2>4, <2>8, <3>1, <3>2, <3>3, <3>4, CloseFollows
  <2>. QED
    BY <2>3, <2>7, <2>8
<1>. QED
  BY <1>4, <1>5

\* The power-up is asked for.
LEMMA TakePowerupFollows ==
  ASSUME IInv, FollowInv, UNCHANGED <<tabVars, linkVars, issued, spent>>,
         NEW i \in Sockets, Open(i), sock[i].up # <<>>, Head(sock[i].up).type = "powerup.use",
         TakePowerup(i)
  PROVE  FollowInv'
<1> DEFINE g == GameOf(i)
           t == sock[i].ticket
<1>1. g \in Games /\ t \in Tickets /\ sock[i].up \in Seq(Ups)
  BY OpenFacts, SockFits, LinkFields DEF IInv
<1>2. Reachable(g, 1) /\ ~IsSubmit(Head(sock[i].up))
  BY DEF TakePowerup, IsSubmit
<1>3. role = "player"
  <2>1. role # "host"
    <3>1. 1 \in DOMAIN sock[i].up /\ sock[i].up[1] = Head(sock[i].up)
      BY <1>1, HeadTailProperties, EmptySeq, LenProperties
    <3>2. Plays(sock[i].up[1])
      BY <3>1 DEF Plays
    <3>. QED
      BY <3>1, <3>2 DEF FollowInv, Quiet, HostOnlyHosts
  <2>. QED
    BY <2>1, ServerSame
<1>4. CASE room[g].open /\ seat[t].left = 1 /\ ~seat[t].used
  <2> DEFINE m == [type |-> "powerup.applied", hidden |-> {<<<<g, room[g].cur>>, "wrong">>}]
  <2>1. /\ seat' = [seat EXCEPT ![t].left = 0, ![t].used = TRUE]
        /\ sock' = [Took(i) EXCEPT ![i].down = Append(@, m)]
        /\ UNCHANGED room
    BY <1>4 DEF TakePowerup, Asked
  <2>2. room[g].cur \in 1 .. NQ /\ room[g].status # "lobby"
    <3>1. room[g].cur \in 0 .. NQ /\ room[g].cur > 0
      BY <1>1, <1>4, RoomFields
    <3>2. room[g].status # "lobby"
      BY <1>1, <1>4 DEF IInv, RoomInv
    <3>. QED
      BY <3>1, <3>2, TicketFacts
  <2>3. m \in Frames
    <3>1. {<<<<g, room[g].cur>>, "wrong">>} \in SUBSET Options
      BY <1>1, <2>2 DEF Options, Questions, Indexes
    <3>. QED
      BY <1>1, <3>1, FrameTypes
  <2>4. /\ SameEnds(sock') /\ sock'[i].down = sock[i].down \o <<m>>
        /\ sock'[i].up = Tail(sock[i].up) /\ \A j \in Sockets \ {i} : sock'[j] = sock[j]
    <3> HIDE DEF m
    <3>. QED
      BY <1>2, <2>1, <2>3, ReplyFits, ReplyUps
  <2>5. /\ seat'[t].answer = seat[t].answer /\ seat'[t].score = seat[t].score /\ seat'[t].used
        /\ \A u \in Tickets : u # t => seat'[u] = seat[u]
    <3>1. seat \in [Tickets -> Seats]
      BY ServerSame
    <3>. QED
      BY <1>1, <2>1, <3>1 DEF Seats
  <2>6. ASSUME NEW e \in Stores, Current(i), Shows(i, e, sock[i].up)
        PROVE  \E f \in Stores : Leads(e, <<m>>, f) /\ ShowsNext(i, f)
    <3>1. Handle(e, m) \in Stores /\ Leads(e, <<m>>, Handle(e, m))
      BY <2>3, LeadsOne
    <3>2. Agrees(e, g, room[g], Who(g), seat[t], role = "player", sock[i].up)
      BY <2>6 DEF Shows
    <3> HIDE DEF g, t
    <3>3. Agrees(e, g, room[g], Who(g), seat[t], role = "player", Tail(sock[i].up))
      BY <1>1, <1>2, <3>2, AgreesTaken
    <3>4. Agrees(Handle(e, m), g, room[g], Who(g), seat'[t], role = "player", Tail(sock[i].up))
      BY <1>1, <1>4, <2>2, <2>5, <3>3, AgreesPowerup
    <3>5. ShowsNext(i, Handle(e, m))
      BY <2>1, <2>4, <3>4 DEF ShowsNext, Who, g, t
    <3>. QED
      BY <3>1, <3>5
  <2>7. <<m>> \in Seq(Frames)
    BY <2>3
  <2> HIDE DEF m
  <2>8. \A e \in Stores :
          Current(i) /\ Leads(store, sock[i].down, e) /\ Shows(i, e, sock[i].up) =>
            \E fs \in Seq(Frames), f \in Stores :
              /\ sock'[i].down = sock[i].down \o fs
              /\ Leads(e, fs, f) /\ ShowsNext(i, f)
    BY <2>4, <2>6, <2>7
  <2>9. \A u \in Tickets : u # t \/ role = "host" => seat'[u] = seat[u]
    BY <1>3, <2>5
  <2>. QED
    BY <2>1, <2>4, <2>8, <2>9, AloneFollows
<1>5. CASE ~(room[g].open /\ seat[t].left = 1 /\ ~seat[t].used)
  <2>1. ReplyError(i)
    BY <1>5 DEF TakePowerup
  <2>. QED
    BY <1>2, <2>1, ReplyErrorFollows
<1>. QED
  BY <1>4, <1>5

\* A message from the tab, whatever it is.
LEMMA ReceiveFollows ==
  ASSUME IInv, FollowInv, NEW i \in Sockets, Receive(i)
  PROVE  FollowInv'
<1> DEFINE m == Head(sock[i].up)
           g == GameOf(i)
<1>1. Open(i) /\ sock[i].up # <<>> /\ UNCHANGED <<tabVars, linkVars, issued, spent>>
  BY DEF Receive
<1>2. /\ g \in Games /\ sock[i].ticket \in Tickets /\ m \in Ups
      /\ Fits(Took(i), Len(issued)) /\ SameDown(Took(i))
  BY <1>1, OpenFacts, TookFits DEF IInv
<1>3. m.type # "answer.submit" => TakingClick(Took(i))
  <2>1. Took(i)[i].up = Tail(sock[i].up) /\ \A j \in Sockets \ {i} : Took(i)[j] = sock[j]
    BY <1>1, ReplyUps
  <2>. QED
    BY <1>1, <2>1 DEF TakingClick, IsSubmit
<1>4. CASE m.type = "participant.ready"
  <2> DEFINE p == sock[i].ticket
  <2>1. /\ Reachable(g, 1) /\ UNCHANGED <<room, seat>>
        /\ sock' = TellAll(Took(i), g, <<About("participant.status", p)>>)
    BY <1>4 DEF Receive
  <2>2. p \in People
    BY <1>2, TicketFacts
  <2>3. SameRoom(room[g], room'[g]) /\ Seated(g) \cup room'[g].others = Who(g)
    BY <2>1 DEF SameRoom, Who
  <2>4. \A h \in Games \ {g} : room'[h] = room[h]
    BY <2>1
  <2> HIDE DEF p, g
  <2>. QED
    BY <1>1, <1>2, <1>3, <1>4, <2>1, <2>2, <2>3, <2>4, SomebodyFollows
<1>5. CASE m.type = "answer.submit"
  <2>1. TakeAnswer(i, m.option) /\ m.option \in Options /\ IsSubmit(m)
    BY <1>2, <1>5 DEF Receive, Ups, IsSubmit
  <2>. QED
    BY <1>1, <2>1, TakeAnswerFollows
<1>6. CASE m.type = "powerup.use"
  <2>1. TakePowerup(i)
    BY <1>6 DEF Receive
  <2>. QED
    BY <1>1, <1>6, <2>1, TakePowerupFollows
<1>7. CASE m.type \in {"host.start_game", "host.next_question", "host.skip_question"}
  <2>1. \/ room[g].status = "lobby" /\ StartGame(Took(i), g)
        \/ room[g].status = "in_progress" /\ Advance(Took(i), g)
        \/ Reachable(g, 1) /\ ReplyError(i)
    BY <1>7 DEF Receive
  <2>2. TakingClick(Took(i)) /\ ~IsSubmit(m)
    BY <1>3, <1>7 DEF IsSubmit
  <2>3. CASE room[g].status = "lobby" /\ StartGame(Took(i), g)
    BY <1>1, <1>2, <2>2, <2>3, StartGameFollows
  <2>4. CASE room[g].status = "in_progress" /\ Advance(Took(i), g)
    BY <1>1, <1>2, <2>2, <2>4, AdvanceFollows
  <2>5. CASE Reachable(g, 1) /\ ReplyError(i)
    BY <1>1, <2>2, <2>5, ReplyErrorFollows
  <2>. QED
    BY <2>1, <2>3, <2>4, <2>5
<1>8. m.type \in {"participant.ready", "powerup.use", "host.start_game",
                  "host.next_question", "host.skip_question", "answer.submit"}
  BY <1>2 DEF Ups
<1>. QED
  BY <1>4, <1>5, <1>6, <1>7, <1>8

\* The other host, the clock and the other people.
LEMMA OthersFollow ==
  ASSUME IInv, FollowInv, NEW g \in Games,
         \/ RemoteHost(g) \/ QuestionCloses(g)
         \/ \E p \in Others : OtherJoins(g, p) \/ OtherLeaves(g, p)
  PROVE  FollowInv'
<1>1. Fits(sock, Len(issued)) /\ SameDown(sock) /\ TakingClick(sock) /\ Taking(sock)
  BY SockSame DEF TakingClick, Taking
<1>2. CASE RemoteHost(g)
  <2>1. UNCHANGED <<tabVars, linkVars, issued, spent>>
    BY <1>2 DEF RemoteHost
  <2>2. CASE room[g].status = "lobby" /\ StartGame(sock, g)
    BY <1>1, <2>1, <2>2, StartGameFollows
  <2>3. CASE room[g].status = "in_progress" /\ Advance(sock, g)
    BY <1>1, <2>1, <2>3, AdvanceFollows
  <2>. QED
    BY <1>2, <2>2, <2>3 DEF RemoteHost
<1>3. CASE QuestionCloses(g)
  <2>1. /\ room[g].open /\ Reachable(g, 2) /\ CloseQuestion(sock, g, seat)
        /\ UNCHANGED <<tabVars, linkVars, issued, spent>>
    BY <1>3 DEF QuestionCloses
  <2>2. \A i \in Sockets : Current(i) =>
           \A e \in Stores : Leads(store, sock[i].down, e) /\ Shows(i, e, sock[i].up) =>
             Agrees(e, GameOf(i), room[GameOf(i)], Who(GameOf(i)), seat[sock[i].ticket],
                    role = "player", sock[i].up)
    BY DEF Shows
  <2>. QED
    BY <1>1, <2>1, <2>2, SeatAnswered, CloseFollows
<1>4. tab \in Setups /\ room \in [Games -> GameRooms]
  BY ServerSame, RoomFields DEF TabTypeOK
<1>5. ASSUME NEW p \in Others, OtherJoins(g, p) PROVE FollowInv'
  <2>1. /\ Reachable(g, 1) /\ room' = [room EXCEPT ![g].others = @ \cup {p}]
        /\ sock' = TellAll(sock, g, <<About("participant.joined", p)>>)
        /\ UNCHANGED <<tabVars, linkVars, issued, spent, seat>>
    BY <1>5 DEF OtherJoins
  <2>2. p \in People
    BY RoomFields
  <2>3. /\ SameRoom(room[g], room'[g]) /\ room'[g].others = room[g].others \cup {p}
        /\ \A h \in Games \ {g} : room'[h] = room[h]
    BY <1>4, <2>1 DEF GameRooms, SameRoom
  <2>4. Seated(g) \cup room'[g].others = Who(g) \cup {p}
    BY <2>3 DEF Who
  <2>. QED
    BY <1>1, <2>1, <2>2, <2>3, <2>4, SomebodyFollows
<1>6. ASSUME NEW p \in Others, OtherLeaves(g, p) PROVE FollowInv'
  <2>1. /\ Reachable(g, 1) /\ room' = [room EXCEPT ![g].others = @ \ {p}]
        /\ sock' = TellAll(sock, g, <<About("participant.left", p)>>)
        /\ UNCHANGED <<tabVars, linkVars, issued, spent, seat>>
    BY <1>6 DEF OtherLeaves
  <2>2. p \in People
    BY RoomFields
  <2>3. /\ SameRoom(room[g], room'[g]) /\ room'[g].others = room[g].others \ {p}
        /\ \A h \in Games \ {g} : room'[h] = room[h]
    BY <1>4, <2>1 DEF GameRooms, SameRoom
  <2>4. p \notin Seated(g)
    <3>1. p \notin Tickets
      BY <1>4, ClientAssumption DEF Others
    <3>. QED
      BY <3>1, SeatedFacts DEF IInv
  <2>5. Seated(g) \cup room'[g].others = Who(g) \ {p}
    BY <2>3, <2>4 DEF Who
  <2>. QED
    BY <1>1, <2>1, <2>2, <2>3, <2>5, SomebodyFollows
<1>. QED
  BY <1>2, <1>3, <1>5, <1>6

-----------------------------------------------------------------------------
(***************************************************************************)
(* Steps of the network and of the tab.                                    *)
(***************************************************************************)

\* Frames that are added to i's queue lead to an agreement if the store would agree that
\* agreed without them.
LEMMA MoreFollows ==
  ASSUME IInv, FollowInv, NEW i \in Sockets, Current(i), store' = store,
         NEW fs \in Seq(Frames), sock'[i].down = sock[i].down \o fs,
         \A e \in Stores : Leads(store, sock[i].down, e) /\ Shows(i, e, sock[i].up) =>
           \E f \in Stores : Leads(e, fs, f) /\ Shows(i, f, sock[i].up)'
  PROVE  Follows(i)'
<1>1. store \in Stores /\ sock[i].down \in Seq(Frames) /\ Follows(i)
  BY CurrentFacts DEF FollowInv
<1>2. PICK e \in Stores : Leads(store, sock[i].down, e) /\ Shows(i, e, sock[i].up)
  BY <1>1 DEF Follows
<1>3. PICK f \in Stores : Leads(e, fs, f) /\ Shows(i, f, sock[i].up)'
  BY <1>2
<1>4. Leads(store, sock[i].down \o fs, f)
  BY <1>1, <1>2, <1>3, LeadsOn
<1>5. Leads(store', sock'[i].down, f)
  BY <1>4
<1>. QED
  BY <1>3, <1>5 DEF Follows

\* A connection that is left alone.
LEMMA LeftAlone ==
  ASSUME IInv, FollowInv, NEW i \in Sockets, Current(i), UNCHANGED <<tab, store, heard>>,
         sock'[i].up = sock[i].up, sock'[i].down = sock[i].down,
         sock'[i].ticket = sock[i].ticket, GameOf(i)' = GameOf(i),
         Seated(GameOf(i))' = Seated(GameOf(i)), room'[GameOf(i)] = room[GameOf(i)],
         seat'[sock[i].ticket] = seat[sock[i].ticket]
  PROVE  Follows(i)' /\ AnswersOf(i)'
<1>1. Follows(i) /\ AnswersOf(i)
  BY DEF FollowInv
<1>2. role' = role /\ Seen(i)' = Seen(i) /\ Who(GameOf(i))' = Who(GameOf(i))
  BY DEF role, Seen, Heard, Who
<1>3. ASSUME NEW e, Shows(i, e, sock[i].up) PROVE Shows(i, e, sock[i].up)'
  BY <1>2, <1>3 DEF Shows
<1>4. Follows(i)'
  BY <1>1, <1>3 DEF Follows
<1>5. AnswersOf(i)'
  BY <1>1, <1>2 DEF AnswersOf
<1>. QED
  BY <1>4, <1>5

\* What the tab sent stays to no later question than the one on its screen.
LEMMA AnswersStay ==
  ASSUME FollowInv, NEW i \in Sockets, Current(i), UNCHANGED <<store, heard>>,
         sock'[i].up = sock[i].up, sock'[i].ticket = sock[i].ticket
  PROVE  AnswersOf(i)'
<1>1. Seen(i)' = Seen(i) /\ AnswersOf(i)
  BY DEF Seen, Heard, FollowInv
<1>. QED
  BY <1>1 DEF AnswersOf

\* A socket that is dialed is the tab's, with a listener and not open yet.
LEMMA DialFollows ==
  ASSUME IInv, FollowInv, UNCHANGED <<tab, heard, seat>>, NEW n, Fits(sock, n),
         NEW t \in Tickets, t <= n, Dial(t), listening',
         store' = store \/ \E p : store' = [store EXCEPT !.me = p]
  PROVE  FollowInv'
<1>1. /\ ws' \in Sockets /\ sock'[ws'].st = "dialing"
      /\ \A j \in Sockets : j # ws' => sock'[j] = sock[j]
  BY DialFits
<1>2. sock'[ws'].up = <<>>
  <2>1. /\ ws' = FreeSocket
        /\ sock' = [sock EXCEPT ![FreeSocket] = [NoLink EXCEPT !.st = "dialing", !.ticket = t]]
    BY DEF Dial
  <2>2. sock'[ws'] = [NoLink EXCEPT !.st = "dialing", !.ticket = t]
    BY <1>1, <2>1 DEF Fits
  <2>. QED
    BY <2>2 DEF NoLink
<1>3. role' = role
  BY DEF role
<1>4. Listens'
  BY DEF Listens
<1>5. Silent'
  BY <1>1, <1>2 DEF Silent, Open, FollowInv, Quiet
<1>6. Unheard'
  <2>1. store \in Stores /\ Fresh \in Stores
    BY ServerSame, FreshStore DEF TabTypeOK
  <2>2. ASSUME heard = {} PROVE store' = [Fresh EXCEPT !.me = store'.me]
    <3>1. store = [Fresh EXCEPT !.me = store.me]
      BY <2>2 DEF FollowInv, Quiet, Unheard
    <3>2. ASSUME NEW p, store' = [store EXCEPT !.me = p]
          PROVE  store' = [Fresh EXCEPT !.me = store'.me]
      <4>1. store'.me = p
        BY <2>1, <3>2 DEF Stores
      <4>2. [store EXCEPT !.me = p] = [Fresh EXCEPT !.me = p]
        BY <2>1, <3>1 DEF Stores
      <4>. QED
        BY <3>2, <4>1, <4>2
    <3>. QED
      BY <3>1, <3>2
  <2>. QED
    BY <2>2 DEF Unheard
<1>7. HostOnlyHosts'
  <2>1. ASSUME role = "host", NEW j \in Sockets, NEW k \in DOMAIN sock'[j].up
        PROVE  ~Plays(sock'[j].up[k])
    <3>1. j # ws'
      BY <1>2, <2>1
    <3>. QED
      BY <1>1, <2>1, <3>1 DEF FollowInv, Quiet, HostOnlyHosts
  <2>2. role = "host" => \A u \in Tickets : seat'[u] = NewSeat
    BY DEF FollowInv, Quiet, HostOnlyHosts
  <2>. QED
    BY <1>3, <2>1, <2>2 DEF HostOnlyHosts
<1>8. \A i \in Sockets : ~Current(i)'
  BY <1>1 DEF Current, Open
<1>. QED
  BY <1>4, <1>5, <1>6, <1>7, <1>8 DEF FollowInv, Quiet

\* A timer fires.
LEMMA RetryFollows ==
  ASSUME IInv, FollowInv, Retry
  PROVE  FollowInv'
<1>1. /\ retries > 0 /\ IF closed THEN UNCHANGED <<ws, sock>> ELSE Dial(url)
      /\ UNCHANGED <<url, closed, listening, tabVars, roomVars>>
  BY DEF Retry
<1>2. url \in Tickets /\ url <= Len(issued) /\ Fits(sock, Len(issued))
  BY <1>1, ServerSame DEF Remembers, LinksTyped
<1>3. CASE closed
  <2>1. /\ UNCHANGED <<ws, url, closed, listening, tab, store, heard, sock, issued, room, seat>>
    BY <1>1, <1>3 DEF tabVars, roomVars
  <2>2. ASSUME NEW i \in Sockets
        PROVE  /\ Current(i)' = Current(i) /\ GameOf(i)' = GameOf(i)
               /\ Seated(GameOf(i))' = Seated(GameOf(i))
    BY <2>1 DEF Current, Open, GameOf, Seated, Members, role
  <2>3. Quiet'
    BY <2>1 DEF FollowInv, Quiet, Listens, Silent, Unheard, HostOnlyHosts, Open, role
  <2>4. \A i \in Sockets : Current(i)' => Follows(i)' /\ AnswersOf(i)'
    BY <2>1, <2>2, LeftAlone
  <2>. QED
    BY <2>3, <2>4 DEF FollowInv
<1>4. CASE ~closed
  <2>1. listening'
    BY <1>1, <1>2, <1>4, TicketFacts DEF FollowInv, Quiet, Listens
  <2>. QED
    BY <1>1, <1>2, <1>4, <2>1, DialFollows DEF tabVars, roomVars
<1>. QED
  BY <1>3, <1>4

\* The pages change, nothing else.
LEMMA PageFollows ==
  ASSUME IInv, FollowInv, UNCHANGED <<tab, store, heard, linkVars, sock, roomVars>>
  PROVE  FollowInv'
<1>1. UNCHANGED <<ws, url, closed, listening, tab, store, heard, sock, issued, room, seat>>
  BY DEF linkVars, roomVars
<1>2. ASSUME NEW i \in Sockets
      PROVE  /\ Current(i)' = Current(i) /\ GameOf(i)' = GameOf(i)
             /\ Seated(GameOf(i))' = Seated(GameOf(i))
  BY <1>1 DEF Current, Open, GameOf, Seated, Members, role
<1>3. Quiet'
  BY <1>1 DEF FollowInv, Quiet, Listens, Silent, Unheard, HostOnlyHosts, Open, role
<1>4. \A i \in Sockets : Current(i)' => Follows(i)' /\ AnswersOf(i)'
  BY <1>1, <1>2, LeftAlone
<1>. QED
  BY <1>3, <1>4 DEF FollowInv

\* A socket that was not open ends.
LEMMA LinkEndsFollows ==
  ASSUME IInv, FollowInv, NEW i \in Sockets, LinkEnds(i)
  PROVE  FollowInv'
<1>1. sock[i].st \in {"dialing", "closing"} /\ OnClose(i, sock) /\ UNCHANGED <<tabVars, roomVars>>
  BY DEF LinkEnds
<1>2. /\ ws' = IF ws = i THEN 0 ELSE ws
      /\ sock' = [sock EXCEPT ![i] = NoLink] /\ UNCHANGED <<url, closed, listening>>
  BY <1>1 DEF OnClose
<1>3. /\ sock'[i].st = "none" /\ sock'[i].up = <<>> /\ \A j \in Sockets \ {i} : sock'[j] = sock[j]
      /\ ~Open(i) /\ ~Open(i)'
  BY <1>1, <1>2, SockFits DEF IInv, Fits, NoLink, Open
<1>4. UNCHANGED <<tab, store, heard, issued, room, seat>> /\ role' = role
  BY <1>1 DEF tabVars, roomVars, role
<1>5. \A j \in Sockets : /\ Open(j)' = Open(j) /\ (j # i => GameOf(j)' = GameOf(j))
                         /\ (Open(j) => j # i /\ sock'[j] = sock[j])
  BY <1>3, <1>4 DEF Open, GameOf
<1>6. \A g : Seated(g)' = Seated(g)
  <2>1. \A g : Members(g)' = Members(g) /\ \A j \in Members(g) : sock'[j] = sock[j]
    BY <1>5 DEF Members
  <2>. QED
    BY <1>4, <2>1 DEF Seated
<1>7. Quiet'
  <2>1. ws \in Sockets \cup {0}
    BY ServerSame DEF LinksTyped
  <2>2. Listens'
    BY <1>2, <1>3, <2>1 DEF FollowInv, Quiet, Listens
  <2>3. Silent'
    BY <1>3, <1>5 DEF FollowInv, Quiet, Silent
  <2>4. Unheard'
    BY <1>4 DEF FollowInv, Quiet, Unheard
  <2>5. HostOnlyHosts'
    <3>1. ASSUME role = "host", NEW j \in Sockets, NEW k \in DOMAIN sock'[j].up
          PROVE  ~Plays(sock'[j].up[k])
      <4>1. j # i
        BY <1>3, <3>1
      <4>. QED
        BY <1>3, <3>1, <4>1 DEF FollowInv, Quiet, HostOnlyHosts
    <3>. QED
      BY <1>4, <3>1 DEF FollowInv, Quiet, HostOnlyHosts
  <2>. QED
    BY <2>2, <2>3, <2>4, <2>5 DEF Quiet
<1>8. ASSUME NEW j \in Sockets, Current(j)' PROVE Follows(j)' /\ AnswersOf(j)'
  <2>1. j # i /\ Open(j) /\ sock'[j] = sock[j] /\ ws' = j /\ heard' \subseteq {sock'[j].ticket}
    BY <1>3, <1>5, <1>8 DEF Current
  <2>2. Current(j)
    <3>1. j # 0
      BY DEF Sockets
    <3>. QED
      BY <1>2, <1>4, <2>1, <3>1 DEF Current
  <2>. QED
    BY <1>4, <1>5, <1>6, <2>1, <2>2, LeftAlone
<1>. QED
  BY <1>7, <1>8 DEF FollowInv

\* What the others of a room are told when a player's connection ends.
LEMMA PartedSends ==
  ASSUME IInv, NEW i \in Sockets, Open(i) => Reachable(GameOf(i), 1)
  PROVE  \A j \in Sockets :
           /\ Parted(i)[j].up = sock[j].up
           /\ Parted(i)[j].down =
                IF role = "player" /\ Open(i) /\ j \in Members(GameOf(i))
                THEN sock[j].down \o <<About("participant.left", sock[i].ticket)>>
                ELSE sock[j].down
<1>1. CASE role = "player" /\ Open(i)
  <2> DEFINE g == GameOf(i)
             m == About("participant.left", sock[i].ticket)
  <2>1. sock[i].ticket \in People /\ Reachable(g, 1)
    BY <1>1, OpenFacts, TicketFacts DEF IInv
  <2>2. m \in Frames
    BY <2>1, NoticeFrames
  <2>3. Parted(i) = TellAll(sock, g, <<m>>)
    BY <1>1 DEF Parted
  <2> HIDE DEF m
  <2>4. Fits(sock, Len(issued)) /\ SameDown(sock)
    BY SockSame
  <2>5. \A j \in Sockets :
          /\ TellAll(sock, g, <<m>>)[j].up = sock[j].up
          /\ TellAll(sock, g, <<m>>)[j].down =
               IF j \in Members(g) THEN sock[j].down \o <<m>> ELSE sock[j].down
    BY <2>1, <2>2, <2>4, NoticeFits
  <2>. QED
    BY <1>1, <2>3, <2>5 DEF m
<1>2. CASE ~(role = "player" /\ Open(i))
  BY <1>2 DEF Parted
<1>. QED
  BY <1>1, <1>2

\* A connection is lost.
LEMMA DropFollows ==
  ASSUME IInv, FollowInv, NEW i \in Sockets, Drop(i)
  PROVE  FollowInv'
<1>0. PICK g, t : g = GameOf(i) /\ t = sock[i].ticket
  OBVIOUS
<1> DEFINE m == About("participant.left", t)
<1>1. /\ Open(i) /\ Reachable(g, 1) /\ OnClose(i, Parted(i))
      /\ seat' = [seat EXCEPT ![t] = NewSeat]
      /\ UNCHANGED <<tab, store, heard, issued, spent, room>>
  BY <1>0 DEF Drop, tabVars
<1>2. /\ t \in Tickets /\ t \in People /\ g \in Games
  BY <1>0, <1>1, OpenFacts, TicketFacts DEF IInv
<1>3. /\ ws' = IF ws = i THEN 0 ELSE ws
      /\ sock' = [Parted(i) EXCEPT ![i] = NoLink] /\ UNCHANGED <<url, closed, listening>>
  BY <1>1 DEF OnClose
<1>4. /\ sock'[i].st = "none" /\ sock'[i].up = <<>>
      /\ \A j \in Sockets \ {i} :
           /\ sock'[j].st = sock[j].st /\ sock'[j].ticket = sock[j].ticket
           /\ sock'[j].up = sock[j].up
           /\ sock'[j].down = IF role = "player" /\ j \in Members(g)
                              THEN sock[j].down \o <<m>> ELSE sock[j].down
  <2>1. /\ Fits(Parted(i), Len(issued)) /\ SameEnds(Parted(i))
        /\ \A j \in Sockets :
             /\ Parted(i)[j].up = sock[j].up
             /\ Parted(i)[j].down = IF role = "player" /\ Open(i) /\ j \in Members(GameOf(i))
                                    THEN sock[j].down \o <<m>> ELSE sock[j].down
    BY <1>0, <1>1, PartedFits, PartedSends
  <2>2. sock'[i] = NoLink /\ \A j \in Sockets \ {i} : sock'[j] = Parted(i)[j]
    BY <1>3, <2>1 DEF Fits
  <2> HIDE DEF m
  <2>. QED
    BY <1>0, <1>1, <2>1, <2>2 DEF NoLink, SameEnds
<1> HIDE DEF m
<1>5. role' = role /\ role \in {"player", "host"}
  BY <1>1, ServerSame DEF role
<1>6. /\ ~Open(i)'
      /\ \A j \in Sockets \ {i} : Open(j)' = Open(j) /\ GameOf(j)' = GameOf(j)
  BY <1>1, <1>4 DEF Open, GameOf
<1>7. \A h : Seated(h)' = IF h = g THEN Seated(h) \ {t} ELSE Seated(h)
  <2> SUFFICES ASSUME NEW h
               PROVE  Seated(h)' = IF h = g THEN Seated(h) \ {t} ELSE Seated(h)
    OBVIOUS
  <2>1. /\ Members(h)' = Members(h) \ {i}
        /\ \A j \in Members(h)' : sock'[j].ticket = sock[j].ticket
    BY <1>4, <1>6 DEF Members
  <2>2. CASE role = "host"
    BY <1>5, <2>2 DEF Seated
  <2>3. CASE role = "player"
    <3>1. Seated(h)' = {sock[j].ticket : j \in Members(h) \ {i}}
      BY <1>5, <2>1, <2>3 DEF Seated
    <3>2. Seated(h) = {sock[j].ticket : j \in Members(h)}
      BY <2>3 DEF Seated
    <3>3. \A j \in Members(h) \ {i} : sock[j].ticket # t
      BY <1>0, <1>1, ServerSame DEF OneEach, Members
    <3>4. i \in Members(h) <=> h = g
      BY <1>0, <1>1, MemberSeat
    <3>. QED
      BY <1>0, <3>1, <3>2, <3>3, <3>4
  <2>. QED
    BY <1>5, <2>2, <2>3
<1>8. \A h \in Games : t \notin room[h].others
  <2>1. \A h \in Games : room[h].others \subseteq Others
    BY DEF IInv, TypeOK, RoomTypeOK, GameRooms
  <2>2. Others \subseteq People \ Tickets
    BY ServerSame, ClientAssumption DEF TabTypeOK, Others
  <2>. QED
    BY <1>2, <2>1, <2>2
<1>9. \A h \in Games : Who(h)' = IF h = g /\ role = "player" THEN Who(h) \ {t} ELSE Who(h)
  <2>1. \A h \in Games : room'[h].others = room[h].others
    BY <1>1
  <2>2. role = "host" => \A h : Seated(h) = {}
    BY DEF Seated
  <2>. QED
    BY <1>5, <1>7, <1>8, <2>1, <2>2 DEF Who
<1>10. Quiet'
  <2>1. ws \in Sockets \cup {0}
    BY ServerSame DEF LinksTyped
  <2>2. Listens'
    BY <1>3, <1>4, <2>1 DEF FollowInv, Quiet, Listens
  <2>3. Silent'
    BY <1>4, <1>6 DEF FollowInv, Quiet, Silent
  <2>4. Unheard'
    BY <1>1 DEF FollowInv, Quiet, Unheard
  <2>5. HostOnlyHosts'
    <3>1. ASSUME role = "host", NEW j \in Sockets, NEW k \in DOMAIN sock'[j].up
          PROVE  ~Plays(sock'[j].up[k])
      <4>1. j # i
        BY <1>4, <3>1
      <4>. QED
        BY <1>4, <3>1, <4>1 DEF FollowInv, Quiet, HostOnlyHosts
    <3>2. role = "host" => \A u \in Tickets : seat'[u] = NewSeat
      BY <1>1, ServerSame DEF FollowInv, Quiet, HostOnlyHosts
    <3>3. NewSeat' = NewSeat
      BY DEF NewSeat
    <3>. QED
      BY <1>5, <3>1, <3>2, <3>3 DEF HostOnlyHosts
  <2>. QED
    BY <2>2, <2>3, <2>4, <2>5 DEF Quiet
<1>11. ASSUME NEW j \in Sockets, Current(j)' PROVE Follows(j)' /\ AnswersOf(j)'
  <2>1. /\ j \in Sockets \ {i} /\ Open(j) /\ ws' = j /\ heard' \subseteq {sock'[j].ticket}
    BY <1>6, <1>11 DEF Current
  <2>2. Current(j)
    <3>1. j # 0
      BY DEF Sockets
    <3>. QED
      BY <1>1, <1>3, <1>4, <2>1, <3>1 DEF Current
  <2>3. /\ GameOf(j)' = GameOf(j) /\ GameOf(j) \in Games /\ Who(GameOf(j)) \in SUBSET People
        /\ sock'[j].up = sock[j].up /\ sock'[j].ticket = sock[j].ticket
        /\ sock[j].ticket \in Tickets
    BY <1>4, <1>6, <2>1, <2>2, CurrentFacts
  <2>4. seat'[sock[j].ticket] = seat[sock[j].ticket]
    <3>1. sock[j].ticket # t
      BY <1>0, <1>1, <2>1, ServerSame DEF OneEach
    <3>. QED
      BY <1>1, <2>3, <3>1, ServerSame
  <2>5. AnswersOf(j)'
    BY <1>1, <2>2, <2>3, AnswersStay
  <2>6. CASE GameOf(j) = g /\ role = "player"
    <3>1. m \in Frames /\ <<m>> \in Seq(Frames)
      BY <1>2, NoticeFrames DEF m
    <3>2. sock'[j].down = sock[j].down \o <<m>>
      BY <1>4, <2>1, <2>6, MemberSeat
    <3>3. ASSUME NEW e \in Stores, Shows(j, e, sock[j].up)
          PROVE  \E f \in Stores : Leads(e, <<m>>, f) /\ Shows(j, f, sock[j].up)'
      <4>1. Handle(e, m) \in Stores /\ Leads(e, <<m>>, Handle(e, m))
        BY <3>1, LeadsOne
      <4>2. Agrees(e, g, room[g], Who(g), seat[sock[j].ticket], role = "player", sock[j].up)
        BY <2>6, <3>3 DEF Shows
      <4>3. SameRoom(room[g], room[g]) /\ Who(g) \in SUBSET People
        BY <2>3, <2>6 DEF SameRoom
      <4>4. Agrees(Handle(e, m), g, room[g], Who(g) \ {t}, seat[sock[j].ticket],
                   role = "player", sock[j].up)
        BY <1>2, <4>2, <4>3, AgreesNotice DEF m
      <4>5. Who(g)' = Who(g) \ {t}
        BY <1>2, <1>9, <2>6
      <4>6. /\ GameOf(j)' = g /\ room'[g] = room[g]
            /\ seat'[sock'[j].ticket] = seat[sock[j].ticket]
            /\ role' = role /\ sock'[j].up = sock[j].up
        BY <1>1, <1>5, <2>3, <2>4, <2>6
      <4>7. Who(GameOf(j))' = Who(g) \ {t}
        BY <1>9, <2>3, <2>6, <4>5, <4>6 DEF Who
      <4>8. Shows(j, Handle(e, m), sock[j].up)'
        BY <4>4, <4>6, <4>7 DEF Shows
      <4>. QED
        BY <4>1, <4>8
    <3>4. Follows(j)'
      BY <1>1, <2>2, <3>1, <3>2, <3>3, MoreFollows
    <3>. QED
      BY <2>5, <3>4
  <2>7. CASE ~(GameOf(j) = g /\ role = "player")
    <3>1. sock'[j].down = sock[j].down
      BY <1>4, <2>1, <2>7, MemberSeat
    <3>2. Seated(GameOf(j))' = Seated(GameOf(j))
      <4>1. role = "host" => Seated(GameOf(j)) = {}
        BY DEF Seated
      <4>. QED
        BY <1>5, <1>7, <2>3, <2>7, <4>1
    <3>. QED
      BY <1>1, <2>2, <2>3, <2>4, <3>1, <3>2, LeftAlone
  <2>. QED
    BY <2>6, <2>7
<1>. QED
  BY <1>10, <1>11 DEF FollowInv

\* disconnect leaves no connection that the tab uses.
LEMMA ExitResultsFollows ==
  ASSUME IInv, FollowInv, ExitResults
  PROVE  FollowInv'
<1>1. /\ closed' = TRUE /\ store' = Fresh /\ heard' = {}
      /\ Connected => Reachable(GameOf(ws), 1)
      /\ sock' = IF ws = 0 THEN sock
                 ELSE [Parted(ws) EXCEPT ![ws] = [NoLink EXCEPT !.st = "closing",
                                                                !.ticket = sock[ws].ticket]]
      /\ UNCHANGED <<tab, ws, url, roomVars>>
  BY DEF ExitResults
<1>2. /\ ws' = ws /\ ws \in Sockets \cup {0} /\ 0 \notin Sockets /\ role' = role /\ seat' = seat
  BY <1>1, ServerSame DEF LinksTyped, Sockets, role, roomVars
<1>3. \A j \in Sockets :
        IF j = ws THEN sock'[j].st = "closing" /\ sock'[j].up = <<>>
        ELSE sock'[j].st = sock[j].st /\ sock'[j].up = sock[j].up
  <2>1. CASE ws = 0
    BY <1>1, <1>2, <2>1
  <2>2. CASE ws # 0
    <3>1. Open(ws) => Reachable(GameOf(ws), 1)
      BY <1>1, <2>2 DEF Connected
    <3>2. /\ Fits(Parted(ws), Len(issued)) /\ SameEnds(Parted(ws))
          /\ \A j \in Sockets : Parted(ws)[j].up = sock[j].up
      BY <1>2, <2>2, <3>1, PartedFits, PartedSends
    <3>3. /\ sock'[ws] = [NoLink EXCEPT !.st = "closing", !.ticket = sock[ws].ticket]
          /\ \A j \in Sockets \ {ws} : sock'[j] = Parted(ws)[j]
      BY <1>1, <1>2, <2>2, <3>2 DEF Fits
    <3>. QED
      BY <3>2, <3>3 DEF NoLink, SameEnds
  <2>. QED
    BY <2>1, <2>2
<1>4. Listens'
  BY <1>1, <1>2, <1>3 DEF Listens
<1>5. Silent'
  BY <1>3 DEF FollowInv, Quiet, Silent, Open
<1>6. Unheard'
  <2>1. Fresh = [Fresh EXCEPT !.me = Fresh.me]
    BY FreshStore DEF Stores
  <2>. QED
    BY <1>1, <2>1 DEF Unheard
<1>7. HostOnlyHosts'
  BY <1>2, <1>3 DEF FollowInv, Quiet, HostOnlyHosts
<1>8. \A j \in Sockets : ~Current(j)'
  BY <1>2, <1>3 DEF Current, Open
<1>. QED
  BY <1>4, <1>5, <1>6, <1>7, <1>8 DEF FollowInv, Quiet

\* Nor does a page that is loaded again.
LEMMA ReloadFollows ==
  ASSUME IInv, FollowInv, Reload
  PROVE  FollowInv'
<1>1. /\ store' = Fresh /\ heard' = {} /\ tab' = tab
      /\ seat' = [t \in Tickets |-> NewSeat]
  BY DEF Reload
<1>2. PICK l, n : l = [NoLink EXCEPT !.st = "dialing", !.ticket = hostTicket] /\ n = NoLink
  OBVIOUS
<1>3. /\ l = [st |-> "dialing", ticket |-> hostTicket, up |-> <<>>, down |-> <<>>]
      /\ n = [st |-> "none", ticket |-> 0, up |-> <<>>, down |-> <<>>]
  BY <1>2 DEF NoLink
<1>4. \/ listening' = TRUE /\ sock' = [i \in Sockets |-> IF i = 1 THEN l ELSE n]
      \/ url' = None /\ ws' = 0 /\ sock' = [i \in Sockets |-> n]
  BY <1>2 DEF Reload
<1>5. \A i \in Sockets : ~Open(i)' /\ sock'[i].up = <<>>
  BY <1>3, <1>4 DEF Open
<1>6. Listens'
  BY <1>4 DEF Listens
<1>7. Silent'
  BY <1>5 DEF Silent
<1>8. Unheard'
  <2>1. Fresh = [Fresh EXCEPT !.me = Fresh.me]
    BY FreshStore DEF Stores
  <2>. QED
    BY <1>1, <2>1 DEF Unheard
<1>9. HostOnlyHosts'
  <2>1. \A t \in Tickets : seat'[t] = NewSeat'
    BY <1>1 DEF NewSeat
  <2>2. \A i \in Sockets : DOMAIN sock'[i].up = {}
    BY <1>5
  <2>. QED
    BY <2>1, <2>2 DEF HostOnlyHosts
<1>10. \A i \in Sockets : ~Current(i)'
  BY <1>5 DEF Current
<1>. QED
  BY <1>6, <1>7, <1>8, <1>9, <1>10 DEF FollowInv, Quiet

\* What the two ends of a connection are once its ticket is redeemed.
LEMMA AcceptSends ==
  ASSUME IInv, NEW i \in Sockets, Accept(i), NEW t, NEW g, t = sock[i].ticket, g = issued[t]
  PROVE  /\ t \in Tickets /\ g \in Games /\ t \notin spent /\ ~Open(i)
         /\ sock'[i].st = "open" /\ sock'[i].ticket = t /\ sock'[i].up = sock[i].up
         /\ sock'[i].down =
              <<StateOf(g, Seated(g) \cup room[g].others
                             \cup (IF role = "player" THEN {t} ELSE {}))>>
              \o (IF role = "player" /\ room[g].open THEN <<Start(g, room[g].cur)>> ELSE <<>>)
         /\ \A j \in Sockets \ {i} :
              /\ sock'[j].st = sock[j].st /\ sock'[j].ticket = sock[j].ticket
              /\ sock'[j].up = sock[j].up
              /\ sock'[j].down = IF role = "player" /\ j \in Members(g)
                                 THEN sock[j].down \o <<About("participant.joined", t)>>
                                 ELSE sock[j].down
<1> DEFINE m == About("participant.joined", t)
           heads == IF role = "player" THEN TellAll(sock, g, <<m>>) ELSE sock
           down == <<StateOf(g, Seated(g) \cup room[g].others
                               \cup (IF role = "player" THEN {t} ELSE {}))>>
                   \o (IF role = "player" /\ room[g].open THEN <<Start(g, room[g].cur)>> ELSE <<>>)
<1>1. /\ sock[i].st = "dialing" /\ t \notin spent /\ Reachable(g, 1)
      /\ sock' = [heads EXCEPT ![i].st = "open", ![i].down = down]
  BY DEF Accept
<1>2. t \in Tickets /\ t \in People /\ g \in Games
  <2>1. t \in 1 .. Len(issued) /\ t \in Tickets
    BY <1>1, OpenFacts DEF IInv
  <2>2. issued \in Seq(Games)
    BY DEF IInv, TypeOK, RoomTypeOK
  <2>. QED
    BY <2>1, <2>2, ElementOfSeq, TicketFacts
<1> HIDE DEF down
<1>3. /\ heads \in [Sockets -> Links]
      /\ \A j \in Sockets :
           /\ heads[j].st = sock[j].st /\ heads[j].ticket = sock[j].ticket
           /\ heads[j].up = sock[j].up
           /\ heads[j].down = IF role = "player" /\ j \in Members(g)
                              THEN sock[j].down \o <<m>> ELSE sock[j].down
  <2>1. Fits(sock, Len(issued)) /\ SameDown(sock)
    BY SockSame
  <2>2. CASE role = "player"
    <3>1. m \in Frames
      BY <1>2, NoticeFrames
    <3>2. heads = TellAll(sock, g, <<m>>)
      BY <2>2
    <3> HIDE DEF m, heads
    <3>3. /\ Fits(TellAll(sock, g, <<m>>), Len(issued))
          /\ \A j \in Sockets :
               /\ TellAll(sock, g, <<m>>)[j].st = sock[j].st
               /\ TellAll(sock, g, <<m>>)[j].ticket = sock[j].ticket
               /\ TellAll(sock, g, <<m>>)[j].up = sock[j].up
               /\ TellAll(sock, g, <<m>>)[j].down =
                    IF j \in Members(g) THEN sock[j].down \o <<m>> ELSE sock[j].down
      BY ONLY IInv, <1>1, <2>1, <3>1, NoticeFits
    <3>. QED
      BY <2>2, <3>2, <3>3 DEF Fits
  <2>3. CASE role # "player"
    BY <2>1, <2>3 DEF Fits
  <2>. QED
    BY <2>2, <2>3
<1> HIDE DEF heads
<1>4. /\ sock'[i].st = "open" /\ sock'[i].ticket = heads[i].ticket
      /\ sock'[i].up = heads[i].up /\ sock'[i].down = down
      /\ \A j \in Sockets \ {i} : sock'[j] = heads[j]
  BY <1>1, <1>3 DEF Links
<1>. QED
  BY <1>1, <1>2, <1>3, <1>4 DEF down, Open

\* A ticket is redeemed: the store of the tab is empty, and is told of the room.
LEMMA AcceptFollows ==
  ASSUME IInv, FollowInv, NEW i \in Sockets, Accept(i)
  PROVE  FollowInv'
<1>0. PICK t, g : t = sock[i].ticket /\ g = issued[t]
  OBVIOUS
<1> DEFINE m == About("participant.joined", t)
           r == room[g]
           pl == role = "player"
           who == Seated(g) \cup room[g].others \cup (IF pl THEN {t} ELSE {})
           hello == StateOf(g, who)
           replay == IF pl /\ r.open THEN <<Start(g, r.cur)>> ELSE <<>>
<1>1. UNCHANGED <<tab, store, heard, ws, url, closed, listening, issued, room, seat>>
  BY DEF Accept, tabVars, linkVars
<1>2. /\ t \in Tickets /\ t \in People /\ g \in Games /\ t \notin spent /\ ~Open(i)
      /\ sock'[i].st = "open" /\ sock'[i].ticket = t /\ sock'[i].up = sock[i].up
      /\ sock'[i].down = <<hello>> \o replay
      /\ \A j \in Sockets \ {i} :
           /\ sock'[j].st = sock[j].st /\ sock'[j].ticket = sock[j].ticket
           /\ sock'[j].up = sock[j].up
           /\ sock'[j].down = IF pl /\ j \in Members(g) THEN sock[j].down \o <<m>>
                              ELSE sock[j].down
  BY <1>0, AcceptSends, TicketFacts
<1>3. role' = role /\ role \in {"player", "host"} /\ store \in Stores
  BY <1>1, ServerSame DEF role, TabTypeOK
<1> HIDE DEF m, r, pl, who, hello, replay
<1>4. /\ Open(i)' /\ GameOf(i)' = g
      /\ \A j \in Sockets \ {i} : Open(j)' = Open(j) /\ GameOf(j)' = GameOf(j)
  BY <1>0, <1>1, <1>2 DEF Open, GameOf
<1>5. \A h : Seated(h)' = IF h = g /\ pl THEN Seated(h) \cup {t} ELSE Seated(h)
  <2> SUFFICES ASSUME NEW h
               PROVE  Seated(h)' = IF h = g /\ pl THEN Seated(h) \cup {t} ELSE Seated(h)
    OBVIOUS
  <2>1. /\ Members(h)' = IF h = g THEN Members(h) \cup {i} ELSE Members(h)
        /\ \A j \in Members(h) : sock'[j].ticket = sock[j].ticket
    BY <1>2, <1>4 DEF Members
  <2>2. CASE role = "host"
    BY <1>3, <2>2 DEF Seated, pl
  <2>3. CASE role = "player"
    <3>1. Seated(h)' = {sock'[j].ticket : j \in Members(h)'}
      BY <1>3, <2>3 DEF Seated
    <3>2. Seated(h) = {sock[j].ticket : j \in Members(h)}
      BY <2>3 DEF Seated
    <3>. QED
      BY <1>2, <2>1, <2>3, <3>1, <3>2 DEF pl
  <2>. QED
    BY <1>3, <2>2, <2>3
<1>6. \A h \in Games : Who(h)' = IF h = g /\ pl THEN Who(h) \cup {t} ELSE Who(h)
  BY <1>1, <1>5 DEF Who
<1>7. who = (IF pl THEN Who(g) \cup {t} ELSE Who(g)) /\ who \in SUBSET People
  BY <1>2, RoomFields DEF Who, who
<1>8. Quiet'
  <2>1. ws \in Sockets \cup {0}
    BY ServerSame DEF LinksTyped
  <2>2. Listens'
    <3>1. sock[i].st = "dialing"
      BY DEF Accept
    <3>2. \A j \in Sockets : sock'[j].st \in {"dialing", "open"} => sock[j].st \in {"dialing", "open"}
      BY <1>2, <3>1
    <3>. QED
      BY <1>1, <2>1, <3>2 DEF FollowInv, Quiet, Listens
  <2>3. Silent'
    BY <1>2, <1>4 DEF FollowInv, Quiet, Silent
  <2>4. Unheard'
    BY <1>1 DEF FollowInv, Quiet, Unheard
  <2>5. HostOnlyHosts'
    <3>1. \A j \in Sockets : sock'[j].up = sock[j].up
      BY <1>2
    <3>. QED
      BY <1>1, <1>3, <3>1 DEF FollowInv, Quiet, HostOnlyHosts
  <2>. QED
    BY <2>2, <2>3, <2>4, <2>5 DEF Quiet
<1>9. ASSUME Current(i)' PROVE Follows(i)' /\ AnswersOf(i)'
  <2>1. heard = {}
    <3>1. heard \subseteq {t} /\ heard \subseteq spent
      BY <1>1, <1>2, <1>9 DEF Current, IInv, HeardInv
    <3>. QED
      BY <1>2, <3>1
  <2>2. store = [Fresh EXCEPT !.me = store.me]
    BY <2>1 DEF FollowInv, Quiet, Unheard
  <2>3. sock'[i].up = <<>>
    BY <1>2 DEF FollowInv, Quiet, Silent
  <2>4. seat[t] = NewSeat
    BY <1>2 DEF IInv, SeatInv
  <2>5. r \in GameRooms /\ (r.status = "lobby" => ~r.open) /\ (r.open => r.cur \in 1 .. NQ)
        /\ r.status \in Statuses
    <3>1. room[g] \in GameRooms /\ room[g].cur \in 0 .. NQ /\ room[g].status \in Statuses
      BY <1>2, RoomFields
    <3>2. /\ room[g].status = "lobby" => ~room[g].open
          /\ room[g].open => room[g].cur > 0
      BY <1>2 DEF IInv, RoomInv
    <3>3. room[g].open => room[g].cur \in 1 .. NQ
      BY <3>1, <3>2, TicketFacts
    <3>. QED
      BY <3>1, <3>2, <3>3 DEF r
  <2>6. /\ hello = [type |-> "room.state", game |-> g, status |-> r.status, who |-> who]
        /\ hello \in Frames
    <3>1. hello = [type |-> "room.state", game |-> g, status |-> r.status, who |-> who]
      BY DEF hello, StateOf, r
    <3>. QED
      BY <1>2, <1>7, <2>5, <3>1, FrameTypes
  <2>e. PICK e : e = Handle(store, hello)
    OBVIOUS
  <2>7. e \in Stores /\ Leads(store, <<hello>>, e) /\ <<hello>> \in Seq(Frames)
    BY <1>3, <2>e, <2>6, LeadsOne
  <2>8. pl \in BOOLEAN
    BY DEF pl
  <2>9. /\ ~(pl /\ r.open) => Agrees(e, g, r, who, NewSeat, pl, sock'[i].up)
        /\ r.cur \in 1 .. NQ /\ r.open =>
             Agrees(Handle(e, Start(g, r.cur)), g, r, who, NewSeat, pl, sock'[i].up)
    <3>1. /\ store.room = None /\ store.question = None /\ store.result = None
          /\ store.answer = None /\ store.score = 0 /\ store.hidden = {} /\ store.finished = None
      BY <2>2 DEF Fresh
    <3>. QED
      BY ONLY <1>2, <1>3, <1>7, <2>e, <2>5, <2>6, <2>8, <3>1, AgreesHello
  <2>10. ASSUME NEW f \in Stores, Agrees(f, g, r, who, NewSeat, pl, sock'[i].up)
         PROVE  Shows(i, f, sock[i].up)'
    <3>1. Who(g)' = who
      BY <1>2, <1>6, <1>7
    <3>2. /\ GameOf(i)' = g /\ room'[g] = r /\ seat'[sock'[i].ticket] = NewSeat
          /\ pl = (role' = "player")
      BY <1>1, <1>2, <1>3, <1>4, <2>4 DEF r, pl
    <3>3. Who(GameOf(i))' = who
      BY <3>1, <3>2 DEF Who
    <3>. QED
      BY <2>10, <3>2, <3>3 DEF Shows
  <2>11. Follows(i)'
    <3>1. CASE pl /\ r.open
      <4>s. PICK s, f : s = Start(g, r.cur) /\ f = Handle(e, s)
        OBVIOUS
      <4>1. s \in Frames
        BY <1>2, <2>5, <3>1, <4>s, FrameTypes
      <4>2. f \in Stores /\ Leads(e, <<s>>, f) /\ <<s>> \in Seq(Frames)
        BY <2>7, <4>s, <4>1, LeadsOne
      <4>3. Agrees(f, g, r, who, NewSeat, pl, sock'[i].up)
        BY <2>5, <2>9, <3>1, <4>s
      <4>4. Leads(store, <<hello>> \o <<s>>, f)
        BY <1>3, <2>7, <4>2, LeadsOn
      <4>5. sock'[i].down = <<hello>> \o <<s>>
        BY <1>2, <3>1, <4>s DEF replay
      <4>6. Shows(i, f, sock[i].up)'
        BY <2>10, <4>2, <4>3
      <4>7. Leads(store', sock'[i].down, f)
        BY <1>1, <4>4, <4>5
      <4>. QED
        BY <4>2, <4>6, <4>7 DEF Follows
    <3>2. CASE ~(pl /\ r.open)
      <4>1. sock'[i].down = <<hello>>
        <5>1. replay = <<>>
          BY <3>2 DEF replay
        <5>. QED
          BY <1>2, <2>7, <5>1, ConcatEmptySeq
      <4>2. Shows(i, e, sock[i].up)'
        BY <2>7, <2>9, <2>10, <3>2
      <4>3. Leads(store', sock'[i].down, e)
        BY <1>1, <2>7, <4>1
      <4>. QED
        BY <2>7, <4>2, <4>3 DEF Follows
    <3>. QED
      BY <3>1, <3>2
  <2>12. AnswersOf(i)'
    BY <2>3 DEF AnswersOf
  <2>. QED
    BY <2>11, <2>12
<1>10. ASSUME NEW j \in Sockets \ {i}, Current(j)' PROVE Follows(j)' /\ AnswersOf(j)'
  <2>1. Current(j) /\ Open(j)
    BY <1>1, <1>2, <1>4, <1>10 DEF Current
  <2>2. /\ GameOf(j)' = GameOf(j) /\ GameOf(j) \in Games /\ Who(GameOf(j)) \in SUBSET People
        /\ sock'[j].up = sock[j].up /\ sock'[j].ticket = sock[j].ticket
        /\ sock[j].ticket \in Tickets /\ seat' = seat
    BY <1>1, <1>2, <1>4, <2>1, CurrentFacts
  <2>3. AnswersOf(j)'
    BY <1>1, <2>1, <2>2, AnswersStay
  <2>4. CASE GameOf(j) = g /\ pl
    <3>1. m \in Frames /\ <<m>> \in Seq(Frames)
      BY <1>2, NoticeFrames DEF m
    <3>2. sock'[j].down = sock[j].down \o <<m>>
      BY <1>2, <2>1, <2>4, MemberSeat
    <3>3. ASSUME NEW e \in Stores, Shows(j, e, sock[j].up)
          PROVE  \E f \in Stores : Leads(e, <<m>>, f) /\ Shows(j, f, sock[j].up)'
      <4>1. Handle(e, m) \in Stores /\ Leads(e, <<m>>, Handle(e, m))
        BY <3>1, LeadsOne
      <4>2. Agrees(e, g, room[g], Who(g), seat[sock[j].ticket], pl, sock[j].up)
        BY <2>4, <3>3 DEF Shows, pl
      <4>3. SameRoom(room[g], room[g]) /\ Who(g) \in SUBSET People
        BY <2>2, <2>4 DEF SameRoom
      <4>4. Agrees(Handle(e, m), g, room[g], Who(g) \cup {t}, seat[sock[j].ticket], pl,
                   sock[j].up)
        BY <1>2, <4>2, <4>3, AgreesNotice DEF m
      <4>5. Who(g)' = Who(g) \cup {t}
        BY <1>2, <1>6, <2>4
      <4>6. /\ GameOf(j)' = g /\ room'[g] = room[g]
            /\ seat'[sock'[j].ticket] = seat[sock[j].ticket]
            /\ pl = (role' = "player") /\ sock'[j].up = sock[j].up
        BY <1>1, <1>3, <2>2, <2>4 DEF pl
      <4>7. Who(GameOf(j))' = Who(g) \cup {t}
        BY <4>5, <4>6 DEF Who
      <4>8. Shows(j, Handle(e, m), sock[j].up)'
        BY <4>4, <4>6, <4>7 DEF Shows
      <4>. QED
        BY <4>1, <4>8
    <3>4. Follows(j)'
      BY <1>1, <2>1, <3>1, <3>2, <3>3, MoreFollows
    <3>. QED
      BY <2>3, <3>4
  <2>5. CASE ~(GameOf(j) = g /\ pl)
    <3>1. sock'[j].down = sock[j].down
      BY <1>2, <2>1, <2>5, MemberSeat
    <3>2. Seated(GameOf(j))' = Seated(GameOf(j))
      BY <1>5, <2>2, <2>5
    <3>. QED
      BY <1>1, <2>1, <2>2, <3>1, <3>2, LeftAlone
  <2>. QED
    BY <2>4, <2>5
<1>. QED
  BY <1>8, <1>9, <1>10 DEF FollowInv

\* The first frame in flight arrives.
LEMMA DeliverFollows ==
  ASSUME IInv, FollowInv, NEW i \in Sockets, Deliver(i)
  PROVE  FollowInv'
<1> DEFINE m == Head(sock[i].down)
           t == sock[i].ticket
<1>1. /\ Open(i) /\ sock[i].down # <<>>
      /\ sock' = [sock EXCEPT ![i].down = Tail(@)]
      /\ IF listening THEN store' = Handle(store, m) /\ heard' = heard \cup {t}
         ELSE UNCHANGED <<store, heard>>
      /\ UNCHANGED <<tab, linkVars, roomVars>>
  BY DEF Deliver
<1>2. /\ sock \in [Sockets -> Links] /\ sock[i].down \in Seq(Frames)
  BY SockFits, LinkFields DEF IInv, Fits
<1>3. /\ m \in Frames /\ Tail(sock[i].down) \in Seq(Frames)
  BY <1>1, <1>2, HeadTailProperties
<1>4. /\ sock'[i].down = Tail(sock[i].down) /\ sock'[i].up = sock[i].up
      /\ sock'[i].st = sock[i].st /\ sock'[i].ticket = t
      /\ \A j \in Sockets \ {i} : sock'[j] = sock[j]
  BY <1>1, <1>2 DEF Links
<1> HIDE DEF m, t
<1>5. \A j \in Sockets : sock'[j].st = sock[j].st /\ sock'[j].ticket = sock[j].ticket
                         /\ sock'[j].up = sock[j].up
  BY <1>4 DEF t
<1>6. /\ \A j \in Sockets : Open(j)' = Open(j) /\ GameOf(j)' = GameOf(j)
      /\ \A g : Seated(g)' = Seated(g)
  <2>1. SameEnds(sock')
    BY <1>5 DEF SameEnds
  <2>. QED
    BY <1>1, <2>1, SameMembers DEF roomVars
<1>7. /\ UNCHANGED <<ws, url, closed, listening, issued, room, seat>> /\ role' = role
      /\ store \in Stores /\ ws \in Sockets \cup {0}
  BY <1>1, ServerSame DEF linkVars, roomVars, role, TabTypeOK, LinksTyped
<1>8. Quiet'
  <2>1. Listens'
    BY <1>5, <1>7 DEF FollowInv, Quiet, Listens
  <2>2. Silent'
    BY <1>5, <1>6 DEF FollowInv, Quiet, Silent
  <2>3. Unheard'
    <3>1. CASE listening
      BY <1>1, <3>1 DEF Unheard
    <3>2. CASE ~listening
      BY <1>1, <3>2 DEF FollowInv, Quiet, Unheard
    <3>. QED
      BY <3>1, <3>2
  <2>4. HostOnlyHosts'
    BY <1>5, <1>7 DEF FollowInv, Quiet, HostOnlyHosts
  <2>. QED
    BY <2>1, <2>2, <2>3, <2>4 DEF Quiet
<1>9. ASSUME NEW j \in Sockets, Current(j)' PROVE Follows(j)' /\ AnswersOf(j)'
  <2>1. j = ws /\ Open(j) /\ heard' \subseteq {sock[j].ticket}
    BY <1>5, <1>6, <1>7, <1>9 DEF Current
  <2>2. listening
    <3>1. ws # 0 /\ sock[ws].st = "open"
      BY <2>1 DEF Open, Sockets
    <3>. QED
      BY <3>1 DEF FollowInv, Quiet, Listens
  <2>3. store' = Handle(store, m) /\ heard' = heard \cup {t}
    BY <1>1, <2>2
  <2>4. j = i
    <3>1. sock[j].ticket = sock[i].ticket
      BY <2>1, <2>3 DEF t
    <3>. QED
      BY <1>1, <2>1, <3>1, ServerSame DEF OneEach
  <2>5. Current(i) /\ heard' = {t} /\ heard \subseteq {t}
    BY <2>1, <2>3, <2>4 DEF Current, t
  <2>6. Follows(i) /\ AnswersOf(i)
    BY <2>5 DEF FollowInv
  <2>7. Follows(i)'
    <3>1. PICK e \in Stores : Leads(store, sock[i].down, e) /\ Shows(i, e, sock[i].up)
      BY <2>6 DEF Follows
    <3>2. Leads(Handle(store, m), Tail(sock[i].down), e)
      BY <1>1, <1>2, <1>7, <3>1, LeadsRest DEF m
    <3>3. Leads(store', sock'[i].down, e)
      BY <1>4, <2>3, <3>2
    <3>4. Shows(i, e, sock[i].up)'
      <4>1. Who(GameOf(i))' = Who(GameOf(i))
        BY <1>6, <1>7 DEF Who
      <4>. QED
        BY <1>5, <1>6, <1>7, <3>1, <4>1 DEF Shows
    <3>. QED
      BY <3>1, <3>3, <3>4 DEF Follows
  <2>8. AnswersOf(i)'
    <3>1. ASSUME NEW k \in DOMAIN sock[i].up, IsSubmit(sock[i].up[k])
          PROVE  /\ sock[i].up[k].option[1][2] <= Seen(i)'
                 /\ sock[i].up[k].option[1] = store'.question =>
                      sock[i].up[k].option = store'.answer
      <4> DEFINE o == sock[i].up[k].option
      <4>1. o[1][2] <= Seen(i) /\ (o[1] = store.question => o = store.answer)
        BY <2>6, <3>1 DEF AnswersOf
      <4>2. CASE IsStart(m)
        <5>1. store'.question = m.question /\ m.question \in Questions /\ m.question[2] \in Nat
          <6>1. m.question \in Questions
            BY <1>3, <4>2, FieldsOf DEF IsStart
          <6>2. m.question[2] \in 1 .. NQ
            BY <6>1 DEF Questions, Indexes
          <6>. QED
            BY <1>3, <1>7, <2>3, <4>2, <6>1, <6>2, HandleQuestion
        <5>2. store'.question # None
          BY <5>1, StoreAssumption
        <5>3. Seen(i)' = m.question[2]
          BY <1>5, <2>5, <5>1, <5>2 DEF Seen, Heard, t
        <5>4. Seen(i) < m.question[2] /\ Seen(i) \in Nat
          <6>1. /\ Seen(i) \in Nat
                /\ InOrder(sock[i].down, GameOf(i), room[GameOf(i)].cur, Seen(i))
            BY <1>1, SeenFacts DEF IInv, HeardInv, StartsInv
          <6>2. 1 \in DOMAIN sock[i].down /\ sock[i].down[1] = m
            BY <1>1, <1>2, HeadTailProperties, EmptySeq, LenProperties DEF m
          <6>. QED
            BY <4>2, <6>1, <6>2 DEF InOrder
        <5>5. o[1][2] \in Nat
          <6>1. sock[i].up \in Seq(Ups)
            BY <2>5, CurrentFacts
          <6>2. sock[i].up[k] \in Ups
            BY <6>1, ElementOfSeq, LenProperties
          <6>3. o \in Options
            BY <3>1, <6>2 DEF Ups, IsSubmit
          <6> HIDE DEF o
          <6>. QED
            BY <6>3, TicketFacts DEF Options, Questions, Indexes
        <5> HIDE DEF o
        <5>6. o[1][2] <= m.question[2] /\ o[1][2] # m.question[2]
          BY <4>1, <5>1, <5>4, <5>5
        <5>. QED
          BY <5>1, <5>3, <5>6 DEF o
      <4>3. CASE ~IsStart(m)
        <5>1. store'.question = store.question /\ store'.answer = store.answer
          BY <1>3, <1>7, <2>3, <4>3, HandleQuestion
        <5>2. Seen(i)' = Seen(i)
          <6>1. CASE heard = {}
            <7>1. store.question = None
              BY <6>1 DEF IInv, HeardInv
            <7>. QED
              BY <5>1, <7>1 DEF Seen, Heard
          <6>2. CASE heard = {t}
            BY <1>5, <2>5, <5>1, <6>2 DEF Seen, Heard, t
          <6>. QED
            BY <2>5, <6>1, <6>2
        <5>. QED
          BY <4>1, <5>1, <5>2
      <4>. QED
        BY <4>2, <4>3
    <3>. QED
      BY <1>5, <3>1 DEF AnswersOf
  <2>. QED
    BY <2>4, <2>7, <2>8
<1>. QED
  BY <1>8, <1>9 DEF FollowInv

\* The host's lobby is entered from the question page.
LEMMA LobbyAgainFollows ==
  ASSUME IInv, FollowInv, role = "host", page = "question", EnterHostLobby(code, hostTicket),
         UNCHANGED <<tab, store, heard, roomVars>>
  PROVE  FollowInv'
<1>1. Dial(hostTicket) /\ listening' /\ seat' = seat
  BY DEF EnterHostLobby, Connect, roomVars
<1>2. hostTicket \in Tickets /\ hostTicket <= Len(issued) /\ Fits(sock, Len(issued))
  BY ServerSame DEF Remembers, TabTypeOK
<1>. QED
  BY <1>1, <1>2, DialFollows

\* The effects of the pages.
LEMMA EffectsFollow ==
  ASSUME IInv, FollowInv, Effects
  PROVE  FollowInv'
<1>1. \/ UNCHANGED <<tab, store, heard, linkVars, sock, roomVars>>
      \/ /\ role = "host" /\ page = "question" /\ EnterHostLobby(code, hostTicket)
         /\ UNCHANGED <<tab, store, heard, roomVars>>
  BY DEF Effects, PlayerLobbyEffect, PlayerQuestionEffect, HostQuestionEffect
<1>. QED
  BY <1>1, PageFollows, LobbyAgainFollows

\* Another ticket is issued, and nothing else is new to the connections.
LEMMA IssueFollows ==
  ASSUME IInv, FollowInv, UNCHANGED <<tab, store, heard, linkVars, sock, room, seat>>,
         NEW g \in Games, issued' = Append(issued, g)
  PROVE  FollowInv'
<1>1. UNCHANGED <<ws, url, closed, listening>> /\ role' = role
  BY DEF linkVars, role
<1>2. issued \in Seq(Games) /\ \A k \in 1 .. Len(issued) : issued'[k] = issued[k]
  <2>1. issued \in Seq(Games)
    BY DEF IInv, TypeOK, RoomTypeOK
  <2>. QED
    BY <2>1, AppendProperties
<1>3. \A i \in Sockets : Open(i)' = Open(i) /\ (Open(i) => GameOf(i)' = GameOf(i))
  <2>1. \A i \in Sockets : Open(i) => sock[i].ticket \in 1 .. Len(issued)
    BY OpenFacts DEF IInv
  <2>. QED
    BY <1>2, <2>1 DEF Open, GameOf
<1>4. \A h : Seated(h)' = Seated(h)
  <2>1. \A h : Members(h)' = Members(h)
    BY <1>3 DEF Members
  <2>. QED
    BY <1>1, <2>1 DEF Seated
<1>5. Quiet'
  BY <1>1, <1>3 DEF FollowInv, Quiet, Listens, Silent, Unheard, HostOnlyHosts
<1>6. ASSUME NEW i \in Sockets, Current(i)' PROVE Follows(i)' /\ AnswersOf(i)'
  <2>1. Current(i) /\ Open(i)
    BY <1>1, <1>3, <1>6 DEF Current
  <2>2. GameOf(i)' = GameOf(i) /\ GameOf(i) \in Games
    BY <1>3, <2>1, CurrentFacts
  <2>3. Seated(GameOf(i))' = Seated(GameOf(i))
    BY <1>4, <2>2
  <2>. QED
    BY <2>1, <2>2, <2>3, LeftAlone
<1>. QED
  BY <1>5, <1>6 DEF FollowInv

\* Joining, hosting, resuming and going back.
LEMMA EntersFollow ==
  ASSUME IInv, FollowInv, Back \/ \E g \in Games : Join(g) \/ HostGame(g) \/ Resume(g)
  PROVE  FollowInv'
<1>1. Len(issued) \in Nat /\ tab.tickets \in Tickets /\ issued \in Seq(Games)
  BY ServerSame, TabFields DEF TabTypeOK, IInv, TypeOK, RoomTypeOK
<1>2. CASE Back
  <2>1. \/ UNCHANGED <<tab, store, heard, linkVars, sock, roomVars>>
        \/ /\ role = "host" /\ page = "question" /\ EnterHostLobby(code, hostTicket)
           /\ UNCHANGED <<tab, store, heard, roomVars>>
    BY <1>2 DEF Back
  <2>. QED
    BY <2>1, PageFollows, LobbyAgainFollows
<1>3. ASSUME NEW t, t = Len(issued) + 1, t <= tab.tickets, Connect(t),
             UNCHANGED <<tab, heard, seat>>,
             store' = store \/ \E p : store' = [store EXCEPT !.me = p]
      PROVE  FollowInv'
  <2>1. t \in Tickets /\ t \in Nat /\ Fits(sock, t)
    <3>1. t \in Nat /\ Len(issued) <= t /\ t \in Tickets
      BY <1>1, <1>3, TicketFacts, ClientAssumption
    <3>. QED
      BY <3>1, FitsMore DEF IInv
  <2>2. Dial(t) /\ listening' /\ t <= t
    BY <1>3, <2>1 DEF Connect
  <2>. QED
    BY <1>3, <2>1, <2>2, DialFollows
<1>4. ASSUME NEW g \in Games, Join(g) PROVE FollowInv'
  <2>1. PICK t : t = Len(issued) + 1
    OBVIOUS
  <2>2. /\ t <= tab.tickets /\ Connect(t) /\ UNCHANGED <<tab, heard, seat>>
        /\ store' = [store EXCEPT !.me = t]
    BY <1>4, <2>1 DEF Join
  <2>. QED
    BY <1>3, <2>1, <2>2
<1>5. ASSUME NEW g \in Games, HostGame(g) PROVE FollowInv'
  <2>1. PICK t : t = Len(issued) + 1
    OBVIOUS
  <2>2. t <= tab.tickets /\ Connect(t) /\ UNCHANGED <<tab, heard, seat, store>>
    BY <1>5, <2>1 DEF HostGame, EnterHostLobby
  <2>. QED
    BY <1>3, <2>1, <2>2
<1>6. ASSUME NEW g \in Games, Resume(g) PROVE FollowInv'
  <2>1. PICK t : t = Len(issued) + 1
    OBVIOUS
  <2>2. /\ t <= tab.tickets /\ UNCHANGED <<tab, heard, seat, store, room>>
        /\ issued' = Append(issued, g)
        /\ Connect(t) \/ UNCHANGED <<linkVars, sock>>
    BY <1>6, <2>1 DEF Resume, EnterHostLobby
  <2>. QED
    BY <1>3, <2>1, <2>2, IssueFollows
<1>. QED
  BY <1>2, <1>4, <1>5, <1>6

\* A message that is sent waits on the current connection; without one it is lost.
LEMMA SendSends ==
  ASSUME IInv, NEW m \in Ups, Send(m)
  PROVE  /\ ~Connected => sock' = sock
         /\ \A i \in Sockets :
              /\ sock'[i].st = sock[i].st /\ sock'[i].ticket = sock[i].ticket
              /\ sock'[i].down = sock[i].down
              /\ sock'[i].up = IF Connected /\ i = ws THEN Append(sock[i].up, m) ELSE sock[i].up
<1>1. CASE ~Connected
  BY <1>1 DEF Send
<1>2. CASE Connected
  <2>1. ws \in Sockets /\ sock \in [Sockets -> Links]
    BY <1>2, ServerSame DEF LinksTyped, Connected, Fits
  <2>2. sock' = [sock EXCEPT ![ws].up = Append(@, m)]
    BY <1>2 DEF Send
  <2>. QED
    BY <1>2, <2>1, <2>2 DEF Links
<1>. QED
  BY <1>1, <1>2

\* The tab sends m, and its store may change with it.
LEMMA SendFollows ==
  ASSUME IInv, FollowInv, NEW m \in Ups, Send(m), UNCHANGED <<tab, heard, linkVars, roomVars>>,
         Plays(m) => role = "player",
         heard = {} => store' = store, store'.question = store.question,
         store'.answer = store.answer \/ store.answer = None,
         IsSubmit(m) => /\ store.question # None /\ m.option = store'.answer
                        /\ m.option[1] = store.question,
         \A i \in Sockets, e \in Stores :
           Current(i) /\ Leads(store, sock[i].down, e) /\ Shows(i, e, sock[i].up) =>
             \E f \in Stores : Leads(store', sock[i].down, f) /\ Shows(i, f, Append(sock[i].up, m))
  PROVE  FollowInv'
<1>1. /\ ~Connected => sock' = sock
      /\ \A i \in Sockets :
           /\ sock'[i].st = sock[i].st /\ sock'[i].ticket = sock[i].ticket
           /\ sock'[i].down = sock[i].down
           /\ sock'[i].up = IF Connected /\ i = ws THEN Append(sock[i].up, m) ELSE sock[i].up
  BY SendSends
<1>2. /\ UNCHANGED <<ws, url, closed, listening, issued, room, seat>> /\ role' = role
      /\ ws \in Sockets \cup {0} /\ heard' = heard
  BY ServerSame DEF linkVars, roomVars, role, LinksTyped
<1>3. /\ \A i \in Sockets : Open(i)' = Open(i) /\ GameOf(i)' = GameOf(i)
      /\ \A g : Seated(g)' = Seated(g)
  <2>1. SameEnds(sock')
    BY <1>1 DEF SameEnds
  <2>. QED
    BY <1>2, <2>1, SameMembers
<1>4. \A i \in Sockets : sock[i].up \in Seq(Ups)
  BY SockFits, LinkFields DEF IInv
<1>5. ASSUME NEW i \in Sockets, NEW k \in DOMAIN sock'[i].up
      PROVE  \/ k \in DOMAIN sock[i].up /\ sock'[i].up[k] = sock[i].up[k]
             \/ sock'[i].up[k] = m
  <2>1. CASE sock'[i].up = sock[i].up
    BY <1>5, <2>1
  <2>2. CASE sock'[i].up = Append(sock[i].up, m)
    <3> DEFINE u == sock[i].up
    <3>1. /\ u \in Seq(Ups) /\ Len(u) \in Nat /\ DOMAIN u = 1 .. Len(u)
          /\ DOMAIN Append(u, m) = 1 .. Len(u) + 1 /\ Append(u, m)[Len(u) + 1] = m
          /\ \A l \in 1 .. Len(u) : Append(u, m)[l] = u[l]
      <4>1. u \in Seq(Ups)
        BY <1>4
      <4> HIDE DEF u
      <4>. QED
        BY <4>1, AppendProperties, LenProperties
    <3> HIDE DEF u
    <3>2. k \in 1 .. Len(u) + 1
      BY <1>5, <2>2, <3>1 DEF u
    <3>3. k \in 1 .. Len(u) \/ k = Len(u) + 1
      BY <3>1, <3>2
    <3>. QED
      BY <2>2, <3>1, <3>3 DEF u
  <2>. QED
    BY <1>1, <2>1, <2>2
<1>6. Quiet'
  <2>1. Listens'
    BY <1>1, <1>2 DEF FollowInv, Quiet, Listens
  <2>2. Silent'
    <3> SUFFICES ASSUME NEW i \in Sockets, ~Open(i) PROVE sock'[i].up = <<>>
      BY <1>3 DEF Silent
    <3>1. ~(Connected /\ i = ws)
      BY DEF Connected
    <3>. QED
      BY <1>1, <3>1 DEF FollowInv, Quiet, Silent
  <2>3. Unheard'
    BY <1>2 DEF FollowInv, Quiet, Unheard
  <2>4. HostOnlyHosts'
    <3>1. ASSUME role = "host", NEW i \in Sockets, NEW k \in DOMAIN sock'[i].up
          PROVE  ~Plays(sock'[i].up[k])
      <4>1. role # "player"
        BY <3>1
      <4>. QED
        BY <1>5, <3>1, <4>1 DEF FollowInv, Quiet, HostOnlyHosts
    <3>. QED
      BY <1>2, <3>1 DEF FollowInv, Quiet, HostOnlyHosts
  <2>. QED
    BY <2>1, <2>2, <2>3, <2>4 DEF Quiet
<1>7. ASSUME NEW i \in Sockets, Current(i)' PROVE Follows(i)' /\ AnswersOf(i)'
  <2>1. Current(i) /\ i = ws
    BY <1>1, <1>2, <1>3, <1>7 DEF Current
  <2>2. Connected /\ sock'[i].up = Append(sock[i].up, m)
    <3>1. Connected
      BY <2>1 DEF Current, Connected, Sockets
    <3>. QED
      BY <1>1, <2>1, <3>1
  <2>3. Follows(i) /\ AnswersOf(i)
    BY <2>1 DEF FollowInv
  <2>4. Follows(i)'
    <3>1. PICK e \in Stores : Leads(store, sock[i].down, e) /\ Shows(i, e, sock[i].up)
      BY <2>3 DEF Follows
    <3>2. PICK f \in Stores : Leads(store', sock[i].down, f) /\ Shows(i, f, Append(sock[i].up, m))
      BY <2>1, <3>1
    <3>3. Shows(i, f, sock[i].up)'
      <4>1. Who(GameOf(i))' = Who(GameOf(i))
        BY <1>2, <1>3 DEF Who
      <4>. QED
        BY <1>1, <1>2, <1>3, <2>2, <3>2, <4>1 DEF Shows
    <3>4. Leads(store', sock'[i].down, f)
      BY <1>1, <3>2
    <3>. QED
      BY <3>3, <3>4 DEF Follows
  <2>5. AnswersOf(i)'
    <3>1. Seen(i)' = Seen(i)
      BY <1>1, <1>2 DEF Seen, Heard
    <3>2. IsSubmit(m) => m.option[1][2] <= Seen(i)
      <4> SUFFICES ASSUME IsSubmit(m) PROVE m.option[1][2] <= Seen(i)
        OBVIOUS
      <4>1. heard # {} /\ heard \subseteq {sock[i].ticket}
        BY <2>1 DEF IInv, HeardInv, Current
      <4>2. Seen(i) = m.option[1][2]
        BY <4>1 DEF Seen, Heard
      <4>3. Seen(i) \in Nat
        BY <2>1, SeenFacts DEF Current
      <4>. QED
        BY <4>2, <4>3
    <3>3. ASSUME NEW k \in DOMAIN sock[i].up, IsSubmit(sock[i].up[k])
          PROVE  /\ sock[i].up[k].option[1][2] <= Seen(i)
                 /\ sock[i].up[k].option[1] = store.question =>
                      sock[i].up[k].option = store'.answer
      <4> DEFINE o == sock[i].up[k].option
      <4>1. o[1][2] <= Seen(i) /\ (o[1] = store.question => o = store.answer)
        BY <2>3, <3>3 DEF AnswersOf
      <4>2. o \in Options
        <5>1. sock[i].up[k] \in Ups
          BY <1>4, ElementOfSeq, LenProperties
        <5>. QED
          BY <3>3, <5>1 DEF Ups, IsSubmit
      <4>3. o # None
        BY <4>2, StoreAssumption
      <4>. QED
        BY <4>1, <4>3
    <3>4. ASSUME NEW k \in DOMAIN sock'[i].up, IsSubmit(sock'[i].up[k])
          PROVE  /\ sock'[i].up[k].option[1][2] <= Seen(i)
                 /\ sock'[i].up[k].option[1] = store.question =>
                      sock'[i].up[k].option = store'.answer
      <4>1. CASE sock'[i].up[k] = m
        BY <3>2, <3>4, <4>1
      <4>2. CASE k \in DOMAIN sock[i].up /\ sock'[i].up[k] = sock[i].up[k]
        BY <3>3, <3>4, <4>2
      <4>. QED
        BY <1>5, <4>1, <4>2
    <3>. QED
      BY <3>1, <3>4 DEF AnswersOf
  <2>. QED
    BY <2>4, <2>5
<1>. QED
  BY <1>6, <1>7 DEF FollowInv

\* The number of power-ups left is of no concern to an agreement.
LEMMA AgreesPowerups ==
  ASSUME NEW e \in Stores, NEW n, NEW g, NEW r, NEW who, NEW me, NEW pl, NEW up,
         Agrees(e, g, r, who, me, pl, up)
  PROVE  Agrees(WithPowerups(e, n), g, r, who, me, pl, up)
<1> DEFINE f == WithPowerups(e, n)
<1>1. /\ f.question = e.question /\ f.answer = e.answer /\ f.result = e.result
      /\ f.hidden = e.hidden /\ f.board = e.board
      /\ f.room = e.room /\ f.score = e.score /\ f.finished = e.finished
  BY DEF WithPowerups, Stores
<1> HIDE DEF f
<1>. QED
  BY <1>1 DEF Agrees, RoomShown, QuestionShown, SeatShown, AnswerShown, f

\* What the person at the tab sends.
LEMMA SendsFollow ==
  ASSUME IInv, FollowInv,
         Ready \/ UsePowerup \/ StartClick \/ AdvanceClick \/ \E n \in Names : Choose(n)
  PROVE  FollowInv'
<1>1. store \in Stores
  BY ServerSame DEF TabTypeOK
<1>2. heard = {} => store.question = None
  BY DEF IInv, HeardInv
<1>3. ASSUME NEW i \in Sockets, Current(i), NEW e \in Stores, Shows(i, e, sock[i].up),
             NEW m \in Ups
      PROVE  Shows(i, e, Append(sock[i].up, m))
  <2>1. sock[i].up \in Seq(Ups)
    BY <1>3, CurrentFacts
  <2>. QED
    BY <1>3, <2>1, AgreesSent DEF Shows
<1>4. CASE Ready \/ StartClick \/ AdvanceClick
  <2>1. PICK m \in Ups : Send(m) /\ ~Plays(m)
    <3>1. CASE Ready
      <4>1. [type |-> "participant.ready"] \in Ups /\ ~Plays([type |-> "participant.ready"])
        BY DEF Ups, Plays
      <4>. QED
        BY <3>1, <4>1 DEF Ready
    <3>2. CASE StartClick
      <4>1. [type |-> "host.start_game"] \in Ups /\ ~Plays([type |-> "host.start_game"])
        BY DEF Ups, Plays
      <4>. QED
        BY <3>2, <4>1 DEF StartClick
    <3>3. CASE AdvanceClick
      <4>1. PICK ty \in {"host.next_question", "host.skip_question"} : Send([type |-> ty])
        BY <3>3 DEF AdvanceClick
      <4>2. [type |-> ty] \in Ups /\ ~Plays([type |-> ty])
        BY DEF Ups, Plays
      <4>. QED
        BY <4>1, <4>2
    <3>. QED
      BY <1>4, <3>1, <3>2, <3>3
  <2>2. UNCHANGED <<tab, heard, linkVars, roomVars>> /\ store' = store
    BY <1>4 DEF Ready, StartClick, AdvanceClick, tabVars
  <2>3. ~IsSubmit(m)
    BY <2>1 DEF Plays, IsSubmit
  <2>4. \A i \in Sockets, e \in Stores :
          Current(i) /\ Leads(store, sock[i].down, e) /\ Shows(i, e, sock[i].up) =>
            \E f \in Stores : Leads(store', sock[i].down, f) /\ Shows(i, f, Append(sock[i].up, m))
    BY <1>3, <2>2
  <2>. QED
    BY <2>1, <2>2, <2>3, <2>4, SendFollows
<1>5. CASE UsePowerup
  <2>1. PICK m \in Ups : m = [type |-> "powerup.use"]
    BY DEF Ups
  <2>2. /\ role = "player" /\ store.question # None /\ store.powerups > 0
        /\ store' = [store EXCEPT !.powerups = @ - 1]
        /\ Send(m) /\ UNCHANGED <<tab, heard, linkVars, roomVars>>
    BY <1>5, <2>1 DEF UsePowerup, PlayerSide, BonusReady
  <2>3. store' = WithPowerups(store, 0)
    <3>1. store.powerups = 1
      BY <1>1, <2>2 DEF Stores
    <3>. QED
      BY <1>1, <2>2, <3>1 DEF Stores, WithPowerups
  <2>4. store'.question = store.question /\ store'.answer = store.answer
    BY <1>1, <2>3, WithTyped
  <2>5. ~IsSubmit(m)
    BY <2>1 DEF IsSubmit
  <2>6. ASSUME NEW i \in Sockets, NEW e \in Stores, Current(i), Leads(store, sock[i].down, e),
               Shows(i, e, sock[i].up)
        PROVE  \E f \in Stores :
                 Leads(store', sock[i].down, f) /\ Shows(i, f, Append(sock[i].up, m))
    <3>1. sock[i].down \in Seq(Frames)
      BY <2>6, CurrentFacts
    <3>2. PICK f \in Stores : f = WithPowerups(e, 0)
      BY WithTyped
    <3>3. Leads(store', sock[i].down, f)
      BY <1>1, <2>3, <2>6, <3>1, <3>2, LeadsPowerups
    <3>4. Shows(i, f, sock[i].up)
      BY <2>6, <3>2, AgreesPowerups DEF Shows
    <3>5. Shows(i, f, Append(sock[i].up, m))
      BY <1>3, <2>6, <3>4
    <3>. QED
      BY <3>3, <3>5
  <2>. QED
    BY <1>2, <2>2, <2>4, <2>5, <2>6, SendFollows
<1>6. ASSUME NEW n \in Names, Choose(n) PROVE FollowInv'
  <2>1. PICK o : o = <<store.question, n>>
    OBVIOUS
  <2>2. PICK m : m = [type |-> "answer.submit", option |-> o]
    OBVIOUS
  <2>3. /\ role = "player" /\ store.question # None /\ store.answer = None
        /\ store' = WithAnswer(store, o)
        /\ Send(m) /\ UNCHANGED <<tab, heard, linkVars, roomVars>>
    BY <1>6, <2>1, <2>2 DEF Choose, Choosable, WithAnswer
  <2>4. o \in Options /\ o[1] = store.question
    <3>1. store.question \in Questions
      BY <1>1, <2>3 DEF Stores
    <3>. QED
      BY <2>1, <3>1 DEF Options, Names
  <2>5. m \in Ups /\ IsSubmit(m) /\ m.option = o
    BY <2>2, <2>4 DEF Ups, IsSubmit
  <2>6. store'.question = store.question /\ store'.answer = o
    BY <1>1, <2>3, <2>4, WithTyped
  <2>7. ASSUME NEW i \in Sockets, NEW e \in Stores, Current(i), Leads(store, sock[i].down, e),
               Shows(i, e, sock[i].up)
        PROVE  \E f \in Stores :
                 Leads(store', sock[i].down, f) /\ Shows(i, f, Append(sock[i].up, m))
    <3>1. sock[i].down \in Seq(Frames) /\ sock[i].up \in Seq(Ups)
      BY <2>7, CurrentFacts
    <3> DEFINE d == sock[i].down
    <3>2. Leads(store', d, IF \E k \in DOMAIN d : IsStart(d[k]) THEN e ELSE WithAnswer(e, o))
      BY <1>1, <2>3, <2>4, <2>7, <3>1, LeadsChosen
    <3>3. CASE \E k \in DOMAIN d : IsStart(d[k])
      BY <1>3, <2>5, <2>7, <3>2, <3>3
    <3>4. CASE ~ \E k \in DOMAIN d : IsStart(d[k])
      <4>1. e.answer = None /\ e.question = store.question
        BY <2>3, <2>7, <3>4 DEF Leads, Ties
      <4>2. PICK f \in Stores : f = WithAnswer(e, o)
        BY <2>4, WithTyped
      <4>3. Leads(store', d, f)
        BY <3>2, <3>4, <4>2
      <4>4. Shows(i, f, Append(sock[i].up, m))
        <5>1. seat[sock[i].ticket].answer # None => e.answer = seat[sock[i].ticket].answer
          BY <2>7 DEF Shows, Agrees, AnswerShown
        <5>. QED
          BY <2>3, <2>4, <2>5, <2>7, <3>1, <4>1, <4>2, <5>1, AgreesChosen DEF Shows
      <4>. QED
        BY <4>3, <4>4
    <3>. QED
      BY <3>3, <3>4
  <2>. QED
    BY <1>2, <2>3, <2>4, <2>5, <2>6, <2>7, SendFollows
<1>. QED
  BY <1>4, <1>5, <1>6

-----------------------------------------------------------------------------
(***************************************************************************)
(* The screen agrees with the room.                                        *)
(***************************************************************************)

\* A tab that was just opened follows nothing, and is quiet.
LEMMA InitFollows ==
  ASSUME Init
  PROVE  FollowInv
<1>1. ws = 0 /\ url = None /\ heard = {} /\ store = Fresh
  BY DEF Init
<1>2. \A i \in Sockets : sock[i].st = "none" /\ sock[i].up = <<>>
  BY DEF Init, NoLink
<1>3. \A i \in Sockets : ~Open(i) /\ \A k \in DOMAIN sock[i].up : FALSE
  BY <1>2 DEF Open
<1>4. \A t \in Tickets : seat[t] = NewSeat
  BY DEF Init
<1>5. Unheard
  <2>1. [Fresh EXCEPT !.me = Fresh.me] = Fresh
    BY FreshStore DEF Stores
  <2>. QED
    BY <1>1, <2>1 DEF Unheard
<1>6. Quiet
  BY <1>1, <1>2, <1>3, <1>4, <1>5 DEF Quiet, Listens, Silent, HostOnlyHosts
<1>. QED
  BY <1>3, <1>6 DEF FollowInv, Current

\* Every step leaves the frames in flight leading to a store that agrees.
LEMMA NextFollows ==
  ASSUME IInv, FollowInv, [Next]_vars
  PROVE  FollowInv'
<1>1. CASE Effects
  BY <1>1, EffectsFollow
<1>2. CASE User
  <2>1. CASE Ready \/ UsePowerup \/ StartClick \/ AdvanceClick \/ \E n \in Names : Choose(n)
    BY <2>1, SendsFollow
  <2>2. CASE Back \/ \E g \in Games : Join(g) \/ HostGame(g) \/ Resume(g)
    BY <2>2, EntersFollow
  <2>3. CASE ExitResults
    BY <2>3, ExitResultsFollows
  <2>4. CASE Reload
    BY <2>4, ReloadFollows
  <2>. QED
    BY <1>2, <2>1, <2>2, <2>3, <2>4 DEF User
<1>3. CASE Server
  <2>1. ASSUME NEW g \in Games,
               \/ RemoteHost(g) \/ QuestionCloses(g)
               \/ \E p \in Others : OtherJoins(g, p) \/ OtherLeaves(g, p)
        PROVE  FollowInv'
    BY <2>1, OthersFollow
  <2>2. ASSUME NEW i \in Sockets, Accept(i) PROVE FollowInv'
    BY <2>2, AcceptFollows
  <2>3. ASSUME NEW i \in Sockets, Receive(i) PROVE FollowInv'
    BY <2>3, ReceiveFollows
  <2>. QED
    BY <1>3, <2>1, <2>2, <2>3 DEF Server
<1>4. CASE Network
  <2>1. CASE Retry
    BY <2>1, RetryFollows
  <2>2. ASSUME NEW i \in Sockets, LinkEnds(i) PROVE FollowInv'
    BY <2>2, LinkEndsFollows
  <2>3. ASSUME NEW i \in Sockets, Drop(i) PROVE FollowInv'
    BY <2>3, DropFollows
  <2>. QED
    BY <1>4, <2>1, <2>2, <2>3 DEF Network
<1>5. CASE \E i \in Sockets : Deliver(i)
  BY <1>5, DeliverFollows
<1>6. CASE UNCHANGED vars
  BY <1>6, PageFollows DEF vars, tabVars
<1>. QED
  BY <1>1, <1>2, <1>3, <1>4, <1>5, <1>6 DEF Next

\* When nothing is in flight the store has arrived where it was led to.
LEMMA SettledShows ==
  ASSUME IInv, FollowInv, NEW i \in Sockets, Settled(i)
  PROVE  /\ Current(i) /\ Shows(i, store, <<>>) /\ GameOf(i) \in Games
         /\ seat[sock[i].ticket].answer # None =>
              /\ seat[sock[i].ticket].answer \in Options
              /\ seat[sock[i].ticket].answer[1] = Asked(GameOf(i))
<1>1. Current(i) /\ sock[i].up = <<>> /\ sock[i].down = <<>>
  BY DEF Settled, Sole, Current
<1>2. Follows(i) /\ GameOf(i) \in Games /\ store \in Stores
  BY <1>1, CurrentFacts DEF FollowInv
<1>3. Shows(i, store, <<>>)
  <2>1. PICK e \in Stores : Leads(store, <<>>, e) /\ Shows(i, e, <<>>)
    BY <1>1, <1>2 DEF Follows
  <2>2. e = store
    BY <1>2, <2>1, LeadsNowhere
  <2>. QED
    BY <2>1, <2>2
<1>4. ASSUME seat[sock[i].ticket].answer # None
      PROVE  /\ seat[sock[i].ticket].answer \in Options
             /\ seat[sock[i].ticket].answer[1] = Asked(GameOf(i))
  <2>1. /\ sock[i].ticket \in Tickets /\ seat[sock[i].ticket] \in Seats
        /\ role = "player" => sock[i].ticket \in Seated(GameOf(i))
    BY <1>1, CurrentFacts
  <2>2. role = "player"
    <3>1. role \in {"player", "host"}
      BY TabFields DEF IInv, TypeOK, TabTypeOK
    <3>2. NewSeat.answer = None
      BY DEF NewSeat
    <3>. QED
      BY <1>4, <2>1, <3>1, <3>2 DEF FollowInv, Quiet, HostOnlyHosts
  <2>. QED
    BY <1>2, <1>4, <2>1, <2>2 DEF IInv, SeatInv, AnswersMeetTheirQuestion, Seats
<1>. QED
  BY <1>1, <1>2, <1>3, <1>4

\* What the pages make of a store that agrees.
LEMMA ShownIsAgreed ==
  ASSUME NEW s, NEW q, NEW a, a # None => a \in Options /\ a[1] = q, s.question = q
  PROVE  /\ PlayerScreen(s).question = q /\ HostScreen(s).question = q
         /\ s.result = None =>
              /\ PlayerScreen(s).verdict = {} /\ HostScreen(s).button = "skip"
              /\ s.hidden = {<<q, "wrong">>} => PlayerScreen(s).dimmed # {}
              /\ s.hidden = {} => PlayerScreen(s).dimmed = {}
         /\ s.result # None =>
              /\ PlayerScreen(s).verdict = {s.result.right}
              /\ HostScreen(s).button = "next" /\ HostScreen(s).marked = {"right"}
              /\ a # None /\ s.answer = a =>
                   PlayerScreen(s).option[a[2]] = IF Right(a) THEN "correct" ELSE "wrong"
         /\ HostScreen(s).board = s.board /\ PlayerSide(s).board = s.board
<1>1. /\ PlayerScreen(s).question = q /\ HostScreen(s).question = q
      /\ HostScreen(s).board = s.board /\ PlayerSide(s).board = s.board
  BY DEF PlayerScreen, HostScreen, PlayerSide
<1>2. ASSUME s.result = None
      PROVE  /\ PlayerScreen(s).verdict = {} /\ HostScreen(s).button = "skip"
             /\ s.hidden = {<<q, "wrong">>} => PlayerScreen(s).dimmed # {}
             /\ s.hidden = {} => PlayerScreen(s).dimmed = {}
  <2>1. PlayerScreen(s).verdict = {} /\ HostScreen(s).button = "skip"
    BY <1>2 DEF PlayerScreen, HostScreen, Revealing
  <2>2. PlayerScreen(s).dimmed = {n \in Names : <<q, n>> \in s.hidden}
    BY <1>2 DEF PlayerScreen, IsHidden, Revealing
  <2>. QED
    BY <2>1, <2>2 DEF Names
<1>3. ASSUME s.result # None
      PROVE  /\ PlayerScreen(s).verdict = {s.result.right}
             /\ HostScreen(s).button = "next" /\ HostScreen(s).marked = {"right"}
  <2>1. HostScreen(s).marked = {n \in Names : n = "right"}
    BY <1>3 DEF HostScreen, Revealing
  <2>2. PlayerScreen(s).verdict = {s.result.right} /\ HostScreen(s).button = "next"
    BY <1>3 DEF PlayerScreen, HostScreen, Revealing
  <2>. QED
    BY <2>1, <2>2 DEF Names
<1>4. ASSUME s.result # None, a # None, s.answer = a
      PROVE  PlayerScreen(s).option[a[2]] = IF Right(a) THEN "correct" ELSE "wrong"
  <2>1. a[2] \in Names /\ a = <<q, a[2]>>
    BY <1>4 DEF Options, Names
  <2>2. PlayerScreen(s).option[a[2]] = OptionState(s, a)
    BY <2>1 DEF PlayerScreen
  <2>. QED
    BY <1>4, <2>2 DEF OptionState, Revealing, Right
<1>. QED
  BY <1>1, <1>2, <1>3, <1>4

\* A settled tab shows what its room holds.
LEMMA FollowedAgrees ==
  ASSUME IInv, FollowInv
  PROVE  ScreenAgrees
<1> SUFFICES ASSUME NEW i \in Sockets, Settled(i),
                    NEW g, g = GameOf(i), NEW r, r = room[g],
                    NEW me, me = seat[sock[i].ticket]
             PROVE  /\ store.room # None /\ store.room.game = g
                    /\ store.room.who = Seated(g) \cup r.others
                    /\ r.status \in {"lobby", "in_progress"} => store.room.status = r.status
                    /\ r.status = "finished" =>
                         store.finished = g \/ store.room.status = "finished"
                    /\ r.status = "lobby" => store.question = None
                    /\ role = "player" =>
                         /\ store.score = me.score
                         /\ r.open => /\ PlayerScreen(store).question = Asked(g)
                                      /\ PlayerScreen(store).verdict = {}
                                      /\ store.answer = me.answer
                                      /\ (PlayerScreen(store).dimmed # {}) = me.used
                    /\ store.question # None =>
                         /\ HostScreen(store).question = Asked(g)
                         /\ HostScreen(store).players = Cardinality(Seated(g) \cup r.others)
                         /\ HostScreen(store).button = (IF r.open THEN "skip" ELSE "next")
                         /\ ~r.open =>
                              /\ HostScreen(store).marked = {"right"}
                              /\ HostScreen(store).board = Asked(g)
                              /\ PlayerSide(store).board = Asked(g)
                              /\ PlayerScreen(store).verdict = {Right(me.answer)}
                              /\ me.answer # None =>
                                   PlayerScreen(store).option[me.answer[2]] =
                                     IF Right(me.answer) THEN "correct" ELSE "wrong"
  BY DEF ScreenAgrees
<1>1. /\ Agrees(store, g, r, Seated(g) \cup r.others, me, role = "player", <<>>)
      /\ g \in Games
      /\ me.answer # None => me.answer \in Options /\ me.answer[1] = Asked(g)
  BY SettledShows DEF Shows, Who
<1>2. RoomShown(store, g, r, Seated(g) \cup r.others) /\ QuestionShown(store, g, r, me)
  BY <1>1 DEF Agrees
<1>3. Asked(g) = <<g, r.cur>>
  BY DEF Asked
<1>4. store.question # None => store.question = Asked(g)
  BY <1>2, <1>3 DEF QuestionShown
<1>5. me.answer # None => store.answer = me.answer
  BY <1>1 DEF Agrees, AnswerShown
<1>6. ASSUME role = "player"
      PROVE  /\ store.score = me.score
             /\ r.open => /\ PlayerScreen(store).question = Asked(g)
                          /\ PlayerScreen(store).verdict = {}
                          /\ store.answer = me.answer
                          /\ (PlayerScreen(store).dimmed # {}) = me.used
  <2>1. SeatShown(store, g, r, me)
    BY <1>1, <1>6 DEF Agrees
  <2>2. ASSUME r.open
        PROVE  /\ PlayerScreen(store).question = Asked(g)
               /\ PlayerScreen(store).verdict = {}
               /\ (PlayerScreen(store).dimmed # {}) = me.used
    <3>1. /\ store.question = Asked(g) /\ me.used \in BOOLEAN
          /\ store.hidden = IF me.used THEN {<<Asked(g), "wrong">>} ELSE {}
      BY <1>3, <2>1, <2>2, CurrentFacts, SettledShows DEF SeatShown, Seats
    <3>2. Asked(g) # None
      <4>1. Asked(g) \in Questions
        BY <1>1, <2>2, RoomFields
      <4>. QED
        BY <4>1, StoreAssumption
    <3>3. store.result = None
      BY <1>2, <2>2, <3>1, <3>2 DEF QuestionShown
    <3>. QED
      BY <1>1, <3>1, <3>3, ShownIsAgreed
  <2>3. ASSUME r.open PROVE store.answer = me.answer
    <3>1. ASSUME me.answer = None PROVE store.answer = None
      BY <1>1, <1>6, <2>3, <3>1 DEF Agrees, AnswerShown
    <3>. QED
      BY <1>5, <3>1
  <2>. QED
    BY <2>1, <2>2, <2>3 DEF SeatShown
<1>7. ASSUME store.question # None
      PROVE  /\ HostScreen(store).question = Asked(g)
             /\ HostScreen(store).players = Cardinality(Seated(g) \cup r.others)
             /\ HostScreen(store).button = (IF r.open THEN "skip" ELSE "next")
             /\ ~r.open =>
                  /\ HostScreen(store).marked = {"right"}
                  /\ HostScreen(store).board = Asked(g)
                  /\ PlayerSide(store).board = Asked(g)
                  /\ PlayerScreen(store).verdict = {Right(me.answer)}
                  /\ me.answer # None =>
                       PlayerScreen(store).option[me.answer[2]] =
                         IF Right(me.answer) THEN "correct" ELSE "wrong"
  <2>1. HostScreen(store).players = Cardinality(Seated(g) \cup r.others)
    BY <1>2 DEF HostScreen, HeadCount, RoomShown
  <2>2. /\ r.open => store.result = None
        /\ ~r.open => /\ store.result # None /\ store.result.right = Right(me.answer)
                      /\ store.board = Asked(g)
    BY <1>2, <1>3, <1>7 DEF QuestionShown
  <2>3. HostScreen(store).question = Asked(g)
    BY <1>1, <1>4, <1>7, ShownIsAgreed
  <2>4. CASE r.open
    BY <1>1, <1>4, <1>7, <2>1, <2>2, <2>3, <2>4, ShownIsAgreed
  <2>5. ASSUME ~r.open
        PROVE  /\ HostScreen(store).button = "next"
               /\ HostScreen(store).marked = {"right"}
               /\ HostScreen(store).board = Asked(g) /\ PlayerSide(store).board = Asked(g)
               /\ PlayerScreen(store).verdict = {Right(me.answer)}
               /\ me.answer # None =>
                    PlayerScreen(store).option[me.answer[2]] =
                      IF Right(me.answer) THEN "correct" ELSE "wrong"
    <3>1. store.question = Asked(g) /\ store.result # None /\ store.board = Asked(g)
      BY <1>4, <1>7, <2>2, <2>5
    <3>2. HostScreen(store).button = "next" /\ HostScreen(store).marked = {"right"}
      BY <1>1, <3>1, ShownIsAgreed
    <3>3. PlayerScreen(store).verdict = {store.result.right}
      BY <1>1, <3>1, ShownIsAgreed
    <3>4. PlayerScreen(store).verdict = {Right(me.answer)}
      BY <2>2, <2>5, <3>3
    <3>5. me.answer # None =>
            PlayerScreen(store).option[me.answer[2]] =
              IF Right(me.answer) THEN "correct" ELSE "wrong"
      BY <1>1, <1>5, <3>1, ShownIsAgreed
    <3>6. HostScreen(store).board = Asked(g) /\ PlayerSide(store).board = Asked(g)
      BY <1>1, <3>1, ShownIsAgreed
    <3>. QED
      BY <3>2, <3>4, <3>5, <3>6
  <2>. QED
    BY <2>1, <2>3, <2>4, <2>5
<1>. QED
  BY <1>2, <1>6, <1>7 DEF RoomShown

\* A tab whose one connection has nothing in flight shows what its room holds, whatever
\* order joins, answers, clicks, lost connections and reloads came in: who is there, the
\* question and whether it is open, the choice that counts, the options taken away, the
\* verdict and the score (store.ts: handle, against room.go's broadcasts).
THEOREM ScreensAgree == Spec => []ScreenAgrees
<1>1. Init => FollowInv
  BY InitFollows
<1>2. IInv /\ FollowInv /\ [Next]_vars => FollowInv'
  BY NextFollows
<1>3. IInv /\ FollowInv => ScreenAgrees
  BY FollowedAgrees
<1>. QED
  BY <1>1, <1>2, <1>3, Invariance, PTL DEF Spec
=============================================================================
