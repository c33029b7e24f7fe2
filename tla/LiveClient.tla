----------------------------- MODULE LiveClient -----------------------------
(***************************************************************************)
(* One browser tab in a live game: the pages of the player or of the host, *)
(* the store of GameStore, and the QuizSocket of ws-client.ts with its     *)
(* retries, against the rooms they talk to.                                *)
(*                                                                         *)
(* The rooms are reduced to what the frames carry (Room has their inside): *)
(* the other people of a game come, go, answer or let the time run out     *)
(* unseen, and the tab is all of the rest.  A tab is a player's or the     *)
(* host's; a ticket stands for the participant it was issued to.           *)
(*                                                                         *)
(* The router starts each navigation as a transition, so frames may be     *)
(* handled between a change of the store and the effect of a page that     *)
(* waits for it: every effect is an action of its own.  A second listener  *)
(* on the socket repeats `handle` with the same frame, which changes       *)
(* nothing (LiveClientProofs!HandleTwice), hence only whether there is one  *)
(* is kept.                                                                *)
(***************************************************************************)
EXTENDS GameStore

CONSTANTS Setups,      \* the tabs: whose it is, the tickets it may be issued, the
                       \* others who may come to its games, the games' questions
          MaxTickets,
          MaxSockets,  \* WebSockets alive at a time
          MaxRetries,  \* reconnection timers pending at a time
          MaxUp,       \* frames in flight from the tab
          MaxDown      \* frames in flight to the tab

Tickets == 1 .. MaxTickets
Sockets == 1 .. MaxSockets

ASSUME ClientAssumption ==
  /\ MaxTickets \in Nat /\ Tickets \subseteq People
  /\ MaxSockets \in Nat \ {0} /\ MaxRetries \in Nat /\ MaxUp \in Nat
  /\ MaxDown \in Nat \ {0, 1}     \* room for what a new connection is sent
  /\ Setups \subseteq [role : {"player", "host"}, tickets : Tickets,
                       others : SUBSET (People \ Tickets), questions : Indexes]

VARIABLES
  \* the tab
  tab,                 \* one of Setups
  page,
  code,                \* the room in the page's address
  hostTicket,          \* sessionStorage: host_ticket
  store,               \* useLiveGame
  ws, url, closed,     \* quizSocket: the current socket, its ticket, closed
  listening,           \* whether quizSocket has listeners
  retries,             \* timers that will call open()
  sock,                \* every WebSocket of the tab, with its two directions
  \* the server
  issued,              \* the games of the tickets issued, in order
  spent,               \* the tickets redeemed
  room, seat,
  \* history
  heard                \* tickets whose frames the store has seen since Fresh

tabVars  == <<tab, page, code, hostTicket, store, heard>>
linkVars == <<ws, url, closed, listening, retries>>
roomVars == <<issued, spent, room, seat>>
vars     == <<tabVars, linkVars, sock, roomVars>>

role   == tab.role
Others == tab.others

Pages   == {"home", "lobby", "question", "results"}
NoLink  == [st |-> "none", ticket |-> 0, up |-> <<>>, down |-> <<>>]
NewSeat == [answer |-> None, score |-> 0, left |-> 0, used |-> FALSE]

Init ==
  /\ tab \in Setups /\ page = "home"
  /\ code = None /\ hostTicket = None
  /\ store = Fresh /\ heard = {}
  /\ ws = 0 /\ url = None /\ closed = FALSE /\ listening = FALSE /\ retries = 0
  /\ sock = [i \in Sockets |-> NoLink]
  /\ issued = <<>> /\ spent = {}
  /\ room = [g \in Games |->
               [status |-> IF role = "host" THEN "none" ELSE "lobby",
                cur |-> 0, open |-> FALSE, others |-> {}]]
  /\ seat = [t \in Tickets |-> NewSeat]

-----------------------------------------------------------------------------
(***************************************************************************)
(* The rooms.                                                              *)
(***************************************************************************)
Open(i)      == sock[i].st = "open"
GameOf(i)    == issued[sock[i].ticket]
Members(g)   == {i \in Sockets : Open(i) /\ GameOf(i) = g}
Seated(g)    == IF role = "player" THEN {sock[i].ticket : i \in Members(g)} ELSE {}
Right(a)     == a # None /\ a[2] = "right"
Asked(g)     == <<g, room[g].cur>>

StateOf(g, who) == [type |-> "room.state", game |-> g, status |-> room[g].status, who |-> who]
About(type, p)  == [type |-> type, who |-> p]
Start(g, n)     == [type |-> "question.start", question |-> <<g, n>>]

\* Each connection i of DOMAIN frames gets frames[i], after those it waits for.
Tell(sk, frames) ==
  [i \in Sockets |->
     IF i \in DOMAIN frames THEN [sk[i] EXCEPT !.down = @ \o frames[i]] ELSE sk[i]]

TellAll(sk, g, fs) == Tell(sk, [i \in Members(g) |-> fs])

\* Bound: nothing is sent to a connection that waits for MaxDown frames.
Reachable(g, n) == \A i \in Members(g) : Len(sock[i].down) + n <= MaxDown

\* The message at the head of i's queue is taken.
Took(i) == [sock EXCEPT ![i].up = Tail(@)]

ReplyError(i) ==
  /\ sock' = [Took(i) EXCEPT ![i].down = Append(@, [type |-> "error"])]
  /\ UNCHANGED <<room, seat>>

\* startGame: a power-up for every player there, room.state, question.start.
StartGame(sk, g) ==
  /\ Reachable(g, 2)
  /\ room' = [room EXCEPT ![g].status = "in_progress", ![g].cur = 1, ![g].open = TRUE]
  /\ seat' = [t \in Tickets |-> IF t \in Seated(g) THEN [seat[t] EXCEPT !.left = 1] ELSE seat[t]]
  /\ sock' = TellAll(sk, g, <<[StateOf(g, Seated(g) \cup room[g].others)
                                 EXCEPT !.status = "in_progress"], Start(g, 1)>>)

\* The right answers of the open question are counted.
Counted(g, seats) ==
  [t \in Tickets |-> IF t \in Seated(g) /\ Right(seats[t].answer)
                     THEN [seats[t] EXCEPT !.score = @ + 1] ELSE seats[t]]

Ending(g, seats, i) ==
  LET s == Counted(g, seats)[sock[i].ticket] IN
  << [type |-> "question.end", question |-> Asked(g), right |-> Right(s.answer), score |-> s.score],
     [type |-> "leaderboard.update", question |-> Asked(g), score |-> s.score] >>

\* finishQuestion, with the answers in seats.
CloseQuestion(sk, g, seats) ==
  /\ room' = [room EXCEPT ![g].open = FALSE]
  /\ seat' = Counted(g, seats)
  /\ sock' = Tell(sk, [i \in Members(g) |-> Ending(g, seats, i)])

\* handleHostAdvance: what is open is finished, then the next question or the end.
Advance(sk, g) ==
  LET last == room[g].cur = tab.questions
      next == IF last THEN [type |-> "game.finished", game |-> g] ELSE Start(g, room[g].cur + 1)
      end(i) == IF room[g].open THEN Ending(g, seat, i) ELSE <<>>
      counted == IF room[g].open THEN Counted(g, seat) ELSE seat
  IN /\ Reachable(g, 3)
     /\ sock' = Tell(sk, [i \in Members(g) |-> Append(end(i), next)])
     /\ room' = IF last THEN [room EXCEPT ![g].open = FALSE, ![g].status = "finished"]
                ELSE [room EXCEPT ![g].open = TRUE, ![g].cur = @ + 1]
     /\ seat' = IF last THEN counted
                ELSE [t \in Tickets |-> IF t \in Seated(g)
                                        THEN [counted[t] EXCEPT !.answer = None, !.used = FALSE]
                                        ELSE counted[t]]

\* Mutant: the options of an answer are not compared with the question's.
AnswerCountsUnchecked(g, t, o) == room[g].open /\ seat[t].answer = None

\* handleAnswerSubmit: only an open question, once, and with its own options.
AnswerCounts(g, t, o) == room[g].open /\ seat[t].answer = None /\ o[1] = Asked(g)

TakeAnswer(i, o) ==
  LET g == GameOf(i)
      t == sock[i].ticket
      seats == [seat EXCEPT ![t].answer = o]
      waited == \E u \in Seated(g) : seats[u].answer = None
  IN IF ~AnswerCounts(g, t, o) THEN Reachable(g, 1) /\ ReplyError(i)
     ELSE \/ /\ waited \/ room[g].others # {}
             /\ seat' = seats /\ sock' = Took(i) /\ UNCHANGED room
          \* It was the last one missing.
          \/ ~waited /\ Reachable(g, 2) /\ CloseQuestion(Took(i), g, seats)

\* handlePowerupUse and applyFiftyFifty, on single questions.
TakePowerup(i) ==
  LET g == GameOf(i)
      t == sock[i].ticket IN
  /\ Reachable(g, 1)
  /\ IF room[g].open /\ seat[t].left = 1 /\ ~seat[t].used
     THEN /\ seat' = [seat EXCEPT ![t].left = 0, ![t].used = TRUE]
          /\ sock' = [Took(i) EXCEPT ![i].down =
                        Append(@, [type |-> "powerup.applied", hidden |-> {<<Asked(g), "wrong">>}])]
          /\ UNCHANGED room
     ELSE ReplyError(i)

\* The room receives the tab's next message.
Receive(i) ==
  /\ Open(i) /\ sock[i].up # <<>>
  /\ LET m == Head(sock[i].up)
         g == GameOf(i) IN
       CASE m.type = "participant.ready" ->
              /\ Reachable(g, 1)
              /\ sock' = TellAll(Took(i), g, <<About("participant.status", sock[i].ticket)>>)
              /\ UNCHANGED <<room, seat>>
         [] m.type = "answer.submit" -> TakeAnswer(i, m.option)
         [] m.type = "powerup.use"   -> TakePowerup(i)
         [] m.type = "host.start_game" ->
              IF room[g].status = "lobby" THEN StartGame(Took(i), g)
              ELSE Reachable(g, 1) /\ ReplyError(i)
         [] OTHER ->                    \* host.next_question, host.skip_question
              IF room[g].status = "in_progress" THEN Advance(Took(i), g)
              ELSE Reachable(g, 1) /\ ReplyError(i)
  /\ UNCHANGED <<tabVars, linkVars, issued, spent>>

\* The host of a player's game is another tab.
RemoteHost(g) ==
  /\ role = "player"
  /\ \/ room[g].status = "lobby" /\ StartGame(sock, g)
     \/ room[g].status = "in_progress" /\ Advance(sock, g)
  /\ UNCHANGED <<tabVars, linkVars, issued, spent>>

\* The time is over, or the last of the others has answered.
QuestionCloses(g) ==
  /\ room[g].open /\ Reachable(g, 2)
  /\ CloseQuestion(sock, g, seat)
  /\ UNCHANGED <<tabVars, linkVars, issued, spent>>

OtherJoins(g, p) ==
  /\ room[g].status = "lobby" /\ p \notin room[g].others
  /\ Reachable(g, 1)
  /\ room' = [room EXCEPT ![g].others = @ \cup {p}]
  /\ sock' = TellAll(sock, g, <<About("participant.joined", p)>>)
  /\ UNCHANGED <<tabVars, linkVars, issued, spent, seat>>

OtherLeaves(g, p) ==
  /\ p \in room[g].others /\ Reachable(g, 1)
  /\ room' = [room EXCEPT ![g].others = @ \ {p}]
  /\ sock' = TellAll(sock, g, <<About("participant.left", p)>>)
  /\ UNCHANGED <<tabVars, linkVars, issued, spent, seat>>

\* The ticket is redeemed, the room told: room.state, and for a player the
\* question that is open.
Accept(i) ==
  LET t == sock[i].ticket
      g == issued[t]
      hello == <<StateOf(g, Seated(g) \cup room[g].others
                              \cup (IF role = "player" THEN {t} ELSE {}))>>
      replay == IF role = "player" /\ room[g].open THEN <<Start(g, room[g].cur)>> ELSE <<>>
      heads == IF role = "player" THEN TellAll(sock, g, <<About("participant.joined", t)>>) ELSE sock
  IN /\ sock[i].st = "dialing" /\ t \notin spent
     /\ Reachable(g, 1)
     /\ spent' = spent \cup {t}
     /\ sock' = [heads EXCEPT ![i].st = "open", ![i].down = hello \o replay]
     /\ UNCHANGED <<tabVars, linkVars, issued, room, seat>>

-----------------------------------------------------------------------------
(***************************************************************************)
(* QuizSocket.                                                             *)
(***************************************************************************)
Connected == ws # 0 /\ Open(ws)

\* Bound: MaxSockets.
FreeSocket == CHOOSE i \in Sockets : sock[i].st = "none"
HasSocket  == \E i \in Sockets : sock[i].st = "none"

Dial(t) ==
  /\ HasSocket
  /\ ws' = FreeSocket
  /\ sock' = [sock EXCEPT ![FreeSocket] = [NoLink EXCEPT !.st = "dialing", !.ticket = t]]

\* connect and on: whatever socket there was stays open.
Connect(t) ==
  /\ url' = t /\ closed' = FALSE /\ listening' = TRUE
  /\ Dial(t)
  /\ UNCHANGED retries

\* onclose: a timer for the next attempt, unless close() was called.
\* Bound: MaxRetries.
OnClose(i, sk) ==
  /\ closed \/ retries < MaxRetries
  /\ retries' = IF closed THEN retries ELSE retries + 1
  /\ ws' = IF ws = i THEN 0 ELSE ws
  /\ sock' = [sk EXCEPT ![i] = NoLink]
  /\ UNCHANGED <<url, closed, listening>>

\* A spent ticket is refused; a closing handshake ends.
LinkEnds(i) ==
  /\ \/ sock[i].st = "dialing" /\ sock[i].ticket \in spent
     \/ sock[i].st = "closing"
  /\ OnClose(i, sock)
  /\ UNCHANGED <<tabVars, roomVars>>

\* handleLeave: the others of the room are told of a player.
Parted(i) == IF role = "player" /\ Open(i)
             THEN TellAll(sock, GameOf(i), <<About("participant.left", sock[i].ticket)>>)
             ELSE sock

\* A connection is lost, with all that was in flight; the room sees a leave.
Drop(i) ==
  /\ Open(i) /\ Reachable(GameOf(i), 1)
  /\ OnClose(i, Parted(i))
  /\ seat' = [seat EXCEPT ![sock[i].ticket] = NewSeat]    \* nobody asks for it again
  /\ UNCHANGED <<tabVars, issued, spent, room>>

\* The timer: open() with the current url.
Retry ==
  /\ retries > 0 /\ retries' = retries - 1
  /\ IF closed THEN UNCHANGED <<ws, sock>> ELSE Dial(url)
  /\ UNCHANGED <<url, closed, listening, tabVars, roomVars>>

\* onmessage.
Deliver(i) ==
  /\ Open(i) /\ sock[i].down # <<>>
  /\ sock' = [sock EXCEPT ![i].down = Tail(@)]
  /\ IF listening
     THEN /\ store' = Handle(store, Head(sock[i].down))
          /\ heard' = heard \cup {sock[i].ticket}
     ELSE UNCHANGED <<store, heard>>
  /\ UNCHANGED <<tab, page, code, hostTicket, linkVars, roomVars>>

\* send: a message is lost unless the current socket is open.
\* Bound: MaxUp messages in flight.
Send(m) ==
  IF Connected
  THEN Len(sock[ws].up) < MaxUp /\ sock' = [sock EXCEPT ![ws].up = Append(@, m)]
  ELSE UNCHANGED sock

-----------------------------------------------------------------------------
(***************************************************************************)
(* What the pages show, of a store s.                                      *)
(***************************************************************************)
Revealing(s)  == s.result # None
ReadyShown(s) == s.room # None /\ s.me \in s.room.ready
HeadCount(s)  == IF s.room = None THEN 0 ELSE Cardinality(s.room.who)
StatusIs(s, st) == s.room # None /\ s.room.status = st

OptionState(s, o) ==
  CASE Revealing(s) /\ o[2] = "right"                 -> "correct"
    [] Revealing(s) /\ o[2] # "right" /\ s.answer = o -> "wrong"
    [] ~Revealing(s) /\ s.answer = o                  -> "selected"
    [] OTHER                                          -> "default"

IsHidden(s, o)   == o \in s.hidden /\ ~Revealing(s)
Choosable(s, o)  == s.answer = None /\ ~Revealing(s) /\ ~IsHidden(s, o)
\* Mutant: the button does not look at the number left.
BonusAlways(s)   == ~Revealing(s) /\ s.answer = None

BonusReady(s)    == s.powerups > 0 /\ ~Revealing(s) /\ s.answer = None

CanStart(s)      == HeadCount(s) > 0 /\ ~StatusIs(s, "in_progress")

Names == {"right", "wrong"}

\* The player's question page: header, verdict and options ...
PlayerScreen(s) ==
  [question |-> s.question,
   score    |-> s.score,
   verdict  |-> IF Revealing(s) THEN {s.result.right} ELSE {},
   option   |-> [n \in Names |-> OptionState(s, <<s.question, n>>)],
   dimmed   |-> {n \in Names : IsHidden(s, <<s.question, n>>)}]

\* ... and what is beside them.
PlayerSide(s) == [board |-> s.board, bonus |-> BonusReady(s)]

\* The host's: how many play, the options that are marked as right, which button, and
\* the leaderboard.
HostScreen(s) ==
  [question |-> s.question,
   players  |-> HeadCount(s),
   marked   |-> {n \in Names : Revealing(s) /\ n = "right"},
   button   |-> IF Revealing(s) THEN "next" ELSE "skip",
   board    |-> s.board]

-----------------------------------------------------------------------------
(***************************************************************************)
(* Effects of the pages.                                                   *)
(***************************************************************************)
PlayerLobbyEffect ==
  /\ role = "player" /\ page = "lobby" /\ StatusIs(store, "in_progress")
  /\ page' = "question"
  /\ UNCHANGED <<tab, code, hostTicket, store, heard, linkVars, sock, roomVars>>

\* Mutant: the page looks for the end in the room's status.
PlayerQuestionEffectByStatus ==
  /\ role = "player" /\ page = "question" /\ StatusIs(store, "finished")
  /\ page' = "results"
  /\ UNCHANGED <<tab, code, hostTicket, store, heard, linkVars, sock, roomVars>>

PlayerQuestionEffect ==
  /\ role = "player" /\ page = "question" /\ store.finished # None
  /\ page' = "results"
  /\ UNCHANGED <<tab, code, hostTicket, store, heard, linkVars, sock, roomVars>>

\* The host's lobby connects when it is mounted, with the ticket that is stored.
EnterHostLobby(g, t) == page' = "lobby" /\ code' = g /\ Connect(t)

\* Both effects of the host's question page; the lobby's navigation comes last.
HostQuestionEffect ==
  /\ role = "host" /\ page = "question"
  /\ \/ StatusIs(store, "lobby") /\ EnterHostLobby(code, hostTicket)
     \/ /\ ~StatusIs(store, "lobby") /\ store.finished # None
        /\ page' = "results" /\ UNCHANGED <<code, linkVars, sock>>
  /\ UNCHANGED <<tab, hostTicket, store, heard, roomVars>>

-----------------------------------------------------------------------------
(***************************************************************************)
(* The person at the tab.                                                  *)
(***************************************************************************)
\* joinGame, connectAsPlayer and the lobby.  The store is not cleared.
\* Bound: MaxTickets.
Join(g) ==
  LET t == Len(issued) + 1 IN
  /\ role = "player" /\ page = "home" /\ room[g].status = "lobby" /\ t <= tab.tickets
  /\ issued' = Append(issued, g)
  /\ store' = [store EXCEPT !.me = t]
  /\ Connect(t)
  /\ page' = "lobby" /\ code' = g
  /\ UNCHANGED <<tab, hostTicket, heard, spent, room, seat>>

Ready ==
  /\ role = "player" /\ page = "lobby" /\ ~ReadyShown(store)
  /\ Send([type |-> "participant.ready"])
  /\ UNCHANGED <<tabVars, linkVars, roomVars>>

\* submitAnswer: shown as chosen whether or not it is sent.
Choose(n) ==
  LET o == <<store.question, n>> IN
  /\ role = "player" /\ page = "question" /\ store.question # None /\ Choosable(store, o)
  /\ store' = [store EXCEPT !.answer = o]
  /\ Send([type |-> "answer.submit", option |-> o])
  /\ UNCHANGED <<tab, page, code, hostTicket, heard, linkVars, roomVars>>

UsePowerup ==
  /\ role = "player" /\ page = "question" /\ store.question # None /\ PlayerSide(store).bonus
  /\ store' = [store EXCEPT !.powerups = @ - 1]
  /\ Send([type |-> "powerup.use"])
  /\ UNCHANGED <<tab, page, code, hostTicket, heard, linkVars, roomVars>>

\* useHostGame; the lobby it navigates to connects.
HostGame(g) ==
  LET t == Len(issued) + 1 IN
  /\ role = "host" /\ page = "home" /\ room[g].status = "none" /\ t <= tab.tickets
  /\ issued' = Append(issued, g)
  /\ room' = [room EXCEPT ![g].status = "lobby"]
  /\ hostTicket' = t /\ EnterHostLobby(g, t)
  /\ UNCHANGED <<tab, store, heard, spent, seat>>

\* useResumeSession: a new ticket; only the lobby connects with it.
Resume(g) ==
  LET t == Len(issued) + 1 IN
  /\ role = "host" /\ page = "home" /\ t <= tab.tickets
  /\ issued' = Append(issued, g) /\ hostTicket' = t
  /\ \/ room[g].status = "lobby" /\ EnterHostLobby(g, t)
     \/ /\ room[g].status = "in_progress"
        /\ page' = "question" /\ code' = g /\ UNCHANGED <<linkVars, sock>>
  /\ UNCHANGED <<tab, store, heard, spent, room, seat>>

\* handleStart sends and navigates at once, whatever the store says.
StartClick ==
  /\ role = "host" /\ page = "lobby" /\ CanStart(store)
  /\ Send([type |-> "host.start_game"])
  /\ page' = "question"
  /\ UNCHANGED <<tab, code, hostTicket, store, heard, linkVars, roomVars>>

\* The one button of the host's question page, next or skip.
AdvanceClick ==
  /\ role = "host" /\ page = "question" /\ store.question # None
  /\ Send([type |-> IF HostScreen(store).button = "next"
                    THEN "host.next_question" ELSE "host.skip_question"])
  /\ UNCHANGED <<tabVars, linkVars, roomVars>>

\* The browser's Back, or the lobby's button: nothing is disconnected.
Back ==
  /\ \/ /\ page = "lobby" \/ (page = "question" /\ role = "player")
        /\ page' = "home" /\ UNCHANGED <<code, linkVars, sock>>
     \/ page = "question" /\ role = "host" /\ EnterHostLobby(code, hostTicket)
  /\ UNCHANGED <<tab, hostTicket, store, heard, roomVars>>

\* disconnect and leave the results: the only way out that closes a socket.
ExitResults ==
  /\ page = "results" /\ page' = "home"
  /\ Connected => Reachable(GameOf(ws), 1)
  /\ closed' = TRUE /\ listening' = FALSE
  /\ store' = Fresh /\ heard' = {}
  /\ sock' = IF ws = 0 THEN sock
             ELSE [Parted(ws) EXCEPT ![ws] = [NoLink EXCEPT !.st = "closing", !.ticket = sock[ws].ticket]]
  /\ UNCHANGED <<tab, code, hostTicket, ws, url, retries, roomVars>>

\* The page is loaded again: only sessionStorage and the address survive.
Reload ==
  /\ page # "home"
  /\ store' = Fresh /\ heard' = {} /\ retries' = 0
  /\ LET t == hostTicket IN
     IF role = "host" /\ page = "lobby"
     THEN /\ url' = t /\ closed' = FALSE /\ listening' = TRUE /\ ws' = 1
          /\ sock' = [i \in Sockets |-> IF i = 1 THEN [NoLink EXCEPT !.st = "dialing", !.ticket = t]
                                        ELSE NoLink]
     ELSE /\ url' = None /\ closed' = FALSE /\ listening' = FALSE /\ ws' = 0
          /\ sock' = [i \in Sockets |-> NoLink]
  /\ seat' = [t \in Tickets |-> NewSeat]
  /\ UNCHANGED <<tab, page, code, hostTicket, issued, spent, room>>

-----------------------------------------------------------------------------
Effects == PlayerLobbyEffect \/ PlayerQuestionEffect \/ HostQuestionEffect

User ==
  \/ Ready \/ UsePowerup \/ StartClick \/ AdvanceClick \/ Back \/ ExitResults \/ Reload
  \/ \E n \in Names : Choose(n)
  \/ \E g \in Games : Join(g) \/ HostGame(g) \/ Resume(g)

Server ==
  \/ \E g \in Games : \/ RemoteHost(g) \/ QuestionCloses(g)
                      \/ \E p \in Others : OtherJoins(g, p) \/ OtherLeaves(g, p)
  \/ \E i \in Sockets : Accept(i) \/ Receive(i)

Network == Retry \/ \E i \in Sockets : LinkEnds(i) \/ Drop(i)

Next == Effects \/ User \/ Server \/ Network \/ \E i \in Sockets : Deliver(i)

Spec == Init /\ [][Next]_vars

\* The browser runs the callbacks of its sockets and the effects of its pages.
TabFairness == WF_vars(Effects) /\ \A i \in 1 .. MaxSockets : WF_vars(Deliver(i))

\* The server accepts and receives, timers fire, refused sockets end.  People
\* may do nothing, and connections need not fail.
ServerFairness ==
  /\ WF_vars(Retry)
  /\ \A i \in 1 .. MaxSockets :
       WF_vars(Accept(i)) /\ WF_vars(Receive(i)) /\ WF_vars(LinkEnds(i))

FairTabSpec == Spec /\ TabFairness
FairSpec    == Spec /\ TabFairness /\ ServerFairness

-----------------------------------------------------------------------------
(***************************************************************************)
(* Properties.                                                             *)
(***************************************************************************)
Ups == [type : {"participant.ready", "powerup.use", "host.start_game", "host.next_question",
                "host.skip_question"}]
       \cup [type : {"answer.submit"}, option : Options]

Links == [st : {"none", "dialing", "open", "closing"}, ticket : 0 .. MaxTickets,
          up : Seq(Ups), down : Seq(Frames)]
GameRooms == [status : Statuses, cur : 0 .. NQ, open : BOOLEAN, others : SUBSET Others]
Seats == [answer : Options \cup {None}, score : 0 .. NQ, left : {0, 1}, used : BOOLEAN]

TabTypeOK ==
  /\ tab \in Setups /\ page \in Pages
  /\ code \in Games \cup {None} /\ hostTicket \in Tickets \cup {None}
  /\ store \in Stores /\ heard \subseteq Tickets

LinkTypeOK ==
  /\ ws \in Sockets \cup {0} /\ url \in Tickets \cup {None}
  /\ closed \in BOOLEAN /\ listening \in BOOLEAN /\ retries \in 0 .. MaxRetries
  /\ sock \in [Sockets -> Links]
  /\ \A i \in Sockets : /\ sock[i].ticket <= Len(issued)
                        /\ sock[i].st # "none" => sock[i].ticket # 0
                        /\ Len(sock[i].up) <= MaxUp /\ Len(sock[i].down) <= MaxDown

RoomTypeOK ==
  /\ issued \in Seq(Games) /\ Len(issued) <= MaxTickets /\ spent \subseteq 1 .. Len(issued)
  /\ room \in [Games -> GameRooms] /\ seat \in [Tickets -> Seats]

\* Every variable has its type, the bounds of the queues included.
TypeOK == TabTypeOK /\ LinkTypeOK /\ RoomTypeOK

\* i is the tab's only connection, the store has heard of no other since it was
\* empty, and no other can open without a new ticket.
Sole(i) ==
  /\ i = ws /\ Open(i) /\ heard \subseteq {sock[i].ticket}
  /\ \A j \in Sockets \ {i} : ~Open(j) /\ (sock[j].st = "dialing" => sock[j].ticket \in spent)

\* ... and nothing is in flight on it.
Settled(i) == Sole(i) /\ heard # {} /\ sock[i].up = <<>> /\ sock[i].down = <<>>

\* A tab whose one connection has nothing in flight shows what its room holds:
\* who is there, the question and whether it is open, the choice that the
\* room counts, the options its power-up took away, the verdict and score.
\* (store.ts: handle against room.go's broadcasts)
ScreenAgrees ==
  \A i \in Sockets : Settled(i) =>
    LET g == GameOf(i)
        r == room[g]
        me == seat[sock[i].ticket]
        p == PlayerScreen(store)
        h == HostScreen(store)
    IN /\ store.room # None /\ store.room.game = g
       /\ store.room.who = Seated(g) \cup r.others
       /\ r.status \in {"lobby", "in_progress"} => store.room.status = r.status
       /\ r.status = "finished" => store.finished = g \/ store.room.status = "finished"
       /\ r.status = "lobby" => store.question = None
       /\ role = "player" =>
            /\ store.score = me.score
            /\ r.open => /\ p.question = Asked(g) /\ p.verdict = {}
                         /\ store.answer = me.answer
                         /\ (p.dimmed # {}) = me.used
       /\ store.question # None =>
            /\ h.question = Asked(g) /\ h.players = Cardinality(Seated(g) \cup r.others)
            /\ h.button = (IF r.open THEN "skip" ELSE "next")
            /\ ~r.open => /\ h.marked = {"right"} /\ h.board = Asked(g)
                          /\ PlayerSide(store).board = Asked(g)
                          /\ p.verdict = {Right(me.answer)}
                          /\ me.answer # None =>
                               p.option[me.answer[2]] = IF Right(me.answer) THEN "correct" ELSE "wrong"

\* An answer the room holds is an answer to the question it is asking, however
\* late it arrived (the question_id it carries is ignored; room.go:383).
AnswersMeetTheirQuestion ==
  \A t \in Tickets, g \in Games :
    seat[t].answer # None /\ t \in Seated(g) => seat[t].answer[1] = Asked(g)

\* While a question stays on the player's screen, the choice made for it
\* stays: no frame and no click takes it back or changes it.  Said of tabs
\* that heard one connection; a second one replays the question.
ChoiceStands ==
  [][/\ store.answer # None /\ store'.question = store.question
     /\ store'.room # None /\ Cardinality(heard') <= 1
     => store'.answer = store.answer]_vars

\* The end of a game that reaches a connected player's tab in its lobby or
\* question page is shown, unless the player leaves or the connection ends.
AnnouncedEndIsShown ==
  \A i \in 1 .. MaxSockets :
    (/\ role = "player" /\ Sole(i) /\ page \in {"lobby", "question"}
     /\ \E k \in 1 .. Len(sock[i].down) : sock[i].down[k].type = "game.finished")
      ~> (page \in {"results", "home"} \/ ~Open(i))

\* What resuming is for: a host on the question page of a game in progress,
\* with a ticket that was issued and not redeemed, gets connected with it,
\* unless the host leaves.  (service.go: "ResumeSession re-issues a host WS
\* ticket for an existing active session.")
ResumeConnects ==
  (/\ role = "host" /\ page = "question" /\ room[code].status = "in_progress"
   /\ hostTicket \notin spent)
    ~> (hostTicket \in spent \/ page # "question")
=============================================================================
