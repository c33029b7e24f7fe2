# Nebula Quiz: specifications and proofs

Nebula Quiz is a live quiz platform: a Go backend (`backend/`) that runs games over WebSockets, with
PostgreSQL and Redis behind it, and a React front end (`frontend/`). This directory holds TLA+
modules that model the parts in which order, concurrency and failure decide whether a game is right,
the TLC configurations that check them on small instances, and TLAPS proofs about them.
`PROJECT.json` maps every definition to the lines it models.

## 1. Inventory

| Component | State | Operations | What is hard | What makes it correct |
| --- | --- | --- | --- | --- |
| Room goroutine (`realtime/room.go`) | clients, status, questions, current index, answers, scores, power-ups, timer | join, leave, seven message types, timer expiry | one `select` over four channels: no order between them; a timer that races answers and the host; two unguarded statements per answer | each answer counts once; the timer is the open question's; the database trails the room; no broadcast on a closed channel |
| Channels and pumps (`realtime/client.go`, `ServeWS`) | register, unregister, inbound and send buffers, one reader and one writer goroutine per client | redeem, register, read, write, unregister, close | full buffers, blocking sends, a reader that outlives its registration | every message is received once and in the sender's order; nobody waits for ever |
| Hub (`realtime/hub.go`) | map of rooms, tickets | CreateRoom, GetRoom, removeRoom, ServeWS | two creators of one room; rooms lost in a restart | one room per session; a session always has the room it needs |
| Tickets (`realtime/ticket.go`, Redis) | key with a TTL | Issue, Redeem | two redeemers, expiry, a ticket issued before a status change | a ticket is redeemed once |
| Game sessions (`game/service.go`) | rows of game_sessions and game_participants | create, join by code, resume, list, history | check-then-insert against a concurrent start; restart of the server | a code names one active session; a user has one row in a session |
| Accounts (`auth/*`) | users, refresh_tokens, cookies | register, login, refresh (rotation), logout | two refreshes with one cookie; a lost response | a spent token is refused and never valid again |
| Rate limit (`middleware/ratelimit.go`) | a counter and the end of its window, per client | allow, sweep | both read the time before they have the mutex | few requests pass in one window |
| CSRF, authentication, roles (`httpapi/middleware`) | - | - | little: tests of one request | - |
| Quiz store (`quiz/*`) | quizzes, questions, options, saved quizzes | CRUD, publish, duplicate, reorder | check outside the transaction, two editors, unique order index | a published quiz is playable; order indices stay distinct |
| Images (`imagestore`), analytics, configuration, server start, router | object store; queries | upload, read | little: one call each | - |
| Live game client (`features/live-game`, host and player pages) | socket, room state, question, result, power-ups | connect, handle, submit, use, disconnect, page navigation | a socket replaced while it reconnects; sends that are dropped; optimistic state; pages that connect on mount | what the tab shows is what its room holds |
| Game results pages | the last leaderboard, the final ranking | render | two sorts of one list, with ties and departures between them | a player finds one row as theirs, with their score |
| Quiz builder (`features/quiz-builder`, `features/quizzes`) | debounced saves, query cache, mutations under way | edit, add, delete, drag, publish, settings, title | saves that overlap, refetches that are late or cancelled, an optimistic order that fails | a page at rest shows what is saved |
| Session bootstrap and route guards (`features/auth`, `App.tsx`) | access token in memory, status, page | silent refresh, login, logout, guards | effects that run twice; a page loaded again while it refreshes | one refresh per page load; a page knows whether it is logged in |
| Other pages | query cache | render, one call each | little | - |

How they interact: the HTTP services create rows and tickets and call `Hub.CreateRoom`; `ServeWS`
redeems a ticket and hands a new client to its room through `register`; `readPump` feeds `inbound`
and finally `unregister`; the room sends to each client's buffered `send` channel, drained by
`writePump`; only the room's goroutine touches the room's maps, and it writes the database directly.
The browser's store folds the received messages into the state that the pages show; the builder's
pages are filled from a query cache that every mutation invalidates.

## 2. Plan

Ordered by how much of the program's promise depends on the part.

| # | Module | Subject | State |
| --- | --- | --- | --- |
| 1 | `Room`, `RoomProofs` | the room goroutine, the timer goroutine, the rows they write | checked, proved |
| 2 | `Scoring`, `ScoringProofs` | response time, `calcScore`, leaderboard and history rank | checked, proved |
| 3 | `RoomIO`, `RoomIOProofs` | channels with capacities, pumps; refines `Room` | checked, proved |
| 4 | `GameSession`, `SessionLife`, `GameSessionProofs` | sessions, tickets, hub, restart; refines `SessionLife` | checked, proved |
| 5 | `RefreshTokens`, `RefreshTokensProofs` | login, rotation, replay, logout | checked, proved |
| 6 | `QuizStore`, `QuizStoreProofs` | questions, options, order, publication | checked, proved |
| 7 | `GameStore` | the frames and the store that folds them | checked; proved in `LiveClientProofs` |
| 8 | `LiveClient`, `LiveClientProofs` | a tab with its socket, retries, pages and clicks against its rooms | checked, proved |
| 9 | `Results` | the final ranking and the results pages | checked; proved in `ScoringProofs` |
| 10 | `BrowserSession` | the pages around `RefreshTokens`: store, guards, login, logout | checked; proved in `RefreshTokensProofs` |
| 11 | `QuestionDraft`, `Builder`, `BuilderProofs` | the rules of a draft, debounced saves, cache and mutations | checked, proved |

Every safety property that a passing run checks is also a theorem; what is only model-checked is
liveness (section 6).

Modules compose as follows. `RoomIO` instantiates `Room` as `R`, substitutes its own channels and
goroutines for `Room`'s sets of waiting clients, and uses `R`'s handlers as they are. `GameSession`
instantiates `SessionLife` over its `dbStatus` and `code`. `Scoring` refines what `Room` abstracts as
`Awards`: by `WorthIsBounded` every award is a natural number, which is all `Room` assumes.
`GameSession` shows what `Room` assumes of its clients: by `OneConnectionPerTicket` no two
connections carry one participantID. `Results` extends `Scoring`, `BrowserSession` extends
`RefreshTokens`, `LiveClient` extends `GameStore` and `Builder` extends `QuestionDraft`, each with the
actions of the outer part around those of the inner.

## 3. The modules and the code

### 3.1 `Room` - `backend/internal/realtime/room.go`

| Code | Module |
| --- | --- |
| `run()`'s `select` | `Next`: `HandleJoin`, `HandleLeave`, `HandleMessage`, `HandleTimer`, in any order |
| `handleJoin`, `handleLeave`, `close(c.send)` | `HandleJoin`, `HandleLeave` with `RemoveClient`; `closedSend` |
| `handleHostStartGame`, `handleHostAdvance`, `handleHostEndGame`, `handleAnswerSubmit`, `handlePowerupUse`, `handleParticipantReady` | the actions of those names; their early returns are the guards `MayStart`, `MayRestart`, `MayAdvance`, `MayAnswer`, `MayUsePowerup`, and a refusal is `Refuse` |
| `startQuestion`, `finishQuestion`, `finishGame`, `cancelTimer` | the helpers `StartQuestion`, `CloseQuestion` with `ScoreQuestion`, `FinishGame`, `CancelTimer`, used inside the handlers |
| the goroutine of `startQuestion` | `running`, `fired`, `TimerExpire` |
| `InsertParticipantAnswer`, `UpdateParticipantScore`, `StartGameSession`, `FinishGameSession` | `rows`, `dbScore`, `dbStatus`; each statement may fail by itself when `DBMayFail` |
| `sendMsg` on a closed channel | `SendTo`: `up` becomes FALSE, since a panic in this goroutine ends the process |

A question is its kind only (`single` or `multiple`: a power-up is refused for the latter), an answer
only what it is worth. Messages, leaderboards and podiums are not part of the state. A channel is the
set of clients waiting in it; `RoomIO` gives it order and capacity. An index counts up to the number
of questions, so nothing has to be bounded in the guards.

### 3.2 `RoomIO` - `client.go`, `ServeWS`, the channels of `room.go`

`reader[c]` is where the goroutine of `ServeWS` and then `readPump` stands (registering, reading,
pushing, leaving, done), `writer[c]` where `writePump` stands. `Register`, `Push` and `Unregister` are
the three blocking sends; each is disabled while its channel is full. `ReadFails` stands for a read
deadline, an oversized frame or the peer's end, `WriterEnds` for a failed write or ping, and closing
the connection makes the pending read fail. `ReceiveRegister`, `ReceiveUnregister` and
`ReceiveInbound` take the head of a channel and run the handler of `Room`. The refinement maps
`registering` and `unregistering` to the sets of what waits in the channels, `opened` to the readers
past their registration's send, and `ended` to the readers that are done.

### 3.3 `GameSession` and `SessionLife` - `game/service.go`, `hub.go`, `ticket.go`

A request is its name and a place `at`: one action per call that another request can notice
(`CreateInsert`, `CreateIssue`, `CreateRoom`; `JoinLookup`, `JoinInsert`, `JoinIssue`;
`ResumeLookup`, `ResumeRoom`, `ResumeIssue`). `Redeem`, `BareRoom`, `HostRoom` and `Enter` are
`ServeWS`, which takes the ticket out of Redis and then looks for the room; a host whose room is
missing gets one without a quiz. `StartGame` and `FinishGame` are the room's two status updates,
either of which may be lost when `DBMayFail`. `Restart` loses rooms, connections and requests in
flight, and keeps rows and tickets. `Expire` is the TTL of a ticket.

`SessionLife` is what readers of a row rely on: a lobby is opened under a code that no other active
session has, is started, is finished, and never comes back. The code's updates test no status, so
that they implement it is a fact about the rooms and not about the statements.

### 3.4 `Scoring` - `calcScore`, `handleAnswerSubmit`, `finishQuestion`, `ListHistory`

One question from its start to its leaderboard. Time is counted in units of an arbitrary length; an
answer may be handled after the limit, as long as the expiry has not been received. `Worth` is the
exact rational value rounded to the nearest integer; exactly half-way the error of float64 decides,
so the set `TiesUp` of pairs that come out upwards is a parameter (only an answer at the very end of
the limit, whose quotient is exactly a half, is known to round up). The strict comparison of option
sets is `IsCorrect`, and `Boards` is every order that an unstable sort of a map's values may return.

### 3.5 `RefreshTokens` and `BrowserSession` - `auth/service.go`, `auth/handler.go`, `features/auth`

Transactions on `refresh_tokens` under READ COMMITTED: `lock[t]` is the transaction that has updated
row `t`; another UPDATE of it waits (`Unlocked`) and then tests `revoked_at IS NULL` again, which is
why it may update nothing (`LockNothing`) and go on. `RevokeAllUserRefreshTokens` is a snapshot and
then one row at a time. Browsers keep a cookie (`jar`) and refresh once per page load (`started` is
the module-level guard). `Lose` drops a reply; `Reload` is a new page or a second tab. `orderly` is
chosen at the start: in such runs a page is not reloaded and no button pressed while a request of that
browser is under way, and no reply is lost.

`BrowserSession` adds what a page makes of the answers: `status` of the auth store, the guards
`RequireAuth` and `RequireRole`, and where login and logout lead. `PressLogin`, `PressLogout`, `Visit`,
`LoadSession` (the effect of `SilentRefresh`) and `LoadPage` are the pages' steps; `Answered`,
`Unanswered` and `Broken` are the three ends of a request. A page that was loaded anew hears nothing
of the requests before it (`asked`), although the cookies that they set do arrive.

### 3.6 `QuizStore` - `quiz/service.go`

Requests on the questions of one quiz: create (`InsertQuestion`, `CommitCreate`), update
(`WriteQuestion`, `UpdateQuestion`, `DeleteAnswerOptions`, `CommitUpdate`), delete, reorder (the shift
of every row by `reorderShift` in one statement, `ShiftNext` row by row; then one UPDATE per question,
`SetNext`), publication (`ReadQuestions`, `ReadOptions`, `SetPublished`), and the copy of the quiz that
reads the questions while others edit. `work[q]` is the uncommitted version of a row, `Taken` and
`Awaited` the two outcomes of the test of the unique index (quiz_id, order_idx), `BreakDeadlock` the
database's deadlock detection, `Fail` and `Rollback` an error at any statement.

### 3.7 `GameStore` and `LiveClient` - `features/live-game`, the join, lobby and question pages

`Handle` is `store.ts`'s `handle`, one operator per frame, on a store whose questions are pairs of game
and index, and whose options are right or wrong ones of a question. `LiveClient` puts it in a tab.
`sock` holds every WebSocket that the tab has opened and that is not closed, with the frames on their way
in both directions; `ws`, `url`, `closed`, `listening` and `retries` are the fields of `QuizSocket`.
`Connect` leaves an earlier socket open, as `connect` does; `OnClose` starts a retry unless `close` was
called; `Retry` dials with the same ticket, and `LinkEnds` refuses it if it was redeemed. `Send` loses
the message unless the current socket is open. Pages are `home`, `lobby`, `question` and `results`, and
each effect is an action of its own, because the router navigates in a transition and frames may be handled
before it. What the pages show are operators of the store (`PlayerScreen`, `PlayerSide`, `HostScreen`).
`Back`, `Reload` and `ExitResults` are the ways out; only the last disconnects.

The rooms are reduced to what their frames carry: status, current question, whether it is open, the
other people there, and for each ticket of the tab the answer, score and power-up that the room holds. The
others answer and let time run out unseen (`QuestionCloses`). `heard` records whose frames the store has
seen since it was empty, because some properties are said of tabs that heard one connection.

### 3.8 `Results` - `finishGame`, `PlayerResultsPage.tsx`, `HostResultsPage.tsx`

After the question of `Scoring` the game ends: `FinishGame` sorts whoever is still there once more, in
any order that an unstable sort may give. `Row`, `OwnRow` and `Marked` are the rows of the player's
page, which finds its own by the rank in the last leaderboard and adds a row if there is none with it.

### 3.9 `QuestionDraft` and `Builder` - `features/quiz-builder`, `features/quizzes`, `QuizBuilderPage.tsx`

A draft is a text that remembers for which question it was typed, whether there is an image, the type,
and which options are right. `Edits` is what one click or key makes of it, `Normalise` the effect that
keeps a single-choice question at one right option, `Merged` what a save makes of the stored question
(an image removed is sent as null, and COALESCE keeps it). `Mounted`, `Changed`, `Fired`, `Flushed` and
`Failed` are `useDebouncedSave` on its value, the value that was last saved, the timer and the status.

`Builder` has the cache entry of the quiz (`cache`, `broken`, `invalid`, `fetch`), the mutations under
way (`flight`) and the page. `Render` is what React mounts after an event: an error takes the page away, an
editor is keyed by its question and filled once (`OpenEditor`), and what was unmounted leaves its
requests to nobody (`Disown`). A request is served (`Serve`) and answered (`Succeeds`, `Fails`,
`ReorderFails`) in two steps, a refetch is sent, read and delivered in three (`ServeFetch`, `FetchEnds`). Every mutation
invalidates the entry; add, delete and save return that promise and therefore wait for the refetch
(`Waiting`, `GoOn`). `Drag` is the optimistic reorder: it cancels the fetch, keeps a snapshot and
reorders the cache. TanStack Query and React are external: they are modelled from how the hooks use them.

## 4. What the runs check

| Run | Instance | Distinct states | What it shows |
| --- | --- | --- | --- |
| `room_safety` | 2 players (symmetric), 1 host, quizzes of 0 and of 2 questions, awards {0, 1}, no failing statement | 688,238 | the timer the room listens to is the open question's (`TimerFollowsQuestion`); no answer is dropped by ON CONFLICT, and database and room agree (`LedgerIsExact`); the stored rows add up to the totals (`RowsExplainScores`); the counting auto-finish is exact while nobody who answered left (`AutoFinishExact`); questions and status only go forward (`GameMovesForward`); answers are final, credited once, and nowhere else (`AnswersCountOnce`) |
| `room_panic` | 3 players | violation | see findings |
| `roomio_refines` | 1 player, 1 host, channels of capacity 1, one message of any type per connection, failing statements | 42,880 | messages arrive once and in order (`MessagesInOrder`); the whole behaviour is one of `Room` (`ImplementsRoom`); no reader that has a message waits for ever and both goroutines of a failed connection end (`NothingHangs`); every question ends (`QuestionEnds`) |
| `scoring_play` | 2 players, 2 options, up to 3 points, limit 4, 1 unit late, ties rounded both ways, totals {0, 1}, a podium of 1 | 446,880 | an earlier right answer is not worth less, and a right one between half the points and all (`WorthIsFair`); the rank shown and the rank in the history differ by ties and absent players only (`RankAgreesWithHistory`); on the results pages a player finds one row as theirs, with their score (`OwnRowIsMine`) |
| `session_life` | 2 sessions, 1 code, 2 joins of a user or guests, 1 resume, 2 connections, failing statements | 1,358,538 | `ImplementsSessionLife`; no playable room of a finished session (`NoLiveRoomForFinished`); players have rows, a user joins once, a ticket connects once (`RoomsMatchRows`) |
| `session_bare_room` | 1 session, 1 resume | violation | see findings |
| `rotation` | 3 logins (2 of them earlier), 2 refreshes, 1 logout, 1 browser with its pages, one token may expire | 109,928 | a token with a committed successor is revoked, a replay revokes every row its statement saw, a logout holds, also against a rotation under way (`TokensAreRevoked`); an orderly browser is never taken for a thief (`OrderlyBrowsersStayLoggedIn`), and its page knows whether it is logged in (`TabMatchesJar`); no request hangs and every splash ends (`NobodyWaitsForever`) |
| `quiz_edits` | 3 question ids of which 2 exist, 2 updates, 1 delete, 2 reorders, 1 publication, 1 copy, 6 forms, any 3 requests at once | 457,131 | positions stay distinct (`TypeOK`); a question's options are one request's list, a single-choice question has one right option at most as long as updates send type and options together, and a quiz published and not edited meanwhile can be played (`QuestionsStayWhole`); the last committed reorder holds (`LastReorderHolds`); nobody's commit changes what it was not sent (`EditsKeepToTheirFields`); every request ends (`RequestsEnd`) |
| `live_client` | one tab: a player of a two-question game among others, a player who joins twice, or a host with two tickets; 2 sockets, 1 retry, 1 frame up, 3 down | 679,749 | a tab whose one connection has nothing in flight shows what its room holds (`ScreenAgrees`); the answer that a room counts is to its open question (`AnswersMeetTheirQuestion`); a choice stays on the screen while its question does (`ChoiceStands`); the announced end of a game is shown (`AnnouncedEndIsShown`) |
| `live_resume` | the host's tab | violation | see findings |
| `organizer_tab` | 2 questions and one that may be added, any 3 acts, 2 requests under way | 983,080 | what the editor saves can be played (`SavesAreValid`); no question gets another's draft (`ContentsStayApart`); a page at rest shows what is saved (`QuietPageIsSaved`); the cache ends at the server's quiz (`CacheConverges`) |
| `autosave_revert` | the same quiz, 2 edits | violation | see findings |

Bounds, and why they are enough to meet the interesting cases:

* `Room`: two questions are the fewest for which a late timer, a repeated advance or a repeated answer
  can hit the *next* question; the empty quiz is the refused start. Two players let one answer and
  leave while the other plays; the panic is shown with three. One host connection is
  enough for every guard on `r.host`; the proofs have any number.
* `RoomIO`: with capacity 1 every send of a second client meets a full channel; the code has 8 for
  `register` and `unregister` and 64 for `inbound`. `MaxSent` bounds what a connection sends.
* `GameSession`: two sessions compete for one code, two joins for one row; two connections compete for
  one ticket. A request runs once; restarts are unbounded.
* `Scoring`: points and limit are chosen so that exact halves occur away from the ends. A podium of
  one leaves a runner-up among two players; the code has three.
* `RefreshTokens`: two refreshes and one logout overlap on one token, and a replay revokes rows of
  another device. `Expiring` bounds the tokens that may expire. A page is loaded again while a request
  for the new page is left.
* `QuizStore`: any three requests overlap (`MaxRequests`), which holds every pair of kinds and each pair
  against a third; `Forms` bounds what is sent, and `Shift` has the code's value.
* `LiveClient`: two sockets are a current one and one that was replaced or is being replaced; one pending
  retry meets both. `MaxDown` 3 holds the longest burst (end of a question, leaderboard, next start or end);
  a room that would exceed it waits, so bursts are ordered but not lost. `MaxUp` 1 lets a click meet frames
  that overtook it.
* `Builder`: three acts are an edit, a second change that invalidates it and a third that overtakes both;
  two requests under way overlap. `MinOptions` is the code's, `MaxOptions` 3 so that both ends are
  reached. `autosave_revert` needs two.

`CHECK_DEADLOCK FALSE` is set because every one of these systems may come to rest: all
requests answered, the game over, every connection gone, the process ended, the bound of acts reached.

### Fairness

* `Room` (within `RoomIO`): weak fairness of the timer goroutine (a deadline passes) and of the receipt of a
  timer. Go's `select` picks at random among ready cases, so a closed timer channel is not passed over
  for ever. Players and host owe nothing.
* `RoomIO`: strong fairness of a client's blocked send. Go queues the senders of a channel first in,
  first out, so one is served after finitely many receives although the channel is full in between.
  Weak fairness of each receive, of a read on a closed connection, of `writePump` once its connection or
  its channel is closed, and of timers. Nobody has to connect, to send or to fail.
* `BrowserSession`, `QuizStore`: weak fairness of "the next statement of *some* request". It does not
  say that a particular waiting transaction is preferred; the requests are finitely many, and the
  deadlock detection of the database is an action. In `BrowserSession` also of "some answer arrives or is
  given up" (a request has a time limit or fails) and of the effect of a page.
* `LiveClient`: `AnnouncedEndIsShown` assumes only that the browser runs the callbacks of each socket and
  the effects of the page (`FairTabSpec`). The counterexample of `live_resume` holds even if the server
  accepts and receives, timers fire and refused sockets end (`FairSpec`). People may do nothing.
* `GameSession`, `Scoring`, `Results`, `Builder`: safety only, no fairness.

## 5. Findings

Four runs end in a counterexample against a comment of the code.

| Run | The comment | The behaviour |
| --- | --- | --- |
| `room_panic` | `client.go:106` "non-blocking (drops on full buffer)" | a message that is still in `inbound` after its client's unregistration is answered on a closed channel (`client.go:112`), which panics in the room's goroutine |
| `session_bare_room` | `game/service.go:289` "recreates with metadata if dropped" | after a restart a surviving host ticket makes `ServeWS` create a room without its quiz (`hub.go:100`); a resume then takes it for the session's room |
| `live_resume` | `game/service.go:288` "ResumeSession re-issues a host WS ticket for an existing active session." | for a game in progress the hook stores the ticket and goes to the question page (`live-game/hooks.ts:45`), where nothing connects: only the host's lobby does (`HostLobbyPage.tsx:24`). The host waits until the ticket expires |
| `autosave_revert` | `useDebouncedSave.ts:6` "calls the current `onFlush` when it stabilises" | an edit that is taken back while its save is under way equals the last saved value, so no timer starts (`useDebouncedSave.ts:32`); the answer of that save then makes the abandoned value the last one. The page shows one value, the server keeps the other, and no error appears |

What else the models made visible, without a run of its own:

* The auto-finish compares the *number* of answers with the number of connected players
  (`room.go:455`). One who answers and leaves still counts, so a question can end before a connected player
  has answered; `AutoFinishExact` says when the test is right.
* A join reads the status of its session and inserts its row later (`game/service.go:154`, `:179`): the game
  may have started in between.
* Two refreshes that read a token while it is active both get a successor: the second UPDATE changes
  no row and reports nothing (`auth/service.go:168`). The token itself ends revoked.
* Two overlapping creates of a question compute the same position, which the comment of
  `storage/queries/questions.sql:2-4` excludes; one of them fails on the unique index.
* An unregistration may be received before the registration of the same client, which then stays in
  `clients` for good, and with it the room.
* The player's store starts with one power-up, whatever the room granted (`store.ts:40`): who joined after
  the start is offered one that the room refuses.
* A player's page submits one option at a click, also for a question of the type `multiple`
  (`PlayerQuestionPage.tsx:220`).
* Removing the image of a question is sent as null, which the UPDATE takes for no change
  (`QuestionEditor.tsx:175`): it is never saved. `QuietPageIsSaved` allows exactly this difference.
* `connect` does not close the socket that it replaces (`ws-client.ts:12`), and `disconnect` is called on
  the results page only: two connections may feed one store.

## 6. Proofs

Each proof module extends the module it is about. The theorems are those of `PROJECT.json`; each
names the property that a run shows on its instance, if there is one, and holds for every value of the
constants that meets the named assumptions.

| Assumption | Module | Why the code meets it |
| --- | --- | --- |
| `ClientsAssumption` | `Room`, `RoomIO` | a participantID is a player's or a host's; finitely many connect |
| `QuizzesAssumption`, `AwardsAssumption`, `FailureAssumption` | `Room`, `RoomIO` | a quiz is a list of questions; a score is an integer not below 0 (`WorthIsBounded`) |
| `CapsAssumption` | `RoomIO` | `register` and `inbound` are made with positive capacities; a client's messages are bounded by a number |
| `SessionsAssumption` | `GameSession` | names of requests, users and the marks for "none" differ |
| `ScoringAssumption` | `Scoring` | the limit is positive; at the very limit the time factor is exactly 0.5 in float64, and `math.Round` rounds a half up |
| `RequestsAssumption`, `OrganizerAssumption` | `RefreshTokens`, `BrowserSession` | names of requests differ; an earlier login is a login; a user's role does not change |
| `QuizAssumption` | `QuizStore` | names of requests differ; the quiz starts with distinct positions and finitely many questions; `reorderShift` is positive |
| `StoreAssumption` | `GameStore` | a quiz that is started has a question; `null` is no game, person, question, option, room state or result |
| `ClientAssumption` | `LiveClient` | the bounds are numbers, and a socket has room for the two frames that a new connection is sent; the other players of a room do not use this tab's tickets |
| `ResultsAssumption` | `Results` | the length of a podium is a number |
| `DraftAssumption` | `QuestionDraft` | the two options of a blank question are within the limits on options; there is a text to type |
| `BuilderAssumption` | `Builder` | the quiz starts with distinct questions; titles other than the empty one and descriptions exist; marks for "none" and "sent" are no data |

**`RoomProofs`** (9 theorems). `IInv == ConnInv /\ PlayInv /\ LedgerInv`.
`ConnInv` adds to `NoClosedReceivers` that a client whose channel is closed is not waiting in `register`
(`JoinsOnce`): without it a late registration would put a closed channel back among the receivers.
`PlayInv` is the types and the timer discipline. `LedgerInv` relates memory and database:
`InsertNeverConflicts` needs that no row exists at or after the open question, `LobbyIsBlank` that a
lobby has credited nothing, and `DatabaseNeverAhead` is preserved by `ScoreQuestion` whichever statements
fail. The action properties (`GameMovesForward`, `AnswersCountOnce`, `AutoFinishExact`) follow step by
step from `IInv`. `DatabaseAgrees`, a part of `LedgerIsExact`, is proved under its own premise that
statements do not fail. `SumsAreExact` needs `LobbyIsScoreless` beside `IInv`: a start is from no score and no
rows. `RowsExplainScores` gives a player's running totals as a function, and when a question is scored
every total from that question on grows by its award (`ScoringKeepsSums`), since no row exists after it.
Two theorems state what no run lists any more, because they are proved for every
instance: `BroadcastSafety` and `LedgerSafety`.

**`RoomIOProofs`** (5). The refinement maps the sequences in the channels to sets, so it holds only if
a client is never twice in one: `WaitersInv` says that what is in `register` and `unregister` occurs once,
and that a registration, a message or a departure waits only for a client whose `reader` has got as far as
sending it. `HandInv` and `MessagesInOrder` complete the
invariant: the messages of a client in `inbound` are consecutive numbers, from the one after the last
handled to the last sent. `RefinesRoom` then takes each step to the step of `Room` with the same
handler, or to a stutter when only a pump moves. `RoomStaysSafe` states what `RoomProofs` proves of `Room`
for the room behind its channels, the sums included; the lemmas `Same...` show that the two instances of `Room` agree.

**`ScoringProofs`** (4, on `Scoring` and `Results`). Rounding is the work: `Division`, `Nearest`, `Scale`
and `Cancel` give `ScoreMonotone` and `ScoreBounds` for every number of points and every limit, whatever
`TiesUp` says about halves. Ranks are a matter of cardinalities: `PlacesBefore` counts the places in front
of a player. `IInv` says that every score was computed by `Worth` and that the board is sorted. For
`OwnRowIsMine` the invariant carries two facts from the question to the end of the game: the
board of the last question lists the players who were there in the order of their scores, and so does
the final ranking. If nobody left, both are sorted lists of the same players, hence the scores at equal
ranks are equal (`OneMarkedRow`), although ties may carry another's name.

**`GameSessionProofs`** (4). `IInv` relates the places of requests to rows (`RequestInv`, `RowInv`),
tickets to requests and connections (`TicketInv`) and rooms to rows (`RoomInv`: no playable
room belongs to a finished session, and while a session has no room, every request about to make one
has found it unfinished, since it takes a room to finish it).
`RefinesSessionLife` maps each step to one of `SessionLife` or a stutter; starts and finishes need
`RoomInv`, because the statements have no condition.

**`RefreshTokensProofs`** (5, on `RefreshTokens` and `BrowserSession`). `BaseInv` says which places each
kind of request may be in (`KindInv`), that only tokens with a row are kept or presented, and that a
rotation about to commit holds its row or found it revoked (`TokenInv`). `TokensAreRevoked` is inductive over it. `OrderlyInv` says that an orderly browser
has at most one request under way, which presents that browser's cookie, and that the cookie is live
until the request that spends it is about to be answered. `PagesUseTokens` shows that every step of
`BrowserSession` is a step of `RefreshTokens` or leaves the tokens alone, which carries the other theorems
over to the pages. `PagesMatchTheirJars` adds `PageInv`: in an orderly run a request is under way exactly
while its browser waits for it, and a browser that waits for nothing has a status that matches its jar.

**`QuizStoreProofs`** (4). `BaseInv` gives types and, for each place of each kind of request, which
rows it has locked and what it has written (`LockInv`). `PositionInv` makes positions distinct across
committed and uncommitted versions, `ListInv` gives a question one list, `ReorderInv` carries the
order of the last commit through a reorder under way (`NamedInv`, `HeldInv`), `WholeInv` and
`PublishInv` carry what a request has checked until it commits. `StepOf` restates `Next` by what a statement
does when it need not wait (`PlaceMoves`: under the unique index it moves its question to a position
that stays free, or its transaction aborts), so that each conjunct is proved once per kind of change.

**`LiveClientProofs`** (7, on `GameStore` and `LiveClient`). `HandleKeepsStores`: whatever frame arrives,
the store keeps its shape. `HandleTwice`: handling a frame again changes nothing. The second is what
allows `LiveClient` to keep whether there is a listener and not how many: `connect` registers another one
each time. `IInv == TypeOK /\ TabInv /\ RoomInv /\ SeatInv /\ HeardInv`. `TabInv` gives a ticket one open
connection at most. `RoomInv` and `SeatInv` are about the rooms: no question before the start, a new seat for
a ticket that was not redeemed, answers to the open question only (the room takes options of its own
question, and a start clears the answers), scores that count questions that are over. `HeardInv` is the
hard one: the frames in flight on a socket announce the questions of its game in order, each once, all
later than the one on the screen and none later than the room's current one (`StartsInv`).
`QuestionsComeInOrder` follows from it, and with it `ChoiceStands`: a question does not start a second time
while it is on the screen, which would clear the choice.

`ScreensAgree` is the largest proof, of a property that says something only when nothing is in flight; its
invariant `FollowInv` says it of every state, about the store that there will be. `Leads(s, down, e)` means
that handling the frames `down` in order takes a store from `s` to `e`: there is a history of stores, one
per frame (`Handling`), and `e` has the question of the last start and no choice if there is a start
(`Ties`). Lemmas about `Leads` take the place of an induction on the queue: one frame (`LeadsOne`), a queue
that grows at its end (`LeadsOn`) and one that is taken from (`LeadsRest`). `Agrees` is `ScreenAgrees` said
of a store, a room and a seat; a choice that the room does not count yet is in flight to it (`AnswerShown`).
`FollowInv` holds if the frames in flight on the tab's one connection lead its store to one that agrees
(`Follows`), and an answer in flight is to the question on the screen and the choice made there, or to an
earlier one (`AnswersOf`): an answer that arrives while the room has its question open is the one the screen
shows. The lemmas `Agrees...` say for each frame that a store which agreed with the room before the step
that sends it agrees with the room after it, once it has handled it; `RoomFollows` and the lemmas named
`...Follows` make a step of the system of that. `Quiet` are the facts they need about tabs without a
connection: a tab that heard nothing has an empty store, and a socket that is not open has nothing in
flight.

**`BuilderProofs`** (5, on `QuestionDraft` and `Builder`). `IInv == QuizInv /\ PageInv /\ CacheInv /\ RequestInv`.
`QuizInv` gives types and distinct questions to the server's quiz and to its copies in the cache and in a
fetch; `PageInv` says what is mounted beside which view. `RequestInv` ties each mutation under way to the part of the
page that waits for it, if any does (`Owned`), and types its arguments (`IsFlight`):
`SavesAreValid` and `ContentsStayApart` need it, because what reaches the server left the page earlier. Its
part `EditorInv` is what `QuietPageIsSaved` needs: of an editor that was filled from current data and met
no failure at most one save is under way, it is the editor's own and of the value shown, and what the
editor takes for saved is on the server or will be when that save is answered; the same for the title
and the panel. `CacheInv` says that a cache that differs from the server's quiz is invalid, being fetched, or
about to be invalidated by a mutation under way, which gives `CacheConverges` when nothing is under way.

Only model-checked is liveness (`QuestionEnds`, `NothingHangs`, `RequestsEnd`, `NobodyWaitsForever`,
`AnnouncedEndIsShown`), which is out of the prover's reach, as is what fairness says of `ENABLED` actions. The
four properties of section 5 are false of the code, and TLC's counterexamples say how.

## 7. What is not modelled

* CSRF, authentication and role middleware, password hashing and JWT signatures: stateless tests of a single
  request. Access tokens are not followed to their expiry.
* The rate limiter: a counter per client behind one mutex, whose state meets no other component's. It
  reads the time before it has the mutex, so a request that waited past a sweep opens a bucket that ends
  early (`middleware/ratelimit.go:51`); nothing in the modelled parts depends on it.
* Payloads and their encoding (`protocol.go`, `json.go`), labels, images, podium names and answer
  distributions; drops on a full `send` buffer change no state of the room and are not modelled in `LiveClient`.
* The countdown on the screen (`useServerTimer`): in `LiveClient` an option may be chosen later than its
  button allows, which adds behaviours and removes none.
* Registration of a user, single statements on quizzes (title, cover, deletion of a quiz) on the server's side, saved quizzes,
  images, analytics: one statement or one upload each, with no state between calls.
* Read-only pages (dashboard, explore, analytics, library, history): renderings of one query; their buttons
  start requests that other modules have.
* Configuration, build and deployment; the end-to-end tests.

A lost session row update (`StartGame` with a failing statement) is modelled; a lost COMMIT acknowledgement
is not: a transaction that fails has not committed. In `Builder` the server answers a request as a whole; what
happens inside one is `QuizStore`'s subject.

## 8. Running

In this directory, `tlc -config <file>.cfg <module>` runs a configuration and `tlapm <module>.tla`
checks the proofs of a module; `PROJECT.json` lists the runs (with the expected outcome), a changed
form of the code for each property that the property detects (`mutants`), the mapping of definitions to
lines (`map`), the hazards and the properties that cover them, and the theorems.
