------------------------------ MODULE Builder ------------------------------
(***************************************************************************)
(* The quiz builder in one browser tab: its page, the question editor and  *)
(* the settings panel with their debounced saves, the query cache that     *)
(* they are filled from, and the requests, against the quiz on the server. *)
(*                                                                         *)
(* The server answers each request as a whole (QuizStore has its inside);  *)
(* requests under way are served and answered in any order, fail, or lose  *)
(* their answer.  A refetch reads the quiz at one time and is delivered at *)
(* another.  React's effects and the continuations of a promise run with   *)
(* the event that causes them.                                             *)
(*                                                                         *)
(* An editor or panel whose component is unmounted is gone with its timer; *)
(* what it has sent goes on, and is nobody's (mine).                       *)
(***************************************************************************)
EXTENDS QuestionDraft

CONSTANTS Originals,   \* the questions of the quiz at the start, in order
          Titles, Blurbs,
          Empty,       \* the title that trim leaves nothing of
          Acts,        \* what the user does in this instance
          MaxActs,     \* bound: how often
          MaxFlight,   \* bound: mutations under way
          Sent, None

Slots == 1 .. MaxFlight

Quizzes == [title : Titles \ {Empty}, blurb : Blurbs, published : BOOLEAN, order : Seq(Ids),
            content : [Ids -> Drafts \cup {None}]]

Kinds  == {"save", "settings", "title", "publish", "add", "delete", "reorder"}
Stages == {"sent", "ok", "lost", "failed", "waiting"}

\* What a request of each kind carries.
Args(kind) ==
  CASE kind = "save"     -> Drafts
    [] kind = "settings" -> Blurbs
    [] kind = "title"    -> Titles \ {Empty}
    [] kind = "publish"  -> BOOLEAN
    [] kind = "reorder"  -> Seq(Ids)
    [] OTHER             -> {None}

Requests(kind) ==
  [kind : {kind}, q : IF kind \in {"save", "add", "delete"} THEN Ids ELSE {None},
   arg : Args(kind), previous : IF kind = "reorder" THEN Quizzes ELSE {None},
   stage : Stages, mine : BOOLEAN]

Editors == [q : Ids, hook : Hooks(Drafts), calm : BOOLEAN]
Panels  == [hook : Hooks(Blurbs), calm : BOOLEAN]

ASSUME BuilderAssumption ==
  /\ Originals \in Seq(Ids) /\ IsInjective(Originals) /\ Originals # <<>>
  /\ Empty \in Titles /\ Titles # {Empty} /\ Blurbs # {}
  /\ MaxActs \in Nat /\ MaxFlight \in Nat
  /\ Sent # None /\ None \notin Ids \cup Drafts \cup Titles \cup Quizzes \cup Editors \cup Panels
  /\ Sent \notin Quizzes /\ \A kind \in Kinds : None \notin Requests(kind)

VARIABLES
  \* the server
  server,              \* the quiz; a deleted question is no longer in order
  \* the query cache, entry quizKeys.detail
  cache,               \* data, or None
  broken,              \* its error: the last fetch failed
  invalid,             \* isInvalidated
  fetch,               \* the GET under way: None, Sent, or what it has read
  flight,              \* the mutations under way
  \* QuizBuilderPage and its components
  onPage,              \* whether it is mounted
  active, view,        \* activeId, view
  title,               \* titleDraft; None until it is initialised
  editor,              \* the QuestionEditor that is mounted, or None
  panel,               \* the QuizSettingsPanel that is mounted, or None
  \* history
  acts,
  missed,              \* the cache may have missed a change, and no fetch was sent since
  calmTitle            \* the title is neither from old data nor edited over a request

cacheVars == <<cache, broken, invalid, fetch>>
pageVars  == <<onPage, active, view, title, editor, panel>>
histVars  == <<acts, missed, calmTitle>>
vars      == <<server, cacheVars, flight, pageVars, histVars>>

FirstTitle == CHOOSE t \in Titles : t # Empty
FirstBlurb == CHOOSE b \in Blurbs : TRUE
FirstText  == CHOOSE t \in Texts : TRUE

Init ==
  /\ server = [title |-> FirstTitle, blurb |-> FirstBlurb, published |-> FALSE,
               order |-> Originals,
               content |-> [q \in Ids |-> IF q \in Range(Originals) THEN Blank(q, FirstText)
                                          ELSE None]]
  /\ cache = None /\ broken = FALSE /\ invalid = FALSE /\ fetch = Sent
  /\ flight = [i \in Slots |-> None]
  /\ onPage = TRUE /\ active = None /\ view = "question" /\ title = None
  /\ editor = None /\ panel = None
  /\ acts = 0 /\ missed = FALSE /\ calmTitle = TRUE

-----------------------------------------------------------------------------
(***************************************************************************)
(* The server.                                                             *)
(***************************************************************************)
\* The quiz after request m, or {} if m is refused.
Effect(m, s) ==
  CASE m.kind = "save" ->
         IF m.q \notin Range(s.order) THEN {} ELSE {[s EXCEPT !.content[m.q] = Merged(@, m.arg)]}
    [] m.kind = "settings" -> {[s EXCEPT !.blurb = m.arg]}
    [] m.kind = "title"    -> {[s EXCEPT !.title = m.arg]}
    [] m.kind = "publish"  -> {[s EXCEPT !.published = m.arg]}
    [] m.kind = "add"      -> {[s EXCEPT !.content[m.q] = Blank(m.q, FirstText),
                                         !.order = Append(@, m.q)]}
    [] m.kind = "delete"   ->
         IF m.q \notin Range(s.order) THEN {}
         ELSE {[s EXCEPT !.order = RemoveAt(@, CHOOSE k \in DOMAIN @ : @[k] = m.q)]}
    [] m.kind = "reorder"  ->
         IF Range(m.arg) = Range(s.order) /\ Len(m.arg) = Len(s.order)
         THEN {[s EXCEPT !.order = m.arg]} ELSE {}

\* A request is served, or fails on its way there; its answer comes, or is lost.
Serve(i) ==
  /\ flight[i] # None /\ flight[i].stage = "sent"
  /\ \/ \E s \in Effect(flight[i], server), a \in {"ok", "lost"} :
          server' = s /\ flight' = [flight EXCEPT ![i].stage = a]
     \/ flight' = [flight EXCEPT ![i].stage = "failed"] /\ UNCHANGED server
  /\ UNCHANGED <<cacheVars, pageVars, histVars>>

ServeFetch ==
  /\ fetch = Sent /\ fetch' = server
  /\ UNCHANGED <<server, cache, broken, invalid, flight, pageVars, histVars>>

-----------------------------------------------------------------------------
(***************************************************************************)
(* Rendering: what is mounted, given the data, the error and the page's    *)
(* state.  An error takes the whole page away, also when there is data.    *)
(***************************************************************************)
AtRest(fl) == \A i \in Slots : fl[i] = None
Saves(fl)  == {i \in Slots : fl[i] # None /\ fl[i].kind = "save" /\ fl[i].mine}

\* Mutant: the editor is not keyed by its question.
KeepsEditorAlways(a) == editor # None

KeepsEditor(a) == editor # None /\ editor.q = a

Typed(h, d) == Changed(Changed(h, d), Normalise(d))

\* calm: nothing is under way that the data do not show.
OpenEditor(q, data, calm) ==
  [q |-> q, hook |-> Typed(Mounted(data.content[q]), data.content[q]), calm |-> calm]

OpenPanel(data, calm) == [hook |-> Mounted(data.blurb), calm |-> calm]

\* Mutant: a selected question that was deleted stays selected.
ActiveStays(a, data) ==
  IF data = None \/ data.order = <<>> THEN None
  ELSE IF a # None /\ data.content[a] # None THEN a ELSE Head(data.order)

\* The effect on activeId.
Active(a, data) ==
  IF data = None \/ data.order = <<>> THEN None
  ELSE IF a \in Range(data.order) THEN a ELSE Head(data.order)

Disown(fl, kinds) ==
  [i \in Slots |-> IF fl[i] # None /\ fl[i].kind \in kinds THEN [fl[i] EXCEPT !.mine = FALSE]
                   ELSE fl[i]]

\* The page after an event: data and err of the cache, its state a and v, the editor and
\* panel that it had, the mutations fl that are left, and whether all is known.
Render(data, err, a, v, e, p, fl, calm) ==
  LET shown == data # None /\ ~err
      a2    == Active(a, data)
      keeps == e # None /\ KeepsEditor(a2)
      e2 == IF ~shown \/ v # "question" \/ a2 = None THEN None
            ELSE IF keeps THEN e ELSE OpenEditor(a2, data, calm)
      p2 == IF ~shown \/ v # "settings" THEN None
            ELSE IF p # None THEN p ELSE OpenPanel(data, calm)
      fl2 == IF e2 # None /\ keeps THEN fl ELSE Disown(fl, {"save"})
  IN  /\ cache' = data /\ broken' = err
      /\ active' = a2 /\ view' = v /\ editor' = e2 /\ panel' = p2
      /\ flight' = IF p2 # None /\ p # None THEN fl2 ELSE Disown(fl2, {"settings"})
      /\ title' = IF title = None /\ data # None THEN data.title ELSE title
      /\ calmTitle' = IF title = None THEN calm ELSE calmTitle

\* The data stay, and what is mounted: only mutations and hooks change.
Quietly(e, p, fl) ==
  /\ editor' = e /\ panel' = p /\ flight' = fl
  /\ UNCHANGED <<cache, broken, active, view, title>>

-----------------------------------------------------------------------------
(***************************************************************************)
(* Promises.  A mutation of a question resolves when the refetch that it   *)
(* caused, or the fetch that replaced it, has ended, however it ended;     *)
(* until then it is "waiting".                                             *)
(***************************************************************************)
Waiting(fl)    == {i \in Slots : fl[i] # None /\ fl[i].stage = "waiting"}
Cleared(fl, S) == [i \in Slots |-> IF i \in S THEN None ELSE fl[i]]

\* Where setActiveId leads, called by the continuations of S in an order that is open.
Moves(S) ==
  LET set == {i \in S : flight[i].mine /\ flight[i].kind \in {"add", "delete"}}
  IN  IF set = {} THEN {active}
      ELSE {IF flight[i].kind = "add" THEN flight[i].q ELSE None : i \in set}

\* The editor after the saves of S have resolved.
Resolved(S) ==
  LET own == S \cap Saves(flight)
  IN  IF own = {} THEN {editor}
      ELSE {[editor EXCEPT !.hook = Flushed(@, flight[i].arg)] : i \in own}

\* What waited goes on, with these data.
GoOn(data, err, calm) ==
  LET S    == Waiting(flight)
      left == Cleared(flight, S)
  IN  IF onPage
      THEN \E a \in Moves(S), e \in Resolved(S) :
             Render(data, err, a, view, e, panel, left, calm /\ AtRest(left))
      ELSE /\ cache' = data /\ broken' = err /\ flight' = left
           /\ UNCHANGED <<active, view, title, editor, panel, calmTitle>>

\* Mutant: a fetch that is under way is enough.
FetchOnce == fetch' = IF fetch = None THEN Sent ELSE fetch

\* The refetch of an active query: a fetch under way is cancelled.
FetchAgain == fetch' = Sent

\* invalidateQueries.
Invalidate ==
  /\ invalid' = TRUE
  /\ IF onPage THEN FetchAgain /\ missed' = FALSE
     ELSE missed' = (missed \/ fetch # None) /\ UNCHANGED fetch

FetchEnds ==
  /\ fetch \notin {None, Sent}
  /\ fetch' = None /\ invalid' = FALSE
  /\ GoOn(fetch, FALSE, ~missed)
  /\ UNCHANGED <<server, onPage, acts, missed>>

\* It fails, and so does its retry.
FetchFails ==
  /\ fetch # None /\ fetch' = None
  /\ GoOn(cache, TRUE, FALSE)
  /\ UNCHANGED <<server, invalid, onPage, acts, missed>>

\* The answer of mutation i: its onSuccess invalidates the quiz.  Its promise waits for
\* the refetch if onSuccess returns it.
Succeeds(i) ==
  LET waits == onPage /\ flight[i].kind \in {"save", "add", "delete"}
      p     == IF flight[i].kind = "settings" /\ flight[i].mine
               THEN [panel EXCEPT !.hook = Flushed(@, flight[i].arg)] ELSE panel
  IN  /\ flight[i] # None /\ flight[i].stage = "ok"
      /\ Invalidate
      /\ Quietly(editor, p, [flight EXCEPT ![i] = IF waits THEN [@ EXCEPT !.stage = "waiting"]
                                                  ELSE None])
      /\ UNCHANGED <<server, onPage, acts, calmTitle>>

\* Mutation i fails, other than a reorder: a save shows it, the others do not.
Fails(i) ==
  LET m == flight[i]
      mark(x, kind) == IF m.kind = kind /\ m.mine
                       THEN [x EXCEPT !.hook = Failed(@), !.calm = @ /\ m.stage = "failed"] ELSE x
  IN  /\ m # None /\ m.stage \in {"lost", "failed"} /\ m.kind # "reorder"
      /\ Quietly(mark(editor, "save"), mark(panel, "settings"), Cleared(flight, {i}))
      /\ missed' = (missed \/ m.stage = "lost")
      /\ calmTitle' = (calmTitle /\ m.kind # "title")
      /\ UNCHANGED <<server, invalid, fetch, onPage, acts>>

\* A reorder fails: the data are put back as they were before it.
ReorderFails(i) ==
  LET m    == flight[i]
      left == Cleared(flight, {i})
  IN  /\ m # None /\ m.stage \in {"lost", "failed"} /\ m.kind = "reorder"
      /\ Invalidate
      /\ IF onPage THEN Render(m.previous, FALSE, active, view, editor, panel, left, FALSE)
         ELSE /\ cache' = m.previous /\ broken' = FALSE /\ flight' = left
              /\ UNCHANGED <<active, view, title, editor, panel, calmTitle>>
      /\ UNCHANGED <<server, onPage, acts>>

-----------------------------------------------------------------------------
(***************************************************************************)
(* The user, and the timers.                                               *)
(***************************************************************************)
Shown == onPage /\ cache # None /\ ~broken

\* Bound: MaxActs.
Act(kind) == Shown /\ kind \in Acts /\ acts < MaxActs /\ acts' = acts + 1

Known == AtRest(flight) /\ fetch = None /\ ~broken /\ ~missed

\* The page with another selection or view.
Turn(a, v) == Render(cache, broken, a, v, editor, panel, flight, Known)

Request(kind, q, arg) ==
  [kind |-> kind, q |-> q, arg |-> arg, previous |-> None, stage |-> "sent", mine |-> TRUE]

\* Bound: MaxFlight.
HasSlot == ~\A i \in Slots : flight[i] # None
With(m) == [flight EXCEPT ![CHOOSE i \in Slots : flight[i] = None] = m]

Pending(kind) == \E i \in Slots : flight[i] # None /\ flight[i].kind = kind

Quiet == UNCHANGED <<server, onPage>>
Still == Quiet /\ UNCHANGED <<invalid, fetch, missed>>

\* The row of question i in the overview.
Select(i) ==
  /\ Act("select") /\ i \in DOMAIN cache.order
  /\ Turn(cache.order[i], "question") /\ Still

ToggleSettings ==
  /\ Act("view")
  /\ Turn(active, IF view = "settings" THEN "question" ELSE "settings") /\ Still

\* A key or click in the editor; an uploaded image that arrives is one as well.
Edit(d) ==
  /\ Act("edit") /\ editor # None
  /\ d \in Edits(editor.hook.value, editor.q) \ {editor.hook.value}
  /\ Quietly([editor EXCEPT !.hook = Typed(@, d), !.calm = @ /\ Saves(flight) = {}],
             panel, flight)
  /\ Still /\ UNCHANGED calmTitle

EditSettings(b) ==
  /\ Act("settings") /\ panel # None /\ b # panel.hook.value
  /\ Quietly(editor, [panel EXCEPT !.hook = Changed(@, b), !.calm = @ /\ ~Pending("settings")],
             flight)
  /\ Still /\ UNCHANGED calmTitle

\* The timer of the editor: onSave, with the question that is shown now.
SaveFires ==
  /\ editor # None /\ editor.hook.timer /\ HasSlot
  /\ Quietly([editor EXCEPT !.hook = Fired(@)], panel,
             With(Request("save", active, editor.hook.value)))
  /\ Still /\ UNCHANGED <<acts, calmTitle>>

SettingsFire ==
  /\ panel # None /\ panel.hook.timer /\ HasSlot
  /\ Quietly(editor, [panel EXCEPT !.hook = Fired(@)],
             With(Request("settings", None, panel.hook.value)))
  /\ Still /\ UNCHANGED <<acts, calmTitle>>

\* handleTitleBlur: nothing is sent of an empty title, or of the one that is known.
TitleDiffers(t) == t \notin {Empty, cache.title}

\* The title is edited and left.
Retitle(t) ==
  /\ Act("title") /\ t # title /\ title' = t
  /\ IF TitleDiffers(t) THEN HasSlot /\ flight' = With(Request("title", None, t))
     ELSE UNCHANGED flight
  /\ calmTitle' = (calmTitle /\ Known)
  /\ Still /\ UNCHANGED <<cache, broken, active, view, editor, panel>>

\* A button is disabled while the last request of this page's hook is pending.
IsPending(kind) == \E i \in Slots : flight[i] # None /\ flight[i].kind = kind /\ flight[i].mine

\* handlePublish.
Publish ==
  /\ Act("publish") /\ HasSlot /\ ~IsPending("publish")
  /\ Quietly(editor, panel, With(Request("publish", None, ~cache.published)))
  /\ Still /\ UNCHANGED calmTitle

\* The button of the overview.
CanAdd == ~IsPending("add")

\* handleAddQuestion.  An id is used once.
Add(q) ==
  /\ Act("add") /\ HasSlot /\ CanAdd
  /\ server.content[q] = None
  /\ \A i \in Slots : flight[i] # None /\ flight[i].kind = "add" => flight[i].q # q
  /\ Render(cache, broken, active, "question", editor, panel, With(Request("add", q, None)), FALSE)
  /\ Still

\* handleDeleteActive: the button stays enabled.
Delete ==
  /\ Act("delete") /\ editor # None /\ HasSlot
  /\ Quietly(editor, panel, With(Request("delete", active, None)))
  /\ Still /\ UNCHANGED calmTitle

\* onDragEnd: arrayMove.
Moved(s, i, j) == InsertAt(RemoveAt(s, i), j, s[i])

\* onMutate: a fetch under way is cancelled, so what waited goes on; the cache is
\* reordered ahead of the answer.
Drag(i, j) ==
  LET order == Moved(cache.order, i, j)
      m     == [Request("reorder", None, order) EXCEPT !.previous = cache]
      S     == Waiting(flight)
  IN  /\ Act("drag") /\ HasSlot /\ i # j
      /\ fetch' = None /\ invalid' = FALSE
      /\ \E a \in Moves(S), e \in Resolved(S) :
           Render([cache EXCEPT !.order = order], FALSE, a, view, e, panel,
                  Cleared(With(m), S), FALSE)
      /\ UNCHANGED missed /\ Quiet

\* The page is left: its promises go on without it.
Leave ==
  /\ onPage /\ "leave" \in Acts /\ acts < MaxActs /\ acts' = acts + 1
  /\ onPage' = FALSE /\ active' = None /\ view' = "question" /\ title' = None
  /\ editor' = None /\ panel' = None
  /\ flight' = [i \in Slots |-> IF flight[i] = None THEN None ELSE [flight[i] EXCEPT !.mine = FALSE]]
  /\ UNCHANGED <<server, cacheVars, missed, calmTitle>>

\* And opened again: it fetches unless a fetch is under way, or the data are neither
\* invalid nor older than staleTime.
Return ==
  /\ ~onPage /\ onPage' = TRUE
  /\ \/ /\ fetch = None /\ fetch' = Sent /\ missed' = FALSE
     \/ /\ fetch # None \/ (cache # None /\ ~invalid /\ ~broken)
        /\ UNCHANGED <<fetch, missed>>
  /\ Render(cache, broken, None, "question", None, None, flight, Known /\ ~invalid)
  /\ UNCHANGED <<server, invalid, acts>>

Next ==
  \/ \E i \in Slots : Serve(i) \/ Succeeds(i) \/ Fails(i) \/ ReorderFails(i)
  \/ ServeFetch \/ FetchEnds \/ FetchFails
  \/ \E q \in Ids : Add(q)
  \/ editor # None /\ \E d \in Edits(editor.hook.value, editor.q) : Edit(d)
  \/ \E b \in Blurbs : EditSettings(b)
  \/ \E t \in Titles : Retitle(t)
  \/ cache # None /\ \E i \in DOMAIN cache.order :
       Select(i) \/ \E j \in DOMAIN cache.order : Drag(i, j)
  \/ ToggleSettings \/ SaveFires \/ SettingsFire \/ Publish \/ Delete
  \/ Leave \/ Return

Spec == Init /\ [][Next]_vars

-----------------------------------------------------------------------------
(***************************************************************************)
(* What the builder promises.                                              *)
(***************************************************************************)
IsRequest(m) ==
  /\ m.kind \in Kinds /\ m \in Requests(m.kind)
  /\ m.stage = "waiting" => fetch # None

\* Every variable has its type; in particular what waits for a fetch has one to wait
\* for, and nothing is mounted that the page does not show.
TypeOK ==
  /\ server \in Quizzes /\ cache \in Quizzes \cup {None}
  /\ fetch \in Quizzes \cup {None, Sent}
  /\ broken \in BOOLEAN /\ invalid \in BOOLEAN
  /\ \A i \in Slots : flight[i] # None => IsRequest(flight[i])
  /\ active \in Ids \cup {None} /\ view \in {"question", "settings"}
  /\ title \in Titles \cup {None} /\ (title = None => cache = None \/ ~onPage)
  /\ editor # None =>
       /\ Shown /\ view = "question" /\ editor.q \in Range(cache.order)
       /\ editor \in Editors
  /\ panel # None => Shown /\ view = "settings" /\ panel \in Panels
  /\ acts \in 0 .. MaxActs /\ missed \in BOOLEAN /\ calmTitle \in BOOLEAN

\* Whatever is clicked, and however the timers fall, what the editor saves can be
\* played: two to ten options, and one that is right if only one may be.
SavesAreValid ==
  \A i \in Slots : flight[i] # None /\ flight[i].kind = "save" => Valid(flight[i].arg)

\* The content of a question was typed for it: not the draft of the question that was
\* shown before, when a timer fires or an answer comes late.
ContentsStayApart ==
  \A q \in Ids : server.content[q] # None => server.content[q].text[1] = q

\* A page that shows no failure, has nothing to send and no answer to wait for shows
\* what is saved, but for an image that was removed, if it was filled from current data
\* and not edited over its own save.
QuietPageIsSaved ==
  /\ editor # None /\ editor.calm /\ ~editor.hook.timer /\ ~ShowsFailure(editor.hook)
       /\ Saves(flight) = {}
     => Holds(server.content[editor.q], editor.hook.value)
  /\ panel # None /\ panel.calm /\ ~panel.hook.timer /\ ~ShowsFailure(panel.hook)
       /\ ~Pending("settings")
     => server.blurb = panel.hook.value
  /\ title \notin {None, Empty} /\ calmTitle /\ ~Pending("title") => server.title = title

\* When nothing is under way the cache holds the quiz of the server: refetches overtaken
\* by later changes, cancelled ones, and orders put back after a failure leave no trace.
CacheConverges ==
  Shown /\ Known => cache = server

(***************************************************************************)
(* What a comment of the code says and the code does not do.               *)
(***************************************************************************)
\* useDebouncedSave.ts:6 "Debounces `value` and calls the current `onFlush` when it
\* stabilises.": a value that is stable, with all answers there and no error, was flushed.
StableDraftIsFlushed ==
  editor # None /\ ~editor.hook.timer /\ ~ShowsFailure(editor.hook) /\ Known
    => Holds(server.content[editor.q], editor.hook.value)
=============================================================================
