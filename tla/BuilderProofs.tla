--------------------------- MODULE BuilderProofs ---------------------------
(***************************************************************************)
(* Proofs about Builder, for any questions, texts, titles and blurbs, any  *)
(* number of acts and of requests under way.                               *)
(***************************************************************************)
EXTENDS Builder, TLAPS, FiniteSetTheorems, SequenceTheorems, WellFoundedInduction

(***************************************************************************)
(* Drafts: what a click makes of a draft that has its options in number,   *)
(* the editor's effect makes one that can be played.                       *)
(***************************************************************************)
HasOptions(d) == d \in Drafts /\ Len(d.right) \in MinOptions .. MaxOptions

\* A draft of question q that can be played.
IsDraftOf(q, d) == d \in Drafts /\ Valid(d) /\ d.text[1] = q

LEMMA OptionsProperties ==
  ASSUME NEW d, HasOptions(d)
  PROVE  /\ d.right \in [1 .. Len(d.right) -> BOOLEAN] /\ Len(d.right) \in Nat \ {0}
         /\ DOMAIN d.right = 1 .. Len(d.right) /\ d.right # <<>>
         /\ Rights(d) \subseteq 1 .. Len(d.right)
<1>1. d.right \in Seq(BOOLEAN) /\ MinOptions \in Nat \ {0} /\ MaxOptions \in Nat
  BY DraftAssumption DEF HasOptions, Drafts
<1>2. d.right \in [1 .. Len(d.right) -> BOOLEAN] /\ Len(d.right) \in Nat \ {0}
      /\ DOMAIN d.right = 1 .. Len(d.right)
  BY <1>1, LenProperties DEF HasOptions
<1>. QED
  BY <1>2, EmptySeq DEF Rights

LEMMA OnlyOne ==
  ASSUME NEW d, HasOptions(d), NEW k \in 1 .. Len(d.right)
  PROVE  /\ HasOptions(Only(d, k)) /\ Valid(Only(d, k))
         /\ Only(d, k).text = d.text /\ Only(d, k).image = d.image /\ Only(d, k).type = d.type
<1>. DEFINE r == [i \in DOMAIN d.right |-> i = k]  e == Only(d, k)
<1>1. DOMAIN d.right = 1 .. Len(d.right) /\ Len(d.right) \in Nat \ {0}
  BY OptionsProperties
<1>2. r \in [1 .. Len(d.right) -> BOOLEAN]
  BY <1>1
<1>3. r \in Seq(BOOLEAN) /\ Len(r) = Len(d.right) /\ DOMAIN r = 1 .. Len(d.right)
  BY <1>1, <1>2
<1>4. {i \in DOMAIN r : r[i]} = {k}
  BY <1>1
<1>. HIDE DEF r
<1>5. /\ e \in Drafts /\ e.right = r /\ e.text = d.text /\ e.image = d.image /\ e.type = d.type
  BY <1>3 DEF HasOptions, Drafts, Only, r
<1>6. Rights(e) = {k}
  BY <1>4, <1>5 DEF Rights
<1>7. Cardinality(Rights(e)) = 1
  BY <1>6, FS_Singleton
<1>. QED
  BY <1>3, <1>5, <1>7 DEF HasOptions, Valid

\* A set of positions has a first one.
LEMMA HasFirst ==
  ASSUME NEW S \in SUBSET Nat, S # {}
  PROVE  \E k \in S : \A i \in S : k <= i
<1>1. PICK k \in S : \A i \in S : ~(<<i, k>> \in OpToRel(<, Nat))
  BY NatLessThanWellFounded, WFMin
<1>2. ASSUME NEW i \in S
      PROVE  k <= i
  <2>1. i \in Nat /\ k \in Nat
    OBVIOUS
  <2>2. ~(i < k)
    BY <1>1, <2>1 DEF OpToRel
  <2>. QED
    BY <2>1, <2>2
<1>. QED
  BY <1>2

LEMMA NormaliseMakesValid ==
  ASSUME NEW d, HasOptions(d)
  PROVE  /\ HasOptions(Normalise(d)) /\ Valid(Normalise(d)) /\ Normalise(d) \in Drafts
         /\ Normalise(d).text = d.text
<1>1. CASE d.type # "single" \/ Cardinality(Rights(d)) = 1
  BY <1>1 DEF Normalise, Valid, HasOptions
<1>2. CASE d.type = "single" /\ Cardinality(Rights(d)) # 1 /\ Rights(d) = {}
  <2>1. Normalise(d) = Only(d, 1) /\ 1 \in 1 .. Len(d.right)
    BY <1>2, OptionsProperties DEF Normalise
  <2>. QED
    BY <2>1, OnlyOne DEF HasOptions
<1>3. CASE d.type = "single" /\ Cardinality(Rights(d)) # 1 /\ Rights(d) # {}
  <2>. DEFINE k == CHOOSE k \in Rights(d) : \A i \in Rights(d) : k <= i
  <2>1. Rights(d) \in SUBSET Nat /\ Rights(d) \subseteq 1 .. Len(d.right) /\ d.right # <<>>
    BY OptionsProperties
  <2>2. k \in Rights(d)
    BY <1>3, <2>1, HasFirst
  <2>3. Normalise(d) = Only(d, k) /\ k \in 1 .. Len(d.right)
    BY <1>3, <2>1, <2>2 DEF Normalise
  <2>. HIDE DEF k
  <2>. QED
    BY <2>3, OnlyOne DEF HasOptions
<1>. QED
  BY <1>1, <1>2, <1>3

\* The options that are left are those before and after the removed one.
LEMMA RemoveAtProperties ==
  ASSUME NEW S, NEW s \in Seq(S), NEW k \in DOMAIN s
  PROVE  RemoveAt(s, k) \in Seq(S) /\ Len(RemoveAt(s, k)) = Len(s) - 1
<1>1. Len(s) \in Nat /\ DOMAIN s = 1 .. Len(s) /\ \A i \in 1 .. Len(s) : s[i] \in S
  BY LenProperties, ElementOfSeq
<1>2. SubSeq(s, 1, k - 1) \in Seq(S) /\ Len(SubSeq(s, 1, k - 1)) = k - 1
  BY <1>1, SubSeqProperties
<1>3. SubSeq(s, k + 1, Len(s)) \in Seq(S) /\ Len(SubSeq(s, k + 1, Len(s))) = Len(s) - k
  BY <1>1, SubSeqProperties
<1>. DEFINE a == SubSeq(s, 1, k - 1)  b == SubSeq(s, k + 1, Len(s))
<1>4. a \o b \in Seq(S) /\ Len(a \o b) = Len(a) + Len(b)
  BY <1>2, <1>3, ConcatProperties
<1>5. Len(a) + Len(b) = Len(s) - 1
  BY <1>1, <1>2, <1>3
<1>. QED
  BY <1>4, <1>5 DEF RemoveAt

\* A row's buttons toggle the option, or remove it while there are enough.
LEMMA RowClickKeeps ==
  ASSUME NEW d, HasOptions(d), NEW k \in DOMAIN d.right, NEW e \in RowClicks(d, k)
  PROVE  HasOptions(e) /\ e.text = d.text
<1>. USE DEF HasOptions
<1>1. /\ DOMAIN d.right = 1 .. Len(d.right) /\ Len(d.right) \in Nat \ {0} /\ d.right \in Seq(BOOLEAN)
      /\ d.right \in [1 .. Len(d.right) -> BOOLEAN]
      /\ MinOptions \in Nat \ {0} /\ MaxOptions \in Nat
  BY OptionsProperties, DraftAssumption DEF Drafts
<1>2. CASE e = Only(d, k)
  BY <1>1, <1>2, OnlyOne
<1>3. CASE e = [d EXCEPT !.right[k] = ~@]
  <2>. DEFINE r == [d.right EXCEPT ![k] = ~@]
  <2>1. r \in Seq(BOOLEAN) /\ Len(r) = Len(d.right)
    BY <1>1
  <2>2. e = [d EXCEPT !.right = r]
    BY <1>3 DEF Drafts
  <2>. HIDE DEF r
  <2>. QED
    BY <2>1, <2>2 DEF Drafts
<1>4. CASE Len(d.right) > MinOptions /\ e = [d EXCEPT !.right = RemoveAt(@, k)]
  <2>1. RemoveAt(d.right, k) \in Seq(BOOLEAN) /\ Len(RemoveAt(d.right, k)) = Len(d.right) - 1
    BY <1>1, RemoveAtProperties
  <2>. QED
    BY <1>1, <1>4, <2>1 DEF Drafts
<1>. QED
  BY <1>2, <1>3, <1>4 DEF RowClicks, ToggleCorrect

LEMMA EditKeeps ==
  ASSUME NEW d, HasOptions(d), NEW q \in Ids, d.text[1] = q, NEW e \in Edits(d, q)
  PROVE  HasOptions(e) /\ e.text[1] = q
<1>1. d \in Drafts /\ d.right \in Seq(BOOLEAN) /\ Len(d.right) \in Nat /\ MaxOptions \in Nat
      /\ MinOptions \in Nat
  BY OptionsProperties, DraftAssumption DEF HasOptions, Drafts
<1>2. CASE e \in Rewritings(d, q)
  <2>1. PICK t \in Texts : e = [d EXCEPT !.text = <<q, t>>]
    BY <1>2 DEF Rewritings
  <2>. QED
    BY <1>1, <2>1 DEF HasOptions, Drafts
<1>3. CASE e \in Pictures(d) \cup Retypings(d)
  BY <1>1, <1>3 DEF Pictures, Retypings, HasOptions, Drafts
<1>4. CASE e \in UNION {RowClicks(d, k) : k \in DOMAIN d.right}
  <2>1. PICK k \in DOMAIN d.right : e \in RowClicks(d, k)
    BY <1>4
  <2>. QED
    BY <2>1, RowClickKeeps
<1>5. CASE e \in Additions(d)
  <2>. DEFINE r == Append(d.right, FALSE)
  <2>1. Len(d.right) < MaxOptions /\ e = [d EXCEPT !.right = r]
    BY <1>5 DEF Additions
  <2>2. r \in Seq(BOOLEAN) /\ Len(r) = Len(d.right) + 1
    BY <1>1, AppendProperties
  <2>. HIDE DEF r
  <2>3. e \in Drafts /\ e.right = r /\ e.text = d.text
    BY <1>1, <2>1, <2>2 DEF Drafts
  <2>4. Len(r) \in MinOptions .. MaxOptions
    BY <1>1, <2>1, <2>2 DEF HasOptions
  <2>. QED
    BY <2>3, <2>4 DEF HasOptions
<1>. QED
  BY <1>2, <1>3, <1>4, <1>5 DEF Edits

LEMMA DraftHasOptions ==
  ASSUME NEW q, NEW d, IsDraftOf(q, d)
  PROVE  HasOptions(d) /\ d \in Drafts /\ Valid(d) /\ d.text[1] = q /\ Normalise(d) = d
<1>1. HasOptions(d)
  BY DEF IsDraftOf, HasOptions, Valid
<1>. QED
  BY <1>1 DEF IsDraftOf, Valid, Normalise

LEMMA BlankIsDraft ==
  ASSUME NEW q \in Ids, NEW t \in Texts
  PROVE  IsDraftOf(q, Blank(q, t))
<1>. DEFINE b == Blank(q, t)
<1>1. /\ b.text = <<q, t>> /\ b.image = FALSE /\ b.type = "single" /\ b.right = <<TRUE, FALSE>>
      /\ b \in Drafts
  <2>1. <<TRUE, FALSE>> \in Seq(BOOLEAN) /\ <<q, t>> \in Ids \X Texts
    OBVIOUS
  <2>. QED
    BY <2>1 DEF Blank, Drafts, Types
<1>. HIDE DEF b
<1>2. Len(b.right) = 2 /\ DOMAIN b.right = 1 .. 2 /\ b.right[1] = TRUE /\ b.right[2] = FALSE
  BY <1>1
<1>4. Rights(b) = {1}
  BY <1>2 DEF Rights
<1>3. Cardinality(Rights(b)) = 1
  BY <1>4, FS_Singleton
<1>. QED
  BY <1>1, <1>2, <1>3, DraftAssumption DEF IsDraftOf, Valid, b

\* A save makes of the content what it can hold of the draft.
LEMMA MergedHolds ==
  ASSUME NEW q, NEW c \in Drafts, NEW d, IsDraftOf(q, d)
  PROVE  IsDraftOf(q, Merged(c, d)) /\ Holds(Merged(c, d), d) /\ Holds(d, d)
<1>. DEFINE m == Merged(c, d)
<1>1. d \in Drafts /\ c.image \in BOOLEAN /\ d.image \in BOOLEAN
  BY DEF IsDraftOf, Drafts
<1>2. /\ m \in Drafts /\ m.text = d.text /\ m.type = d.type /\ m.right = d.right
      /\ m.image = (d.image \/ c.image) /\ m = [d EXCEPT !.image = d.image \/ c.image]
  BY <1>1 DEF Merged, Drafts
<1>3. Rights(m) = Rights(d)
  BY <1>2 DEF Rights
<1>4. IsDraftOf(q, m)
  BY <1>2, <1>3 DEF IsDraftOf, Valid
<1>5. (d.image \/ m.image) = m.image
  BY <1>2
<1>6. Holds(m, d)
  BY <1>1, <1>2, <1>5 DEF Holds, Merged, Drafts
<1>7. Holds(d, d)
  BY <1>1 DEF Holds, Merged, Drafts
<1>. QED
  BY <1>4, <1>6, <1>7

-----------------------------------------------------------------------------
(***************************************************************************)
(* The hook of the debounced saves.                                        *)
(***************************************************************************)
\* Without a timer or an error the value is what counts as saved.
Settles(h) == ~h.timer /\ ~ShowsFailure(h) => h.value = h.last

LEMMA ChangedHook ==
  ASSUME NEW V, NEW h \in Hooks(V), NEW v \in V
  PROVE  /\ Changed(h, v) \in Hooks(V) /\ Changed(h, v).value = v /\ Changed(h, v).last = h.last
         /\ Settles(h) => Settles(Changed(h, v))
  BY DEF Changed, Hooks, Settles, ShowsFailure

LEMMA MountedHook ==
  ASSUME NEW V, NEW v \in V
  PROVE  /\ Mounted(v) \in Hooks(V) /\ Mounted(v).value = v /\ Mounted(v).last = v
         /\ Settles(Mounted(v)) /\ ~Mounted(v).timer
  BY DEF Mounted, Hooks, Settles

LEMMA FiredHook ==
  ASSUME NEW V, NEW h \in Hooks(V)
  PROVE  /\ Fired(h) \in Hooks(V) /\ Fired(h).value = h.value /\ Fired(h).last = h.last
         /\ ~Fired(h).timer
  BY DEF Fired, Hooks

LEMMA FailedHook ==
  ASSUME NEW V, NEW h \in Hooks(V)
  PROVE  /\ Failed(h) \in Hooks(V) /\ Failed(h).value = h.value /\ Failed(h).last = h.last
         /\ Failed(h).timer = h.timer /\ Settles(Failed(h))
  BY DEF Failed, Hooks, Settles, ShowsFailure

LEMMA FlushedHook ==
  ASSUME NEW V, NEW h \in Hooks(V), NEW v \in V
  PROVE  /\ Flushed(h, v) \in Hooks(V) /\ Flushed(h, v).value = h.value
         /\ Flushed(h, v).last = v /\ Flushed(h, v).timer = h.timer
         /\ h.value = v => Settles(Flushed(h, v))
  BY DEF Flushed, Hooks, Settles, ShowsFailure

LEMMA TypedHook ==
  ASSUME NEW q, NEW h \in Hooks(Drafts), NEW d, HasOptions(d), d.text[1] = q
  PROVE  /\ Typed(h, d) \in Hooks(Drafts) /\ IsDraftOf(q, Typed(h, d).value)
         /\ Typed(h, d).value = Normalise(d) /\ Typed(h, d).last = h.last
         /\ Settles(h) => Settles(Typed(h, d))
<1>1. d \in Drafts /\ Normalise(d) \in Drafts /\ IsDraftOf(q, Normalise(d))
  BY NormaliseMakesValid DEF HasOptions, IsDraftOf
<1>2. /\ Changed(h, d) \in Hooks(Drafts) /\ Changed(h, d).last = h.last
      /\ Settles(h) => Settles(Changed(h, d))
  BY <1>1, ChangedHook
<1>3. PICK g : g = Changed(h, d)
  OBVIOUS
<1>4. /\ Changed(g, Normalise(d)) \in Hooks(Drafts) /\ Changed(g, Normalise(d)).last = g.last
      /\ Changed(g, Normalise(d)).value = Normalise(d)
      /\ Settles(g) => Settles(Changed(g, Normalise(d)))
  BY <1>1, <1>2, <1>3, ChangedHook
<1>5. Typed(h, d) = Changed(g, Normalise(d))
  BY <1>3 DEF Typed
<1>. QED
  BY <1>1, <1>2, <1>3, <1>4, <1>5

\* The editor of a question that is opened shows its content.
LEMMA OpenedEditor ==
  ASSUME NEW q \in Ids, NEW data, IsDraftOf(q, data.content[q]), NEW calm \in BOOLEAN
  PROVE  OpenEditor(q, data, calm) = [q |-> q, hook |-> Mounted(data.content[q]), calm |-> calm]
<1>. DEFINE c == data.content[q]
<1>1. c \in Drafts /\ Normalise(c) = c
  BY DraftHasOptions
<1>2. Mounted(c).value = c
  BY DEF Mounted
<1>3. Typed(Mounted(c), c) = Mounted(c)
  BY <1>1, <1>2 DEF Typed, Changed
<1>. QED
  BY <1>3 DEF OpenEditor

-----------------------------------------------------------------------------
(***************************************************************************)
(* Requests.                                                               *)
(***************************************************************************)
AllRequests == UNION {Requests(kind) : kind \in Kinds}

IsKind(m, kind) == m # None /\ m.kind = kind

LEMMA RequestFields ==
  ASSUME NEW m \in AllRequests
  PROVE  /\ m # None /\ m.kind \in Kinds /\ m \in Requests(m.kind)
         /\ m.stage \in Stages /\ m.mine \in BOOLEAN
         /\ m.kind \in {"save", "add", "delete"} => m.q \in Ids
         /\ m.kind = "save" => m.arg \in Drafts
         /\ m.kind = "settings" => m.arg \in Blurbs
         /\ m.kind = "title" => m.arg \in Titles \ {Empty}
         /\ m.kind = "publish" => m.arg \in BOOLEAN
         /\ m.kind = "reorder" => m.arg \in Seq(Ids) /\ m.previous \in Quizzes
<1>1. PICK kind \in Kinds : m \in Requests(kind)
  BY DEF AllRequests
<1>2. m.kind = kind /\ m.stage \in Stages /\ m.mine \in BOOLEAN /\ m # None /\ m.arg \in Args(kind)
      /\ m.q \in (IF kind \in {"save", "add", "delete"} THEN Ids ELSE {None})
      /\ m.previous \in (IF kind = "reorder" THEN Quizzes ELSE {None})
  BY <1>1, BuilderAssumption DEF Requests
<1>3. /\ Args("save") = Drafts /\ Args("settings") = Blurbs /\ Args("title") = Titles \ {Empty}
      /\ Args("publish") = BOOLEAN /\ Args("reorder") = Seq(Ids)
  BY DEF Args
<1>. QED
  BY <1>1, <1>2, <1>3

\* Another stage or owner leaves a request one.
LEMMA RequestSteps ==
  ASSUME NEW m \in AllRequests
  PROVE  /\ \A st \in Stages : LET n == [m EXCEPT !.stage = st]
                               IN  /\ n \in AllRequests /\ n.stage = st /\ n.kind = m.kind
                                   /\ n.q = m.q /\ n.arg = m.arg /\ n.previous = m.previous
                                   /\ n.mine = m.mine
         /\ LET n == [m EXCEPT !.mine = FALSE]
            IN  /\ n \in AllRequests /\ n.stage = m.stage /\ n.kind = m.kind
                /\ n.q = m.q /\ n.arg = m.arg /\ n.previous = m.previous /\ ~n.mine
<1>1. PICK kind \in Kinds : m \in Requests(kind)
  BY DEF AllRequests
<1>2. ASSUME NEW st \in Stages
      PROVE  LET n == [m EXCEPT !.stage = st]
             IN  /\ n \in Requests(kind) /\ n.stage = st /\ n.kind = m.kind
                 /\ n.q = m.q /\ n.arg = m.arg /\ n.previous = m.previous /\ n.mine = m.mine
  BY <1>1 DEF Requests
<1>3. LET n == [m EXCEPT !.mine = FALSE]
      IN  /\ n \in Requests(kind) /\ n.stage = m.stage /\ n.kind = m.kind
          /\ n.q = m.q /\ n.arg = m.arg /\ n.previous = m.previous /\ ~n.mine
  BY <1>1 DEF Requests
<1>. QED
  BY <1>2, <1>3 DEF AllRequests

-----------------------------------------------------------------------------
(***************************************************************************)
(* The invariant, as predicates of the data d, the requests fl, the editor *)
(* e, the panel p and the server's quiz t.                                 *)
(***************************************************************************)
\* A quiz: what it has an entry for was typed for it and can be played.
IsGood(s) ==
  /\ s \in Quizzes
  /\ \A q \in Range(s.order) : s.content[q] # None
  /\ \A q \in Ids : s.content[q] # None => IsDraftOf(q, s.content[q])

\* Every question of s is, or was, one of t.
Below(s, t) == \A q \in Ids : s.content[q] # None => t.content[q] # None

IsData(d, t) == d # None => IsGood(d) /\ Below(d, t)

IsGoodRequest(m, t) ==
  /\ m \in AllRequests
  /\ m.kind = "save" => IsDraftOf(m.q, m.arg)
  /\ m.kind = "reorder" => IsGood(m.previous) /\ Below(m.previous, t)
  /\ m.stage = "waiting" => m.kind \in {"save", "add", "delete"}

\* The requests under way; an id is sent for one question, and used once.
IsFlight(fl, t) ==
  /\ fl \in [Slots -> AllRequests \cup {None}]
  /\ \A i \in Slots : fl[i] # None => IsGoodRequest(fl[i], t)
  /\ \A i \in Slots : IsKind(fl[i], "add") =>
       /\ fl[i].stage = "sent" => t.content[fl[i].q] = None
       /\ \A j \in Slots : IsKind(fl[j], "add") /\ fl[j].q = fl[i].q => j = i

IsEditor(e) == e \in Editors /\ IsDraftOf(e.q, e.hook.value)

\* What waits for the editor or the panel has one.
Owned(fl, e, p) ==
  \A i \in Slots :
    /\ IsKind(fl[i], "save") /\ fl[i].mine => e # None /\ fl[i].q = e.q
    /\ IsKind(fl[i], "settings") /\ fl[i].mine => p # None

\* A calm editor: at most one save is under way, its own, of the value that it shows;
\* what counts as saved is on the server, or will be once that save is answered.
EditorInv(e, fl, t) ==
  e # None /\ e.calm =>
    /\ \A i \in Slots : IsKind(fl[i], "save") =>
         /\ fl[i].mine /\ fl[i].arg = e.hook.value /\ ~e.hook.timer
         /\ \A j \in Slots : IsKind(fl[j], "save") => j = i
         /\ fl[i].stage \in {"ok", "lost", "waiting"} => Holds(t.content[e.q], fl[i].arg)
    /\ (\A i \in Slots : IsKind(fl[i], "save") => fl[i].stage \in {"sent", "failed"})
         => Holds(t.content[e.q], e.hook.last)
    /\ (\A i \in Slots : ~IsKind(fl[i], "save")) => Settles(e.hook)

PanelInv(p, fl, t) ==
  p # None /\ p.calm =>
    /\ \A i \in Slots : IsKind(fl[i], "settings") =>
         /\ fl[i].mine /\ fl[i].arg = p.hook.value /\ ~p.hook.timer
         /\ \A j \in Slots : IsKind(fl[j], "settings") => j = i
         /\ fl[i].stage \in {"ok", "lost"} => t.blurb = fl[i].arg
    /\ (\A i \in Slots : IsKind(fl[i], "settings") => fl[i].stage \in {"sent", "failed"})
         => t.blurb = p.hook.last
    /\ (\A i \in Slots : ~IsKind(fl[i], "settings")) => Settles(p.hook)

TitleInv(ti, ct, fl, t) ==
  ct /\ ti # None =>
    /\ \A i \in Slots : IsKind(fl[i], "title") =>
         /\ fl[i].arg = ti
         /\ \A j \in Slots : IsKind(fl[j], "title") => j = i
         /\ fl[i].stage \in {"ok", "lost"} => t.title = ti
    /\ (\A i \in Slots : ~IsKind(fl[i], "title")) /\ ti # Empty => t.title = ti

\* All of these.
RequestInv(e, p, ti, ct, fl, t) ==
  /\ IsFlight(fl, t) /\ Owned(fl, e, p)
  /\ EditorInv(e, fl, t) /\ PanelInv(p, fl, t) /\ TitleInv(ti, ct, fl, t)

\* What is mounted fits the data that are shown, if any are.
MountInv(d, err, v, a, e, p) ==
  /\ e # None => /\ d # None /\ ~err /\ v = "question"
                 /\ IsEditor(e) /\ e.q = a /\ a \in Range(d.order)
  /\ p # None => d # None /\ ~err /\ v = "settings" /\ p \in Panels

Views == {"question", "settings"}

QuizInv ==
  /\ IsGood(server) /\ IsData(cache, server)
  /\ fetch \notin {None, Sent} => IsData(fetch, server)

PageInv ==
  /\ broken \in BOOLEAN /\ invalid \in BOOLEAN /\ onPage \in BOOLEAN /\ missed \in BOOLEAN
  /\ calmTitle \in BOOLEAN /\ acts \in 0 .. MaxActs
  /\ active \in Ids \cup {None} /\ view \in Views /\ title \in Titles \cup {None}
  /\ MountInv(cache, broken, view, active, editor, panel)
  /\ ~onPage => title = None /\ editor = None /\ panel = None
  /\ onPage /\ title = None => cache = None
  /\ \A i \in Slots : flight[i] # None /\ flight[i].stage = "waiting" => fetch # None

\* No answer is there or lost that the cache was not told of.
AllTold == \A i \in Slots : flight[i] # None => flight[i].stage \notin {"ok", "lost"}

\* The data are the server's if nothing that changed it is unheard of; the same for what
\* the fetch has read.
CacheInv ==
  /\ onPage /\ fetch = None /\ ~broken => ~invalid
  /\ fetch = None /\ ~missed /\ ~broken /\ ~invalid /\ cache # None /\ AllTold
       /\ (\A i \in Slots : ~IsKind(flight[i], "reorder"))
       => cache = server
  /\ fetch \notin {None, Sent} /\ ~missed /\ AllTold => fetch = server

IInv ==
  /\ QuizInv /\ PageInv /\ CacheInv
  /\ RequestInv(editor, panel, title, calmTitle, flight, server)

-----------------------------------------------------------------------------
(***************************************************************************)
(* What the parts of the invariant depend on.                              *)
(***************************************************************************)
SameKind(fl2, fl, kind) ==
  \A i \in Slots : IsKind(fl2[i], kind) \/ IsKind(fl[i], kind) => fl2[i] = fl[i]

LEMMA EditorKeeps ==
  ASSUME NEW e, NEW fl, NEW fl2, NEW t, EditorInv(e, fl, t), SameKind(fl2, fl, "save")
  PROVE  EditorInv(e, fl2, t)
  BY DEF EditorInv, SameKind

LEMMA PanelKeeps ==
  ASSUME NEW p, NEW fl, NEW fl2, NEW t, PanelInv(p, fl, t), SameKind(fl2, fl, "settings")
  PROVE  PanelInv(p, fl2, t)
  BY DEF PanelInv, SameKind

LEMMA TitleKeeps ==
  ASSUME NEW ti, NEW ct, NEW fl, NEW fl2, NEW t, TitleInv(ti, ct, fl, t),
         SameKind(fl2, fl, "title")
  PROVE  TitleInv(ti, ct, fl2, t)
  BY DEF TitleInv, SameKind

\* The same requests, but for whose they are.
Like(fl2, fl) ==
  \A i \in Slots :
    /\ fl2[i] = None <=> fl[i] = None
    /\ fl[i] # None => /\ fl2[i].kind = fl[i].kind /\ fl2[i].q = fl[i].q
                       /\ fl2[i].arg = fl[i].arg /\ fl2[i].previous = fl[i].previous
                       /\ fl2[i].stage = fl[i].stage /\ (fl2[i].mine => fl[i].mine)

LEMMA LikeKeeps ==
  ASSUME NEW fl, NEW fl2 \in [Slots -> AllRequests \cup {None}], NEW t, NEW ti, NEW ct,
         IsFlight(fl, t), TitleInv(ti, ct, fl, t), Like(fl2, fl)
  PROVE  IsFlight(fl2, t) /\ TitleInv(ti, ct, fl2, t)
<1>1. ASSUME NEW i \in Slots, fl2[i] # None
      PROVE  IsGoodRequest(fl2[i], t)
  <2>1. fl[i] # None /\ IsGoodRequest(fl[i], t) /\ fl2[i] \in AllRequests
    BY <1>1 DEF IsFlight, Like
  <2>2. /\ fl2[i].kind = fl[i].kind /\ fl2[i].q = fl[i].q /\ fl2[i].arg = fl[i].arg
        /\ fl2[i].previous = fl[i].previous /\ fl2[i].stage = fl[i].stage
    BY <2>1 DEF Like
  <2>. QED
    BY <2>1, <2>2 DEF IsGoodRequest
<1>2. \A i \in Slots, kind \in Kinds : IsKind(fl2[i], kind) <=> IsKind(fl[i], kind)
  BY DEF Like, IsKind
<1>3. \A i \in Slots, kind \in Kinds : IsKind(fl[i], kind) =>
        /\ fl2[i].q = fl[i].q /\ fl2[i].stage = fl[i].stage /\ fl2[i].arg = fl[i].arg
  BY DEF Like, IsKind
<1>4. "add" \in Kinds /\ "title" \in Kinds
  BY DEF Kinds
<1>5. \A i \in Slots : IsKind(fl2[i], "add") =>
        /\ fl2[i].stage = "sent" => t.content[fl2[i].q] = None
        /\ \A j \in Slots : IsKind(fl2[j], "add") /\ fl2[j].q = fl2[i].q => j = i
  BY <1>2, <1>3, <1>4 DEF IsFlight
<1>6. IsFlight(fl2, t)
  BY <1>1, <1>5 DEF IsFlight
<1>7. TitleInv(ti, ct, fl2, t)
  BY <1>2, <1>3, <1>4 DEF TitleInv
<1>. QED
  BY <1>6, <1>7

LEMMA DisownLike ==
  ASSUME NEW fl \in [Slots -> AllRequests \cup {None}], NEW kinds
  PROVE  /\ Disown(fl, kinds) \in [Slots -> AllRequests \cup {None}]
         /\ Like(Disown(fl, kinds), fl)
         /\ \A i \in Slots : /\ fl[i] # None /\ fl[i].kind \in kinds => ~Disown(fl, kinds)[i].mine
                             /\ fl[i] # None /\ fl[i].kind \notin kinds => Disown(fl, kinds)[i] = fl[i]
                             /\ fl[i] = None => Disown(fl, kinds)[i] = None
<1>. DEFINE fl2 == Disown(fl, kinds)
<1>1. ASSUME NEW i \in Slots
      PROVE  /\ fl2[i] \in AllRequests \cup {None}
             /\ fl2[i] = None <=> fl[i] = None
             /\ fl[i] # None =>
                  /\ fl2[i].kind = fl[i].kind /\ fl2[i].q = fl[i].q
                  /\ fl2[i].arg = fl[i].arg /\ fl2[i].previous = fl[i].previous
                  /\ fl2[i].stage = fl[i].stage /\ (fl2[i].mine => fl[i].mine)
             /\ fl[i] # None /\ fl[i].kind \in kinds => ~fl2[i].mine
             /\ fl[i] # None /\ fl[i].kind \notin kinds => fl2[i] = fl[i]
  <2>1. CASE fl[i] # None /\ fl[i].kind \in kinds
    <3>1. PICK m \in AllRequests : m = fl[i]
      BY <2>1
    <3>2. fl2[i] = [m EXCEPT !.mine = FALSE]
      BY <2>1, <3>1 DEF Disown
    <3>3. PICK n : n = fl2[i]
      OBVIOUS
    <3>4. /\ n \in AllRequests /\ n.stage = m.stage /\ n.kind = m.kind
          /\ n.q = m.q /\ n.arg = m.arg /\ n.previous = m.previous /\ ~n.mine
      BY <3>2, <3>3, RequestSteps
    <3>5. n # None
      BY <3>4, RequestFields
    <3>. QED
      BY ONLY <2>1, <3>1, <3>3, <3>4, <3>5
  <2>2. CASE ~(fl[i] # None /\ fl[i].kind \in kinds)
    <3>1. fl2[i] = fl[i]
      BY <2>2 DEF Disown
    <3>. QED
      BY <2>2, <3>1
  <2>. QED
    BY <2>1, <2>2
<1>2. fl2 = [i \in Slots |-> fl2[i]]
  BY DEF Disown
<1>. HIDE DEF fl2
<1>3. fl2 \in [Slots -> AllRequests \cup {None}]
  BY <1>1, <1>2
<1>4. Like(fl2, fl)
  BY <1>1 DEF Like
<1>. QED
  BY <1>1, <1>3, <1>4 DEF fl2

-----------------------------------------------------------------------------
(***************************************************************************)
(* Rendering.                                                              *)
(***************************************************************************)
LEMMA ActiveIsShown ==
  ASSUME NEW data, NEW t, IsData(data, t), NEW a \in Ids \cup {None}, NEW b, b = Active(a, data)
  PROVE  /\ b \in Ids \cup {None}
         /\ b # None => /\ data # None /\ b \in Range(data.order)
                        /\ IsDraftOf(b, data.content[b])
<1>1. CASE data = None \/ data.order = <<>>
  BY <1>1 DEF Active
<1>2. CASE data # None /\ data.order # <<>>
  <2>1. data.order \in Seq(Ids) /\ IsGood(data)
    BY <1>2 DEF IsData, IsGood, Quizzes
  <2>2. 1 \in DOMAIN data.order /\ Head(data.order) = data.order[1]
    BY <1>2, <2>1, LenProperties, EmptySeq, HeadTailProperties
  <2>3. b \in Range(data.order)
    BY <1>2, <2>2 DEF Active, Range
  <2>4. Range(data.order) \subseteq Ids
    BY <2>1 DEF Range
  <2>. QED
    BY <1>2, <2>1, <2>3, <2>4 DEF IsGood
<1>. QED
  BY <1>1, <1>2

\* An editor that is opened is calm only on the server's content.
LEMMA OpenedIsCalm ==
  ASSUME NEW q \in Ids, NEW data, NEW t, IsDraftOf(q, data.content[q]), NEW calm \in BOOLEAN,
         NEW fl, calm => AtRest(fl) /\ data = t, NEW e, e = OpenEditor(q, data, calm)
  PROVE  IsEditor(e) /\ e.q = q /\ EditorInv(e, fl, t)
<1>. DEFINE c == data.content[q]
<1>1. c \in Drafts /\ Mounted(c) \in Hooks(Drafts) /\ Mounted(c).value = c /\ Mounted(c).last = c
      /\ Settles(Mounted(c)) /\ Holds(c, c)
  BY MountedHook, DraftHasOptions, MergedHolds
<1>2. e = [q |-> q, hook |-> Mounted(c), calm |-> calm]
  BY OpenedEditor
<1>3. e \in Editors /\ e.q = q /\ e.hook = Mounted(c) /\ e.calm = calm
  BY <1>1, <1>2 DEF Editors
<1>4. IsEditor(e)
  BY <1>1, <1>3 DEF IsEditor
<1>5. EditorInv(e, fl, t)
  BY <1>1, <1>3 DEF EditorInv, AtRest, IsKind
<1>. QED
  BY <1>3, <1>4, <1>5

LEMMA OpenedPanel ==
  ASSUME NEW data, NEW t, data.blurb \in Blurbs, NEW calm \in BOOLEAN,
         NEW fl, calm => AtRest(fl) /\ data = t, NEW p, p = OpenPanel(data, calm)
  PROVE  p \in Panels /\ PanelInv(p, fl, t)
<1>. DEFINE b == data.blurb
<1>1. Mounted(b) \in Hooks(Blurbs) /\ Mounted(b).value = b /\ Mounted(b).last = b
      /\ Settles(Mounted(b))
  BY MountedHook
<1>2. p = [hook |-> Mounted(b), calm |-> calm]
  BY DEF OpenPanel
<1>3. p \in Panels /\ p.hook = Mounted(b) /\ p.calm = calm
  BY <1>1, <1>2 DEF Panels
<1>4. PanelInv(p, fl, t)
  BY <1>1, <1>3 DEF PanelInv, AtRest, IsKind
<1>. QED
  BY <1>3, <1>4

LEMMA RenderKeeps ==
  ASSUME NEW data, NEW err \in BOOLEAN, NEW a \in Ids \cup {None}, NEW v \in Views,
         NEW e, NEW p, NEW fl, NEW calm \in BOOLEAN, NEW t,
         IsData(data, t), IsFlight(fl, t), Owned(fl, e, p),
         EditorInv(e, fl, t), PanelInv(p, fl, t), TitleInv(title, calmTitle, fl, t),
         e # None => IsEditor(e) /\ editor # None /\ editor.q = e.q,
         p # None => p \in Panels,
         title \in Titles \cup {None}, calmTitle \in BOOLEAN,
         calm => AtRest(fl) /\ (data # None => data = t),
         Render(data, err, a, v, e, p, fl, calm)
  PROVE  /\ cache' = data /\ broken' = err /\ view' = v
         /\ active' \in Ids \cup {None} /\ title' \in Titles \cup {None}
         /\ calmTitle' \in BOOLEAN /\ (title' = None => data = None)
         /\ MountInv(data, err, v, active', editor', panel')
         /\ RequestInv(editor', panel', title', calmTitle', flight', t)
         /\ Like(flight', fl)
<1>. DEFINE shown == data # None /\ ~err
            a2    == Active(a, data)
            keeps == e # None /\ KeepsEditor(a2)
            e2 == IF ~shown \/ v # "question" \/ a2 = None THEN None
                  ELSE IF keeps THEN e ELSE OpenEditor(a2, data, calm)
            p2 == IF ~shown \/ v # "settings" THEN None
                  ELSE IF p # None THEN p ELSE OpenPanel(data, calm)
            fl2 == IF e2 # None /\ keeps THEN fl ELSE Disown(fl, {"save"})
            fl3 == IF p2 # None /\ p # None THEN fl2 ELSE Disown(fl2, {"settings"})
            ti2 == IF title = None /\ data # None THEN data.title ELSE title
            ct2 == IF title = None THEN calm ELSE calmTitle
<1>1. /\ cache' = data /\ broken' = err /\ view' = v /\ active' = a2 /\ editor' = e2
      /\ panel' = p2 /\ flight' = fl3 /\ title' = ti2 /\ calmTitle' = ct2
  BY DEF Render
<1>2. /\ a2 \in Ids \cup {None}
      /\ a2 # None => /\ data # None /\ a2 \in Range(data.order)
                      /\ IsDraftOf(a2, data.content[a2])
  BY ActiveIsShown
<1>. HIDE DEF a2
<1>3. keeps => e.q = a2 /\ IsEditor(e)
  BY DEF KeepsEditor
<1>. HIDE DEF keeps
<1>4. /\ fl \in [Slots -> AllRequests \cup {None}]
      /\ data # None => data.blurb \in Blurbs /\ data.title \in Titles \ {Empty} /\ data.title # None
  BY BuilderAssumption DEF IsFlight, IsData, IsGood, Quizzes
<1>5. /\ fl2 \in [Slots -> AllRequests \cup {None}] /\ Like(fl2, fl)
      /\ \A i \in Slots : fl[i] # None /\ fl[i].kind # "save" => fl2[i] = fl[i]
      /\ ~(e2 # None /\ keeps) => \A i \in Slots : IsKind(fl2[i], "save") => ~fl2[i].mine
      /\ e2 # None /\ keeps => fl2 = fl
  <2>1. CASE e2 # None /\ keeps
    <3>1. fl2 = fl
      BY <2>1
    <3>. QED
      BY <1>4, <2>1, <3>1 DEF Like
  <2>2. CASE ~(e2 # None /\ keeps)
    <3>1. fl2 = Disown(fl, {"save"})
      BY <2>2
    <3>2. PICK g : g = fl2
      OBVIOUS
    <3>3. /\ g \in [Slots -> AllRequests \cup {None}] /\ Like(g, fl)
          /\ \A i \in Slots : /\ fl[i] # None /\ fl[i].kind \in {"save"} => ~g[i].mine
                              /\ fl[i] # None /\ fl[i].kind \notin {"save"} => g[i] = fl[i]
      BY <1>4, <3>1, <3>2, DisownLike
    <3>4. \A i \in Slots : IsKind(g[i], "save") => ~g[i].mine
      BY <3>3 DEF Like, IsKind
    <3>. QED
      BY <2>2, <3>2, <3>3, <3>4
  <2>. QED
    BY <2>1, <2>2
<1>. HIDE DEF fl2
<1>6. /\ fl3 \in [Slots -> AllRequests \cup {None}] /\ Like(fl3, fl2)
      /\ \A i \in Slots : fl2[i] # None /\ fl2[i].kind # "settings" => fl3[i] = fl2[i]
      /\ ~(p2 # None /\ p # None) => \A i \in Slots : IsKind(fl3[i], "settings") => ~fl3[i].mine
      /\ p2 # None /\ p # None => fl3 = fl2
  <2>1. CASE p2 # None /\ p # None
    <3>1. fl3 = fl2
      BY <2>1
    <3>. QED
      BY <1>5, <2>1, <3>1 DEF Like
  <2>2. CASE ~(p2 # None /\ p # None)
    <3>1. fl3 = Disown(fl2, {"settings"})
      BY <2>2
    <3>2. PICK g : g = fl3
      OBVIOUS
    <3>3. /\ g \in [Slots -> AllRequests \cup {None}] /\ Like(g, fl2)
          /\ \A i \in Slots : /\ fl2[i] # None /\ fl2[i].kind \in {"settings"} => ~g[i].mine
                              /\ fl2[i] # None /\ fl2[i].kind \notin {"settings"} => g[i] = fl2[i]
      BY <1>5, <3>1, <3>2, DisownLike
    <3>4. \A i \in Slots : IsKind(g[i], "settings") => ~g[i].mine
      BY <3>3 DEF Like, IsKind
    <3>. QED
      BY <2>2, <3>2, <3>3, <3>4
  <2>. QED
    BY <2>1, <2>2
<1>. HIDE DEF fl3
<1>7. Like(fl3, fl)
  BY <1>5, <1>6 DEF Like
<1>8. IsFlight(fl3, t) /\ TitleInv(title, calmTitle, fl3, t)
  BY <1>6, <1>7, LikeKeeps
<1>9. (e2 # None /\ keeps => SameKind(fl3, fl, "save"))
      /\ (p2 # None /\ p # None => SameKind(fl3, fl, "settings"))
  BY <1>5, <1>6, <1>7 DEF SameKind, IsKind, Like
<1>10. calm => AtRest(fl3)
  BY <1>7 DEF AtRest, Like
\* The editor.
<1>11. /\ e2 # None => /\ data # None /\ ~err /\ v = "question"
                       /\ IsEditor(e2) /\ e2.q = a2 /\ a2 \in Range(data.order)
       /\ EditorInv(e2, fl3, t)
  <2>1. CASE e2 = None
    BY <2>1 DEF EditorInv
  <2>2. CASE e2 # None /\ keeps
    <3>1. e2 = e /\ shown /\ v = "question" /\ a2 # None
      BY <2>2
    <3>. QED
      BY <1>2, <1>3, <1>9, <2>2, <3>1, EditorKeeps
  <2>3. CASE e2 # None /\ ~keeps
    <3>1. e2 = OpenEditor(a2, data, calm) /\ shown /\ v = "question" /\ a2 # None
      BY <2>3
    <3>. QED
      BY <1>2, <1>10, <3>1, OpenedIsCalm
  <2>. QED
    BY <2>1, <2>2, <2>3
\* The panel.
<1>12. /\ p2 # None => data # None /\ ~err /\ v = "settings" /\ p2 \in Panels
       /\ PanelInv(p2, fl3, t)
  <2>1. CASE p2 = None
    BY <2>1 DEF PanelInv
  <2>2. CASE p2 # None /\ p # None
    <3>1. p2 = p /\ shown /\ v = "settings"
      BY <2>2
    <3>. QED
      BY <1>9, <2>2, <3>1, PanelKeeps
  <2>3. CASE p2 # None /\ p = None
    <3>1. p2 = OpenPanel(data, calm) /\ shown /\ v = "settings"
      BY <2>3
    <3>. QED
      BY <1>4, <1>10, <3>1, OpenedPanel
  <2>. QED
    BY <2>1, <2>2, <2>3
<1>13. Owned(fl3, e2, p2)
  <2>1. ASSUME NEW i \in Slots, IsKind(fl3[i], "save"), fl3[i].mine
        PROVE  e2 # None /\ fl3[i].q = e2.q
    <3>1. fl2[i] = fl3[i]
      BY <1>6, <2>1 DEF Like, IsKind
    <3>2. e2 # None /\ keeps
      BY <1>5, <2>1, <3>1
    <3>3. fl3[i] = fl[i] /\ e2 = e
      BY <1>5, <3>1, <3>2
    <3>. QED
      BY <2>1, <3>2, <3>3 DEF Owned
  <2>2. ASSUME NEW i \in Slots, IsKind(fl3[i], "settings"), fl3[i].mine
        PROVE  p2 # None
    BY <1>6, <2>2
  <2>. QED
    BY <2>1, <2>2 DEF Owned
<1>14. TitleInv(ti2, ct2, fl3, t)
  <2>1. CASE title # None
    BY <1>8, <2>1
  <2>2. CASE title = None /\ data = None
    BY <2>2 DEF TitleInv
  <2>3. CASE title = None /\ data # None
    <3>1. ti2 = data.title /\ ct2 = calm
      BY <2>3
    <3>. QED
      BY <1>10, <2>3, <3>1 DEF TitleInv, AtRest, IsKind
  <2>. QED
    BY <2>1, <2>2, <2>3
<1>15. ti2 \in Titles \cup {None} /\ ct2 \in BOOLEAN /\ (ti2 = None => data = None)
  BY <1>4
<1>16. MountInv(data, err, v, a2, e2, p2)
  BY <1>11, <1>12 DEF MountInv
<1>17. RequestInv(e2, p2, ti2, ct2, fl3, t)
  BY <1>8, <1>11, <1>12, <1>13, <1>14 DEF RequestInv
<1>. HIDE DEF e2, p2, ti2, ct2
<1>. QED
  BY <1>1, <1>2, <1>7, <1>15, <1>16, <1>17

-----------------------------------------------------------------------------
(***************************************************************************)
(* Promises.                                                               *)
(***************************************************************************)
\* An editor or panel with another hook.
Hooked(e, h)      == [e EXCEPT !.hook = h]
Marked(e, h, c)   == [e EXCEPT !.hook = h, !.calm = c]

LEMMA HookedEditor ==
  ASSUME NEW e \in Editors, NEW h \in Hooks(Drafts)
  PROVE  /\ Hooked(e, h) \in Editors /\ Hooked(e, h) # None /\ Hooked(e, h).q = e.q
         /\ Hooked(e, h).hook = h /\ Hooked(e, h).calm = e.calm
<1>1. None \notin Editors
  BY BuilderAssumption
<1>2. /\ Hooked(e, h) \in Editors /\ Hooked(e, h).q = e.q
      /\ Hooked(e, h).hook = h /\ Hooked(e, h).calm = e.calm
  BY DEF Editors, Hooked
<1>. QED
  BY <1>1, <1>2

LEMMA MarkedEditor ==
  ASSUME NEW e \in Editors, NEW h \in Hooks(Drafts), NEW c \in BOOLEAN
  PROVE  /\ Marked(e, h, c) \in Editors /\ Marked(e, h, c) # None /\ Marked(e, h, c).q = e.q
         /\ Marked(e, h, c).hook = h /\ Marked(e, h, c).calm = c
<1>1. None \notin Editors
  BY BuilderAssumption
<1>2. /\ Marked(e, h, c) \in Editors /\ Marked(e, h, c).q = e.q
      /\ Marked(e, h, c).hook = h /\ Marked(e, h, c).calm = c
  BY DEF Editors, Marked
<1>. QED
  BY <1>1, <1>2

LEMMA HookedPanel ==
  ASSUME NEW e \in Panels, NEW h \in Hooks(Blurbs)
  PROVE  /\ Hooked(e, h) \in Panels /\ Hooked(e, h) # None
         /\ Hooked(e, h).hook = h /\ Hooked(e, h).calm = e.calm
<1>1. None \notin Panels
  BY BuilderAssumption
<1>2. /\ Hooked(e, h) \in Panels
      /\ Hooked(e, h).hook = h /\ Hooked(e, h).calm = e.calm
  BY DEF Panels, Hooked
<1>. QED
  BY <1>1, <1>2

LEMMA MarkedPanel ==
  ASSUME NEW e \in Panels, NEW h \in Hooks(Blurbs), NEW c \in BOOLEAN
  PROVE  /\ Marked(e, h, c) \in Panels /\ Marked(e, h, c) # None
         /\ Marked(e, h, c).hook = h /\ Marked(e, h, c).calm = c
<1>1. None \notin Panels
  BY BuilderAssumption
<1>2. /\ Marked(e, h, c) \in Panels
      /\ Marked(e, h, c).hook = h /\ Marked(e, h, c).calm = c
  BY DEF Panels, Marked
<1>. QED
  BY <1>1, <1>2

LEMMA ClearedKeeps ==
  ASSUME NEW fl, NEW t, IsFlight(fl, t), NEW S, NEW left, left = Cleared(fl, S)
  PROVE  /\ IsFlight(left, t)
         /\ \A i \in Slots : left[i] = IF i \in S THEN None ELSE fl[i]
         /\ \A e, p : Owned(fl, e, p) => Owned(left, e, p)
<1>1. fl \in [Slots -> AllRequests \cup {None}]
  BY DEF IsFlight
<1>2. left \in [Slots -> AllRequests \cup {None}]
      /\ \A i \in Slots : left[i] = IF i \in S THEN None ELSE fl[i]
  BY <1>1 DEF Cleared
<1>3. IsFlight(left, t)
  BY <1>2 DEF IsFlight, IsKind
<1>4. \A e, p : Owned(fl, e, p) => Owned(left, e, p)
  BY <1>2 DEF Owned, IsKind
<1>. QED
  BY <1>2, <1>3, <1>4

\* What waits goes on with the editor and without the request.
LEMMA ResolvedKeeps ==
  ASSUME NEW t, RequestInv(editor, panel, title, calmTitle, flight, t),
         editor # None => IsEditor(editor),
         NEW S, S = Waiting(flight), NEW e \in Resolved(S), NEW left, left = Cleared(flight, S)
  PROVE  /\ RequestInv(e, panel, title, calmTitle, left, t)
         /\ e # None <=> editor # None
         /\ e # None => IsEditor(e) /\ e.q = editor.q
<1>. USE DEF RequestInv
<1>1. /\ IsFlight(left, t) /\ Owned(left, editor, panel)
      /\ \A i \in Slots : left[i] = IF i \in S THEN None ELSE flight[i]
  BY ClearedKeeps
<1>2. \A i \in S : /\ i \in Slots /\ flight[i] # None /\ flight[i].stage = "waiting"
                   /\ flight[i].kind \in {"save", "add", "delete"}
  BY DEF Waiting, IsFlight, IsGoodRequest
<1>3. SameKind(left, flight, "settings") /\ SameKind(left, flight, "title")
  BY <1>1, <1>2 DEF SameKind, IsKind
<1>4. PanelInv(panel, left, t) /\ TitleInv(title, calmTitle, left, t)
  BY <1>3, PanelKeeps, TitleKeeps
<1>5. CASE S \cap Saves(flight) = {}
  <2>1. e = editor
    BY <1>5 DEF Resolved
  <2>2. EditorInv(editor, left, t)
    <3>1. ASSUME editor # None, editor.calm
          PROVE  SameKind(left, flight, "save")
      <4>1. \A i \in Slots : IsKind(flight[i], "save") => i \in Saves(flight)
        BY <3>1 DEF EditorInv, Saves, IsKind
      <4>. QED
        BY <1>1, <1>5, <4>1 DEF SameKind, IsKind
    <3>2. CASE editor # None /\ editor.calm
      BY <3>1, <3>2, EditorKeeps
    <3>3. CASE ~(editor # None /\ editor.calm)
      BY <3>3 DEF EditorInv
    <3>. QED
      BY <3>2, <3>3
  <2>. QED
    BY <1>1, <1>4, <2>1, <2>2
<1>6. CASE S \cap Saves(flight) # {}
  <2>1. PICK i \in S \cap Saves(flight) : e = [editor EXCEPT !.hook = Flushed(@, flight[i].arg)]
    BY <1>6 DEF Resolved
  <2>2. /\ i \in Slots /\ IsKind(flight[i], "save") /\ flight[i].mine /\ flight[i].stage = "waiting"
        /\ editor # None /\ flight[i] \in AllRequests /\ flight[i].arg \in Drafts
    BY <1>2, <2>1, RequestFields DEF Saves, IsKind, Owned, IsFlight
  <2>3. editor \in Editors /\ editor.hook \in Hooks(Drafts) /\ IsEditor(editor)
    BY <2>2 DEF IsEditor, Editors
  <2>11. PICK h0, w : h0 = editor.hook /\ w = flight[i].arg
    OBVIOUS
  <2>12. h0 \in Hooks(Drafts) /\ w \in Drafts
    BY <2>2, <2>3, <2>11
  <2>4. PICK h : h = Flushed(h0, w)
    OBVIOUS
  <2>5. /\ h \in Hooks(Drafts) /\ h.value = h0.value /\ h.last = w
        /\ h0.value = w => Settles(h)
    BY ONLY <2>4, <2>12, FlushedHook
  <2>10. e = Hooked(editor, h)
    BY <2>1, <2>4, <2>11 DEF Hooked
  <2>6. e \in Editors /\ e # None /\ e.q = editor.q /\ e.hook = h /\ e.calm = editor.calm
    BY ONLY <2>3, <2>5, <2>10, HookedEditor
  <2>7. IsEditor(e)
    BY <2>3, <2>5, <2>6, <2>11 DEF IsEditor
  <2>8. Owned(left, e, panel)
    BY <1>1, <2>2, <2>6 DEF Owned
  <2>9. EditorInv(e, left, t)
    <3>1. ASSUME e.calm
          PROVE  /\ \A j \in Slots : ~IsKind(left[j], "save")
                 /\ Holds(t.content[e.q], e.hook.last) /\ Settles(e.hook)
      <4>1. /\ flight[i].arg = editor.hook.value
            /\ \A j \in Slots : IsKind(flight[j], "save") => j = i
            /\ Holds(t.content[editor.q], flight[i].arg)
        BY <2>2, <2>6, <3>1 DEF EditorInv
      <4>2. \A j \in Slots : ~IsKind(left[j], "save")
        BY <1>1, <2>1, <4>1 DEF IsKind
      <4>. QED
        BY <2>5, <2>6, <2>11, <4>1, <4>2
    <3>. QED
      BY <3>1 DEF EditorInv
  <2>. QED
    BY <1>1, <1>4, <2>2, <2>6, <2>7, <2>8, <2>9
<1>. QED
  BY <1>5, <1>6

LEMMA MovesToIds ==
  ASSUME active \in Ids \cup {None}, NEW t, IsFlight(flight, t), NEW S \in SUBSET Slots,
         \A i \in S : flight[i] # None
  PROVE  Moves(S) \subseteq Ids \cup {None}
<1>1. ASSUME NEW i \in S, flight[i].kind = "add"
      PROVE  flight[i].q \in Ids
  <2>1. flight[i] \in AllRequests
    BY <1>1 DEF IsFlight
  <2>. QED
    BY <1>1, <2>1, RequestFields
<1>. QED
  BY <1>1 DEF Moves

-----------------------------------------------------------------------------
(***************************************************************************)
(* What the server makes of a request.                                     *)
(***************************************************************************)
LEMMA BelowTransitive ==
  ASSUME NEW r, NEW s, NEW t, Below(r, s), Below(s, t)
  PROVE  Below(r, t)
  BY DEF Below

LEMMA BelowItself == \A s : Below(s, s)
  BY DEF Below

\* A quiz with another entry of content, order, title, blurb or flag.
WithContent(s, q, c)   == [s EXCEPT !.content[q] = c]
WithOrder(s, order)    == [s EXCEPT !.order = order]
WithAdded(s, q, c)     == [s EXCEPT !.content[q] = c, !.order = Append(@, q)]

LEMMA ContentKeeps ==
  ASSUME NEW s, IsGood(s), NEW q \in Ids, NEW c, IsDraftOf(q, c),
         NEW n, n = WithContent(s, q, c)
  PROVE  /\ IsGood(n) /\ Below(s, n) /\ n.blurb = s.blurb /\ n.title = s.title
         /\ n.content[q] = c /\ \A p \in Ids \ {q} : n.content[p] = s.content[p]
<1>1. s \in Quizzes /\ s.content \in [Ids -> Drafts \cup {None}] /\ c \in Drafts /\ c # None
  BY BuilderAssumption DEF IsGood, Quizzes, IsDraftOf
<1>2. PICK f : f = [s.content EXCEPT ![q] = c]
  OBVIOUS
<1>3. /\ f \in [Ids -> Drafts \cup {None}] /\ f[q] = c /\ \A p \in Ids \ {q} : f[p] = s.content[p]
  BY <1>1, <1>2
<1>4. n = [s EXCEPT !.content = f]
  BY <1>1, <1>2 DEF WithContent, Quizzes
<1>5. n \in Quizzes /\ n.content = f /\ n.order = s.order /\ n.blurb = s.blurb /\ n.title = s.title
  BY <1>1, <1>3, <1>4 DEF Quizzes
<1>6. Range(s.order) \subseteq Ids
  BY <1>1 DEF Quizzes, Range
<1>. HIDE <1>4
<1>7. IsGood(n) /\ Below(s, n)
  BY <1>1, <1>3, <1>5, <1>6 DEF IsGood, Below
<1>. QED
  BY <1>3, <1>5, <1>7

LEMMA OrderKeeps ==
  ASSUME NEW s, IsGood(s), NEW order \in Seq(Ids), Range(order) \subseteq Range(s.order),
         NEW n, n = WithOrder(s, order)
  PROVE  /\ IsGood(n) /\ Below(s, n) /\ Below(n, s) /\ n.blurb = s.blurb /\ n.title = s.title
         /\ n.content = s.content /\ n.order = order
<1>1. s \in Quizzes
  BY DEF IsGood
<1>2. n \in Quizzes /\ n.content = s.content /\ n.order = order /\ n.blurb = s.blurb
      /\ n.title = s.title
  BY <1>1 DEF WithOrder, Quizzes
<1>. QED
  BY <1>1, <1>2 DEF IsGood, Below

LEMMA AddedKeeps ==
  ASSUME NEW s, IsGood(s), NEW q \in Ids, NEW c, IsDraftOf(q, c),
         NEW n, n = WithAdded(s, q, c)
  PROVE  /\ IsGood(n) /\ Below(s, n) /\ n.blurb = s.blurb /\ n.title = s.title
         /\ n.content[q] = c /\ \A p \in Ids \ {q} : n.content[p] = s.content[p]
<1>1. s \in Quizzes /\ s.content \in [Ids -> Drafts \cup {None}] /\ c \in Drafts /\ c # None
      /\ s.order \in Seq(Ids)
  BY BuilderAssumption DEF IsGood, Quizzes, IsDraftOf
<1>2. PICK f, o : f = [s.content EXCEPT ![q] = c] /\ o = Append(s.order, q)
  OBVIOUS
<1>3. /\ f \in [Ids -> Drafts \cup {None}] /\ f[q] = c /\ \A p \in Ids \ {q} : f[p] = s.content[p]
  BY <1>1, <1>2
<1>4. o \in Seq(Ids) /\ DOMAIN o = 1 .. Len(s.order) + 1 /\ DOMAIN s.order = 1 .. Len(s.order)
      /\ Len(s.order) \in Nat
      /\ (\A i \in 1 .. Len(s.order) : o[i] = s.order[i]) /\ o[Len(s.order) + 1] = q
  BY <1>1, <1>2, AppendProperties, LenProperties
<1>5. Range(o) \subseteq Range(s.order) \cup {q}
  BY <1>4 DEF Range
<1>6. n = [s EXCEPT !.content = f, !.order = o]
  BY <1>1, <1>2 DEF WithAdded, Quizzes
<1>7. n \in Quizzes /\ n.content = f /\ n.order = o /\ n.blurb = s.blurb /\ n.title = s.title
  BY <1>1, <1>3, <1>4, <1>6 DEF Quizzes
<1>8. Range(s.order) \subseteq Ids
  BY <1>1 DEF Range
<1>. HIDE <1>6
<1>9. IsGood(n) /\ Below(s, n)
  BY <1>1, <1>3, <1>5, <1>7, <1>8 DEF IsGood, Below
<1>. QED
  BY <1>3, <1>7, <1>9

\* What request m changes of quiz s: the content of its question, the blurb or the title.
LEMMA EffectKeeps ==
  ASSUME NEW s, IsGood(s), NEW m, IsGoodRequest(m, s), NEW n \in Effect(m, s)
  PROVE  /\ IsGood(n) /\ Below(s, n)
         /\ m.kind = "save" => /\ s.content[m.q] # None
                               /\ n.content[m.q] = Merged(s.content[m.q], m.arg)
         /\ \A q \in Ids : n.content[q] = s.content[q] \/ (m.kind \in {"save", "add"} /\ q = m.q)
         /\ IF m.kind = "settings" THEN n.blurb = m.arg ELSE n.blurb = s.blurb
         /\ IF m.kind = "title" THEN n.title = m.arg ELSE n.title = s.title
<1>1. m \in AllRequests /\ m.kind \in Kinds /\ s \in Quizzes
  BY RequestFields DEF IsGoodRequest, IsGood
<1>2. CASE m.kind = "save"
  <2>1. m.q \in Range(s.order) /\ n = [s EXCEPT !.content[m.q] = Merged(@, m.arg)]
    BY <1>2 DEF Effect
  <2>2. PICK c : c = Merged(s.content[m.q], m.arg)
    OBVIOUS
  <2>3. m.q \in Ids /\ s.content[m.q] # None /\ s.content[m.q] \in Drafts /\ IsDraftOf(m.q, m.arg)
    BY <1>1, <1>2, <2>1, RequestFields DEF IsGood, IsGoodRequest, IsDraftOf
  <2>4. IsDraftOf(m.q, c)
    BY <2>2, <2>3, MergedHolds
  <2>5. n = WithContent(s, m.q, c)
    BY <1>1, <2>1, <2>2, <2>3 DEF WithContent, Quizzes
  <2>. HIDE <2>1
  <2>6. /\ IsGood(n) /\ Below(s, n) /\ n.blurb = s.blurb /\ n.title = s.title
        /\ n.content[m.q] = c /\ \A p \in Ids \ {m.q} : n.content[p] = s.content[p]
    BY <2>3, <2>4, <2>5, ContentKeeps
  <2>. QED
    BY <1>2, <2>2, <2>3, <2>6
<1>3. CASE m.kind = "settings"
  <2>1. n = [s EXCEPT !.blurb = m.arg] /\ m.arg \in Blurbs
    BY <1>1, <1>3, RequestFields DEF Effect
  <2>2. n \in Quizzes /\ n.content = s.content /\ n.order = s.order /\ n.blurb = m.arg
        /\ n.title = s.title
    BY <1>1, <2>1 DEF Quizzes
  <2>. QED
    BY <1>3, <2>2 DEF IsGood, Below
<1>4. CASE m.kind = "title"
  <2>1. n = [s EXCEPT !.title = m.arg] /\ m.arg \in Titles \ {Empty}
    BY <1>1, <1>4, RequestFields DEF Effect
  <2>2. n \in Quizzes /\ n.content = s.content /\ n.order = s.order /\ n.blurb = s.blurb
        /\ n.title = m.arg
    BY <1>1, <2>1 DEF Quizzes
  <2>. QED
    BY <1>4, <2>2 DEF IsGood, Below
<1>5. CASE m.kind = "publish"
  <2>1. n = [s EXCEPT !.published = m.arg] /\ m.arg \in BOOLEAN
    BY <1>1, <1>5, RequestFields DEF Effect
  <2>2. n \in Quizzes /\ n.content = s.content /\ n.order = s.order /\ n.blurb = s.blurb
        /\ n.title = s.title
    BY <1>1, <2>1 DEF Quizzes
  <2>. QED
    BY <1>5, <2>2 DEF IsGood, Below
<1>6. CASE m.kind = "add"
  <2>1. n = WithAdded(s, m.q, Blank(m.q, FirstText))
    BY <1>6 DEF Effect, WithAdded
  <2>2. m.q \in Ids /\ FirstText \in Texts
    BY <1>1, <1>6, RequestFields, DraftAssumption DEF FirstText
  <2>3. IsDraftOf(m.q, Blank(m.q, FirstText))
    BY <2>2, BlankIsDraft
  <2>4. /\ IsGood(n) /\ Below(s, n) /\ n.blurb = s.blurb /\ n.title = s.title
        /\ \A p \in Ids \ {m.q} : n.content[p] = s.content[p]
    BY <2>1, <2>2, <2>3, AddedKeeps
  <2>. QED
    BY <1>6, <2>4
<1>7. CASE m.kind = "delete"
  <2>. DEFINE k == CHOOSE k \in DOMAIN s.order : s.order[k] = m.q
              o == RemoveAt(s.order, k)
  <2>1. m.q \in Range(s.order) /\ n = WithOrder(s, o)
    BY <1>7 DEF Effect, WithOrder
  <2>2. k \in DOMAIN s.order /\ s.order \in Seq(Ids)
    BY <1>1, <2>1 DEF Range, Quizzes
  <2>. HIDE DEF k
  <2>3. s.order \in Seq(Range(s.order))
    BY <2>2 DEF Range
  <2>4. o \in Seq(Ids) /\ o \in Seq(Range(s.order))
    BY <2>2, <2>3, RemoveAtProperties
  <2>5. Range(o) \subseteq Range(s.order)
    BY <2>4 DEF Range
  <2>. HIDE DEF o
  <2>6. /\ IsGood(n) /\ Below(s, n) /\ n.blurb = s.blurb /\ n.title = s.title
        /\ n.content = s.content
    BY <2>1, <2>4, <2>5, OrderKeeps
  <2>. QED
    BY <1>7, <2>6
<1>8. CASE m.kind = "reorder"
  <2>1. n = WithOrder(s, m.arg) /\ Range(m.arg) = Range(s.order) /\ m.arg \in Seq(Ids)
    BY <1>1, <1>8, RequestFields DEF Effect, WithOrder
  <2>2. /\ IsGood(n) /\ Below(s, n) /\ n.blurb = s.blurb /\ n.title = s.title
        /\ n.content = s.content
    BY <2>1, OrderKeeps
  <2>. QED
    BY <1>8, <2>2
<1>. QED
  BY <1>1, <1>2, <1>3, <1>4, <1>5, <1>6, <1>7, <1>8 DEF Kinds

-----------------------------------------------------------------------------
(***************************************************************************)
(* Requests that are sent, and that get on.                                *)
(***************************************************************************)
\* Nothing of fl is gone, none of it is told, and nothing else waits.
Covers(fl2, fl) ==
  \A i \in Slots :
    /\ fl[i] # None => fl2[i] # None /\ fl2[i].stage = fl[i].stage /\ fl2[i].kind = fl[i].kind
    /\ fl2[i] # None /\ fl2[i].stage = "waiting" => fl[i] # None /\ fl[i].stage = "waiting"

LEMMA LikeCovers == \A fl, fl2 : Like(fl2, fl) => Covers(fl2, fl)
  BY DEF Like, Covers

LEMMA CoversTransitive ==
  \A fl, fl2, fl3 : Covers(fl2, fl) /\ Covers(fl3, fl2) => Covers(fl3, fl)
  BY DEF Covers

LEMMA RequestIsOne ==
  ASSUME NEW kind \in Kinds, NEW q, NEW arg, NEW m, m = Request(kind, q, arg),
         kind # "reorder", arg \in Args(kind),
         q \in (IF kind \in {"save", "add", "delete"} THEN Ids ELSE {None})
  PROVE  /\ m \in AllRequests /\ m.kind = kind /\ m.q = q /\ m.arg = arg /\ m.stage = "sent" /\ m.mine
<1>1. m \in Requests(kind)
  BY DEF Request, Requests, Stages
<1>. QED
  BY <1>1 DEF AllRequests, Request

LEMMA WithKeeps ==
  ASSUME NEW t, IsFlight(flight, t), HasSlot, NEW m, IsGoodRequest(m, t), m.stage = "sent",
         m.kind = "add" =>
           /\ t.content[m.q] = None
           /\ \A i \in Slots : IsKind(flight[i], "add") => flight[i].q # m.q,
         NEW fl, fl = With(m)
  PROVE  /\ IsFlight(fl, t) /\ Covers(fl, flight)
         /\ \A kind \in Kinds : kind # m.kind => SameKind(fl, flight, kind)
         /\ \E k \in Slots : /\ flight[k] = None /\ fl[k] = m
                             /\ \A i \in Slots \ {k} : fl[i] = flight[i]
<1>1. flight \in [Slots -> AllRequests \cup {None}] /\ m \in AllRequests /\ m # None
  BY RequestFields DEF IsFlight, IsGoodRequest
<1>. DEFINE k == CHOOSE i \in Slots : flight[i] = None
<1>2. k \in Slots /\ flight[k] = None
  BY DEF HasSlot
<1>3. fl = [flight EXCEPT ![k] = m]
  BY DEF With
<1>. HIDE DEF k
<1>4. fl \in [Slots -> AllRequests \cup {None}] /\ fl[k] = m /\ \A i \in Slots \ {k} : fl[i] = flight[i]
  BY <1>1, <1>2, <1>3
<1>. HIDE <1>3
<1>5. IsFlight(fl, t)
  <2>1. \A i \in Slots : fl[i] # None => IsGoodRequest(fl[i], t)
    BY <1>4 DEF IsFlight
  <2>2. \A i \in Slots : IsKind(fl[i], "add") =>
          /\ fl[i].stage = "sent" => t.content[fl[i].q] = None
          /\ \A j \in Slots : IsKind(fl[j], "add") /\ fl[j].q = fl[i].q => j = i
    BY <1>1, <1>4 DEF IsFlight, IsKind
  <2>. QED
    BY <1>4, <2>1, <2>2 DEF IsFlight
<1>6. Covers(fl, flight)
  BY <1>2, <1>4 DEF Covers
<1>7. \A kind \in Kinds : kind # m.kind => SameKind(fl, flight, kind)
  BY <1>2, <1>4 DEF SameKind, IsKind
<1>. QED
  BY <1>2, <1>4, <1>5, <1>6, <1>7

\* The same requests in other stages, but none that was answered or served now, or not.
SameAnswers(fl2, fl, kind, done) ==
  \A i \in Slots :
    /\ IsKind(fl2[i], kind) <=> IsKind(fl[i], kind)
    /\ IsKind(fl[i], kind) => /\ fl2[i].mine = fl[i].mine /\ fl2[i].arg = fl[i].arg
                              /\ fl2[i].stage \in done <=> fl[i].stage \in done
                              /\ fl2[i].stage \in {"sent", "failed"} <=> fl[i].stage \in {"sent", "failed"}

LEMMA EditorWaits ==
  ASSUME NEW e, NEW fl, NEW fl2, NEW t, EditorInv(e, fl, t),
         SameAnswers(fl2, fl, "save", {"ok", "lost", "waiting"})
  PROVE  EditorInv(e, fl2, t)
  BY DEF EditorInv, SameAnswers

LEMMA PanelWaits ==
  ASSUME NEW p, NEW fl, NEW fl2, NEW t, PanelInv(p, fl, t),
         SameAnswers(fl2, fl, "settings", {"ok", "lost"})
  PROVE  PanelInv(p, fl2, t)
  BY DEF PanelInv, SameAnswers

LEMMA TitleWaits ==
  ASSUME NEW ti, NEW ct, NEW fl, NEW fl2, NEW t, TitleInv(ti, ct, fl, t),
         SameAnswers(fl2, fl, "title", {"ok", "lost"})
  PROVE  TitleInv(ti, ct, fl2, t)
  BY DEF TitleInv, SameAnswers

\* One request in another stage.
Staged(fl, i, st) == [fl EXCEPT ![i].stage = st]

LEMMA StageKeeps ==
  ASSUME NEW fl, NEW t, IsFlight(fl, t), NEW i \in Slots, fl[i] # None, fl[i].stage # "waiting",
         NEW st \in Stages \ {"sent"},
         st = "waiting" => fl[i].kind \in {"save", "add", "delete"},
         NEW n, n = Staged(fl, i, st)
  PROVE  /\ IsFlight(n, t)
         /\ n[i] # None /\ n[i].stage = st /\ n[i].kind = fl[i].kind /\ n[i].q = fl[i].q
         /\ n[i].arg = fl[i].arg /\ n[i].mine = fl[i].mine
         /\ \A j \in Slots \ {i} : n[j] = fl[j]
         /\ \A e, p : Owned(fl, e, p) => Owned(n, e, p)
         /\ \A kind \in Kinds : kind # fl[i].kind => SameKind(n, fl, kind)
<1>1. fl \in [Slots -> AllRequests \cup {None}] /\ IsGoodRequest(fl[i], t)
  BY DEF IsFlight
<1>2. PICK m \in AllRequests : m = fl[i]
  BY <1>1
<1>3. PICK r : r = [m EXCEPT !.stage = st]
  OBVIOUS
<1>4. /\ r \in AllRequests /\ r.stage = st /\ r.kind = m.kind
      /\ r.q = m.q /\ r.arg = m.arg /\ r.previous = m.previous /\ r.mine = m.mine
  BY <1>3, RequestSteps
<1>5. n = [fl EXCEPT ![i] = r]
  BY <1>1, <1>2, <1>3 DEF Staged
<1>6. n \in [Slots -> AllRequests \cup {None}] /\ n[i] = r /\ \A j \in Slots \ {i} : n[j] = fl[j]
  BY <1>1, <1>4, <1>5
<1>. HIDE <1>5
<1>7. r # None
  BY <1>4, RequestFields
<1>8. IsGoodRequest(r, t)
  BY ONLY <1>1, <1>2, <1>4, st = "waiting" => fl[i].kind \in {"save", "add", "delete"}
     DEF IsGoodRequest
<1>9. /\ \A j \in Slots : \A kind : IsKind(n[j], kind) <=> IsKind(fl[j], kind)
      /\ \A j \in Slots : fl[j] # None =>
           /\ n[j].q = fl[j].q /\ n[j].mine = fl[j].mine
           /\ n[j].stage = "sent" => fl[j].stage = "sent"
  BY ONLY <1>2, <1>4, <1>6, <1>7, fl[i] # None, st \in Stages \ {"sent"} DEF IsKind
<1>10. IsFlight(n, t)
  <2>1. \A j \in Slots : n[j] # None => IsGoodRequest(n[j], t)
    BY ONLY <1>6, <1>8, IsFlight(fl, t) DEF IsFlight
  <2>2. \A j \in Slots : IsKind(n[j], "add") =>
          /\ n[j].stage = "sent" => t.content[n[j].q] = None
          /\ \A k \in Slots : IsKind(n[k], "add") /\ n[k].q = n[j].q => k = j
    BY ONLY <1>9, IsFlight(fl, t) DEF IsFlight, IsKind
  <2>. QED
    BY ONLY <1>6, <2>1, <2>2 DEF IsFlight
<1>11. \A e, p : Owned(fl, e, p) => Owned(n, e, p)
  BY ONLY <1>9 DEF Owned, IsKind
<1>12. \A kind \in Kinds : kind # fl[i].kind => SameKind(n, fl, kind)
  BY ONLY <1>2, <1>4, <1>6 DEF SameKind, IsKind
<1>. QED
  BY ONLY <1>2, <1>4, <1>6, <1>7, <1>10, <1>11, <1>12

-----------------------------------------------------------------------------
(***************************************************************************)
(* The steps.  First the server's.                                         *)
(***************************************************************************)
\* A request that is served leaves the invariant to what it changes.
LEMMA ServedRequests ==
  ASSUME NEW s, NEW n, NEW fl, NEW i \in Slots, NEW e, NEW p, NEW ti, NEW ct, NEW fl2,
         IsGood(s), RequestInv(e, p, ti, ct, fl, s),
         e # None => IsEditor(e) /\ s.content[e.q] # None,
         fl[i] # None, fl[i].stage = "sent", n \in Effect(fl[i], s),
         NEW st \in {"ok", "lost"}, fl2 = Staged(fl, i, st)
  PROVE  IsGood(n) /\ Below(s, n) /\ RequestInv(e, p, ti, ct, fl2, n)
<1>. USE DEF RequestInv
<1>1. IsGoodRequest(fl[i], s) /\ fl[i] \in AllRequests
  BY DEF IsFlight, IsGoodRequest
<1>2. PICK m : m = fl[i]
  OBVIOUS
<1>3. /\ IsGood(n) /\ Below(s, n)
      /\ m.kind = "save" => /\ s.content[m.q] # None
                            /\ n.content[m.q] = Merged(s.content[m.q], m.arg)
      /\ \A q \in Ids : n.content[q] = s.content[q] \/ (m.kind \in {"save", "add"} /\ q = m.q)
      /\ m.kind = "settings" => n.blurb = m.arg
      /\ m.kind # "settings" => n.blurb = s.blurb
      /\ m.kind = "title" => n.title = m.arg
      /\ m.kind # "title" => n.title = s.title
  BY <1>1, <1>2, EffectKeeps
<1>4. /\ IsFlight(fl2, s)
      /\ fl2[i] # None /\ fl2[i].stage = st /\ fl2[i].kind = m.kind /\ fl2[i].q = m.q
      /\ fl2[i].arg = m.arg /\ fl2[i].mine = m.mine
      /\ \A j \in Slots \ {i} : fl2[j] = fl[j]
      /\ Owned(fl2, e, p)
      /\ \A kind \in Kinds : kind # m.kind => SameKind(fl2, fl, kind)
  <2>1. st \in Stages \ {"sent"} /\ st # "waiting" /\ fl[i].stage # "waiting"
    BY DEF Stages
  <2>2. IsFlight(fl, s) /\ Owned(fl, e, p) /\ fl[i] # None
    OBVIOUS
  <2>. QED
    BY ONLY <1>2, <2>1, <2>2, fl2 = Staged(fl, i, st), i \in Slots, StageKeeps
<1>5. IsFlight(fl2, n)
  <2>1. ASSUME NEW j \in Slots, fl2[j] # None
        PROVE  IsGoodRequest(fl2[j], n)
    <3>1. IsGoodRequest(fl2[j], s)
      BY <1>4, <2>1 DEF IsFlight
    <3>. QED
      BY <1>3, <3>1, BelowTransitive DEF IsGoodRequest
  <2>2. ASSUME NEW j \in Slots, IsKind(fl2[j], "add"), fl2[j].stage = "sent"
        PROVE  n.content[fl2[j].q] = None
    <3>1. j # i /\ fl2[j] = fl[j]
      BY <1>4, <2>2
    <3>2. s.content[fl[j].q] = None /\ fl[j].q \in Ids
      <4>1. fl[j] \in AllRequests /\ fl[j].kind = "add" /\ fl[j].stage = "sent"
        BY <2>2, <3>1 DEF IsFlight, IsKind
      <4>. QED
        BY <2>2, <3>1, <4>1, RequestFields DEF IsFlight
    <3>3. m.kind = "save" => m.q # fl[j].q
      BY <1>3, <3>2
    <3>4. m.kind = "add" => m.q # fl[j].q
      BY <1>2, <2>2, <3>1 DEF IsFlight, IsKind
    <3>. QED
      BY <1>3, <3>1, <3>2, <3>3, <3>4
  <2>. QED
    BY <1>4, <2>1, <2>2 DEF IsFlight
<1>6. EditorInv(e, fl2, n)
  <2>1. CASE m.kind = "save"
    <3>1. ASSUME e # None, e.calm
          PROVE  /\ m.mine /\ m.arg = e.hook.value /\ ~e.hook.timer /\ m.q = e.q
                 /\ \A j \in Slots : IsKind(fl[j], "save") => j = i
                 /\ Holds(n.content[e.q], m.arg)
      <4>1. IsKind(fl[i], "save")
        BY <1>2, <2>1 DEF IsKind
      <4>2. /\ m.mine /\ m.arg = e.hook.value /\ ~e.hook.timer
            /\ \A j \in Slots : IsKind(fl[j], "save") => j = i
        BY <1>2, <3>1, <4>1 DEF EditorInv
      <4>3. m.q = e.q
        BY <1>2, <4>1, <4>2 DEF Owned
      <4>4. IsDraftOf(m.q, m.arg) /\ m.q \in Ids
        BY <1>1, <1>2, <2>1, RequestFields DEF IsGoodRequest
      <4>5. s.content[m.q] \in Drafts
        BY <1>3, <2>1, <4>4 DEF IsGood, IsDraftOf
      <4>6. Holds(n.content[m.q], m.arg)
        BY <1>3, <2>1, <4>4, <4>5, MergedHolds
      <4>. QED
        BY <4>2, <4>3, <4>6
    <3>2. \A j \in Slots : IsKind(fl2[j], "save") <=> IsKind(fl[j], "save")
      BY <1>2, <1>4 DEF IsKind
    <3>3. IsKind(fl[i], "save")
      BY <1>2, <2>1 DEF IsKind
    <3>. QED
      BY <1>4, <3>1, <3>2, <3>3 DEF EditorInv
  <2>2. CASE m.kind # "save"
    <3>1. EditorInv(e, fl2, s)
      BY <1>4, <2>2, EditorKeeps DEF Kinds
    <3>2. e # None => n.content[e.q] = s.content[e.q]
      <4>1. ASSUME e # None
            PROVE  e.q \in Ids /\ s.content[e.q] # None
        BY <4>1 DEF IsEditor, Editors
      <4>2. m.kind = "add" => s.content[m.q] = None
        BY <1>2 DEF IsFlight, IsKind
      <4>. QED
        BY <1>3, <2>2, <4>1, <4>2
    <3>. QED
      BY <3>1, <3>2 DEF EditorInv
  <2>. QED
    BY <2>1, <2>2
<1>7. PanelInv(p, fl2, n)
  <2>1. CASE m.kind = "settings"
    <3>1. \A j \in Slots : IsKind(fl2[j], "settings") <=> IsKind(fl[j], "settings")
      BY <1>2, <1>4 DEF IsKind
    <3>2. IsKind(fl[i], "settings")
      BY <1>2, <2>1 DEF IsKind
    <3>. QED
      BY <1>2, <1>3, <1>4, <2>1, <3>1, <3>2 DEF PanelInv
  <2>2. CASE m.kind # "settings"
    <3>1. PanelInv(p, fl2, s)
      BY <1>4, <2>2, PanelKeeps DEF Kinds
    <3>. QED
      BY <1>3, <2>2, <3>1 DEF PanelInv
  <2>. QED
    BY <2>1, <2>2
<1>8. TitleInv(ti, ct, fl2, n)
  <2>1. CASE m.kind = "title"
    <3>1. \A j \in Slots : IsKind(fl2[j], "title") <=> IsKind(fl[j], "title")
      BY <1>2, <1>4 DEF IsKind
    <3>2. IsKind(fl[i], "title")
      BY <1>2, <2>1 DEF IsKind
    <3>. QED
      BY <1>2, <1>3, <1>4, <2>1, <3>1, <3>2 DEF TitleInv
  <2>2. CASE m.kind # "title"
    <3>1. TitleInv(ti, ct, fl2, s)
      BY <1>4, <2>2, TitleKeeps DEF Kinds
    <3>. QED
      BY <1>3, <2>2, <3>1 DEF TitleInv
  <2>. QED
    BY <2>1, <2>2
<1>. QED
  BY <1>3, <1>4, <1>5, <1>6, <1>7, <1>8

\* The editor's question has an entry on the server.
LEMMA EditorIsKnown ==
  ASSUME IInv, editor # None
  PROVE  /\ IsEditor(editor) /\ editor.q = active /\ active \in Ids
         /\ server.content[editor.q] # None /\ onPage /\ cache # None /\ ~broken
<1>1. /\ IsEditor(editor) /\ editor.q = active /\ cache # None /\ ~broken /\ onPage
      /\ active \in Range(cache.order)
  BY DEF IInv, PageInv, MountInv
<1>2. active \in Ids
  BY <1>1 DEF IsEditor, Editors
<1>3. cache.content[active] # None /\ Below(cache, server)
  BY <1>1 DEF IInv, QuizInv, IsData, IsGood
<1>. QED
  BY <1>1, <1>2, <1>3 DEF Below

LEMMA ServeStep ==
  ASSUME IInv, NEW i \in Slots, Serve(i)
  PROVE  IInv'
<1>1. /\ flight[i] # None /\ flight[i].stage = "sent"
      /\ UNCHANGED <<cache, broken, invalid, fetch, onPage, active, view, title, editor, panel,
                     acts, missed, calmTitle>>
  BY DEF Serve, cacheVars, pageVars, histVars
<1>2. RequestInv(editor, panel, title, calmTitle, flight, server) /\ IsFlight(flight, server)
      /\ IsGood(server)
  BY DEF IInv, RequestInv, QuizInv
<1>3. CASE \E s \in Effect(flight[i], server), a \in {"ok", "lost"} :
             server' = s /\ flight' = Staged(flight, i, a)
  <2>1. PICK a \in {"ok", "lost"} : /\ server' \in Effect(flight[i], server)
                                    /\ flight' = Staged(flight, i, a)
    BY <1>3
  <2>2. PICK s, fl2 : s = server' /\ fl2 = flight'
    OBVIOUS
  <2>3. IsGood(s) /\ Below(server, s) /\ RequestInv(editor, panel, title, calmTitle, fl2, s)
    BY <1>1, <1>2, <2>1, <2>2, EditorIsKnown, ServedRequests
  <2>4. /\ flight'[i] # None /\ flight'[i].stage = a
        /\ \A j \in Slots \ {i} : flight'[j] = flight[j]
    <3>1. a \in Stages \ {"sent"} /\ a # "waiting" /\ flight[i].stage # "waiting"
      BY <1>1, <2>1 DEF Stages
    <3>. QED
      BY <1>1, <1>2, <2>1, <3>1, StageKeeps
  <2>5. QuizInv'
    BY <1>1, <2>2, <2>3, BelowTransitive DEF IInv, QuizInv, IsData
  <2>6. PageInv'
    BY <1>1, <2>4 DEF IInv, PageInv
  <2>7. CacheInv'
    BY <1>1, <2>4 DEF IInv, CacheInv, AllTold
  <2>. QED
    BY <1>1, <2>2, <2>3, <2>5, <2>6, <2>7 DEF IInv
<1>4. CASE flight' = Staged(flight, i, "failed") /\ UNCHANGED server
  <2>1. /\ IsFlight(flight', server)
        /\ flight'[i] # None /\ flight'[i].stage = "failed" /\ flight'[i].kind = flight[i].kind
        /\ flight'[i].arg = flight[i].arg /\ flight'[i].mine = flight[i].mine
        /\ \A j \in Slots \ {i} : flight'[j] = flight[j]
        /\ Owned(flight', editor, panel)
    BY <1>1, <1>2, <1>4, StageKeeps DEF Stages, RequestInv
  <2>2. \A kind \in Kinds, done \in {{"ok", "lost"}, {"ok", "lost", "waiting"}} :
          SameAnswers(flight', flight, kind, done)
    BY <1>1, <2>1 DEF SameAnswers, IsKind
  <2>3. /\ EditorInv(editor, flight', server) /\ PanelInv(panel, flight', server)
        /\ TitleInv(title, calmTitle, flight', server)
    BY <1>2, <2>2, EditorWaits, PanelWaits, TitleWaits DEF RequestInv, Kinds
  <2>4. QuizInv'
    BY <1>1, <1>4 DEF IInv, QuizInv
  <2>5. PageInv'
    BY <1>1, <2>1 DEF IInv, PageInv
  <2>6. AllTold' => AllTold
    BY <1>1, <2>1 DEF AllTold
  <2>7. (\A j \in Slots : ~IsKind(flight'[j], "reorder")) => \A j \in Slots : ~IsKind(flight[j], "reorder")
    BY <1>1, <2>1 DEF IsKind
  <2>8. CacheInv'
    BY <1>1, <1>4, <2>6, <2>7 DEF IInv, CacheInv
  <2>. QED
    BY <1>1, <1>4, <2>1, <2>3, <2>4, <2>5, <2>8 DEF IInv, RequestInv
<1>. QED
  BY <1>3, <1>4 DEF Serve, Staged

LEMMA ServeFetchStep ==
  ASSUME IInv, ServeFetch
  PROVE  IInv'
<1>1. /\ fetch = Sent /\ fetch' = server
      /\ UNCHANGED <<server, cache, broken, invalid, flight, onPage, active, view, title, editor,
                     panel, acts, missed, calmTitle>>
  BY DEF ServeFetch, pageVars, histVars
<1>2. server \notin {None, Sent}
  BY BuilderAssumption DEF IInv, QuizInv, IsGood
<1>3. QuizInv'
  BY <1>1, BelowItself DEF IInv, QuizInv, IsData
<1>4. PageInv'
  BY <1>1, <1>2 DEF IInv, PageInv
<1>5. CacheInv'
  BY <1>1, <1>2 DEF IInv, CacheInv
<1>. QED
  BY <1>1, <1>3, <1>4, <1>5 DEF IInv

\* What waited goes on.
LEMMA GoOnKeeps ==
  ASSUME IInv, NEW data, IsData(data, server), NEW err \in BOOLEAN, NEW calm \in BOOLEAN,
         calm /\ AllTold => data = server,
         GoOn(data, err, calm)
  PROVE  /\ cache' = data /\ broken' = err
         /\ active' \in Ids \cup {None} /\ view' \in Views /\ title' \in Titles \cup {None}
         /\ calmTitle' \in BOOLEAN
         /\ MountInv(data, err, view', active', editor', panel')
         /\ RequestInv(editor', panel', title', calmTitle', flight', server)
         /\ ~onPage => title' = None /\ editor' = None /\ panel' = None
         /\ onPage /\ title' = None => data = None
         /\ \A i \in Slots :
              /\ flight'[i] # None => flight'[i].stage # "waiting"
              /\ flight[i] # None /\ flight[i].stage # "waiting" =>
                   /\ flight'[i] # None /\ flight'[i].stage = flight[i].stage
                   /\ flight'[i].kind = flight[i].kind
<1>1. PICK S, left : S = Waiting(flight) /\ left = Cleared(flight, S)
  OBVIOUS
<1>2. /\ RequestInv(editor, panel, title, calmTitle, flight, server) /\ IsFlight(flight, server)
      /\ active \in Ids \cup {None} /\ view \in Views /\ title \in Titles \cup {None}
      /\ calmTitle \in BOOLEAN
      /\ editor # None => IsEditor(editor)
  BY EditorIsKnown DEF IInv, PageInv, RequestInv
<1>3. panel # None => panel \in Panels
  BY DEF IInv, PageInv, MountInv
<1>4. /\ IsFlight(left, server)
      /\ \A i \in Slots : left[i] = IF i \in S THEN None ELSE flight[i]
      /\ Owned(left, editor, panel)
  BY <1>1, <1>2, ClearedKeeps DEF RequestInv
<1>5. S = {i \in Slots : flight[i] # None /\ flight[i].stage = "waiting"}
  BY <1>1 DEF Waiting
<1>6. \A i \in Slots :
        /\ left[i] # None => left[i].stage # "waiting"
        /\ flight[i] # None /\ flight[i].stage # "waiting" => left[i] = flight[i]
  BY <1>4, <1>5
<1>7. CASE onPage
  <2>1. PICK a \in Moves(S), e \in Resolved(S) :
          Render(data, err, a, view, e, panel, left, calm /\ AtRest(left))
    BY <1>1, <1>7 DEF GoOn
  <2>2. a \in Ids \cup {None}
    BY <1>2, <1>5, <2>1, MovesToIds
  <2>3. /\ RequestInv(e, panel, title, calmTitle, left, server)
        /\ e # None <=> editor # None
        /\ e # None => IsEditor(e) /\ e.q = editor.q
    <3>1. e \in Resolved(S)
      BY <2>1
    <3>2. editor # None => IsEditor(editor)
      BY <1>2
    <3>. QED
      BY ONLY <1>1, <1>2, <3>1, <3>2, ResolvedKeeps
  <2>4. PICK c : c \in BOOLEAN /\ c = (calm /\ AtRest(left))
    OBVIOUS
  <2>5. AtRest(left) => AllTold
    BY <1>6 DEF AtRest, AllTold
  <2>6. c => AtRest(left) /\ (data # None => data = server)
    BY <2>4, <2>5
  <2>7. Render(data, err, a, view, e, panel, left, c)
    BY <2>1, <2>4
  <2>8. /\ IsFlight(left, server) /\ Owned(left, e, panel) /\ EditorInv(e, left, server)
        /\ PanelInv(panel, left, server) /\ TitleInv(title, calmTitle, left, server)
    BY <2>3 DEF RequestInv
  <2>9. e # None => IsEditor(e) /\ editor # None /\ editor.q = e.q
    BY <2>3
  <2>10. /\ cache' = data /\ broken' = err /\ view' = view
         /\ active' \in Ids \cup {None} /\ title' \in Titles \cup {None}
         /\ calmTitle' \in BOOLEAN /\ (title' = None => data = None)
         /\ MountInv(data, err, view, active', editor', panel')
         /\ RequestInv(editor', panel', title', calmTitle', flight', server)
         /\ Like(flight', left)
    BY ONLY IsData(data, server), err \in BOOLEAN, <1>2, <1>3, <2>2, <2>4, <2>6, <2>7, <2>8, <2>9,
            RenderKeeps
  <2>11. \A i \in Slots :
           /\ flight'[i] # None => flight'[i].stage # "waiting"
           /\ flight[i] # None /\ flight[i].stage # "waiting" =>
                /\ flight'[i] # None /\ flight'[i].stage = flight[i].stage
                /\ flight'[i].kind = flight[i].kind
    BY <1>6, <2>10 DEF Like
  <2>. QED
    BY <1>2, <1>7, <2>10, <2>11
<1>8. CASE ~onPage
  <2>1. /\ cache' = data /\ broken' = err /\ flight' = left
        /\ UNCHANGED <<active, view, title, editor, panel, calmTitle>>
    BY <1>1, <1>8 DEF GoOn
  <2>2. title = None /\ editor = None /\ panel = None
    BY <1>8 DEF IInv, PageInv
  <2>3. MountInv(data, err, view', active', editor', panel')
    BY <2>1, <2>2 DEF MountInv
  <2>4. RequestInv(editor', panel', title', calmTitle', flight', server)
    BY <1>4, <2>1, <2>2 DEF RequestInv, EditorInv, PanelInv, TitleInv
  <2>5. \A i \in Slots :
          /\ flight'[i] # None => flight'[i].stage # "waiting"
          /\ flight[i] # None /\ flight[i].stage # "waiting" =>
               /\ flight'[i] # None /\ flight'[i].stage = flight[i].stage
               /\ flight'[i].kind = flight[i].kind
    BY <1>6, <2>1
  <2>6. ~onPage => title' = None /\ editor' = None /\ panel' = None
    BY <2>1, <2>2
  <2>. QED
    BY <1>2, <1>8, <2>1, <2>3, <2>4, <2>5, <2>6
<1>. QED
  BY <1>2, <1>7, <1>8 DEF IInv, PageInv

LEMMA FetchEndsStep ==
  ASSUME IInv, FetchEnds
  PROVE  IInv'
<1>1. /\ fetch \notin {None, Sent} /\ fetch' = None /\ invalid' = FALSE
      /\ GoOn(fetch, FALSE, ~missed)
      /\ UNCHANGED <<server, onPage, acts, missed>>
  BY DEF FetchEnds
<1>2. IsData(fetch, server) /\ (~missed /\ AllTold => fetch = server) /\ missed \in BOOLEAN
  BY <1>1 DEF IInv, QuizInv, CacheInv, PageInv
<1>3. PICK c, d : c \in BOOLEAN /\ c = ~missed /\ d = fetch
  BY <1>2
<1>4. GoOn(d, FALSE, c) /\ IsData(d, server) /\ (c /\ AllTold => d = server)
  BY <1>1, <1>2, <1>3
<1>5. /\ cache' = d /\ broken' = FALSE
      /\ active' \in Ids \cup {None} /\ view' \in Views /\ title' \in Titles \cup {None}
      /\ calmTitle' \in BOOLEAN
      /\ MountInv(d, FALSE, view', active', editor', panel')
      /\ RequestInv(editor', panel', title', calmTitle', flight', server)
      /\ ~onPage => title' = None /\ editor' = None /\ panel' = None
      /\ onPage /\ title' = None => d = None
      /\ \A i \in Slots :
           /\ flight'[i] # None => flight'[i].stage # "waiting"
           /\ flight[i] # None /\ flight[i].stage # "waiting" =>
                /\ flight'[i] # None /\ flight'[i].stage = flight[i].stage
                /\ flight'[i].kind = flight[i].kind
  BY ONLY IInv, FALSE \in BOOLEAN, <1>3, <1>4, GoOnKeeps
<1>6. QuizInv'
  BY <1>1, <1>4, <1>5 DEF IInv, QuizInv
<1>7. PageInv'
  BY <1>1, <1>5 DEF IInv, PageInv
<1>8. AllTold' => AllTold
  BY <1>5 DEF AllTold
<1>9. CacheInv'
  BY <1>1, <1>2, <1>3, <1>5, <1>8 DEF CacheInv
<1>. QED
  BY <1>1, <1>5, <1>6, <1>7, <1>9 DEF IInv

LEMMA FetchFailsStep ==
  ASSUME IInv, FetchFails
  PROVE  IInv'
<1>1. /\ fetch # None /\ fetch' = None /\ GoOn(cache, TRUE, FALSE)
      /\ UNCHANGED <<server, invalid, onPage, acts, missed>>
  BY DEF FetchFails
<1>2. PICK d : d = cache
  OBVIOUS
<1>4. GoOn(d, TRUE, FALSE) /\ IsData(d, server)
  BY <1>1, <1>2 DEF IInv, QuizInv
<1>5. /\ cache' = d /\ broken' = TRUE
      /\ active' \in Ids \cup {None} /\ view' \in Views /\ title' \in Titles \cup {None}
      /\ calmTitle' \in BOOLEAN
      /\ MountInv(d, TRUE, view', active', editor', panel')
      /\ RequestInv(editor', panel', title', calmTitle', flight', server)
      /\ ~onPage => title' = None /\ editor' = None /\ panel' = None
      /\ onPage /\ title' = None => d = None
      /\ \A i \in Slots : flight'[i] # None => flight'[i].stage # "waiting"
  BY ONLY IInv, TRUE \in BOOLEAN, FALSE \in BOOLEAN, <1>4, GoOnKeeps
<1>6. QuizInv'
  BY <1>1, <1>4, <1>5 DEF IInv, QuizInv
<1>7. PageInv'
  BY <1>1, <1>5 DEF IInv, PageInv
<1>8. CacheInv'
  BY <1>1, <1>5 DEF CacheInv
<1>. QED
  BY <1>1, <1>5, <1>6, <1>7, <1>8 DEF IInv

-----------------------------------------------------------------------------
(***************************************************************************)
(* Answers and failures.                                                   *)
(***************************************************************************)
\* A request is gone.
Gone(fl, i) == Cleared(fl, {i})

LEMMA GoneKeeps ==
  ASSUME NEW fl, NEW t, NEW i \in Slots, fl[i] # None, IsFlight(fl, t),
         NEW left, left = Gone(fl, i)
  PROVE  /\ IsFlight(left, t) /\ left[i] = None /\ \A j \in Slots \ {i} : left[j] = fl[j]
         /\ \A e, p : Owned(fl, e, p) => Owned(left, e, p)
         /\ \A kind \in Kinds : kind # fl[i].kind => SameKind(left, fl, kind)
<1>1. /\ IsFlight(left, t)
      /\ \A j \in Slots : left[j] = IF j \in {i} THEN None ELSE fl[j]
      /\ \A e, p : Owned(fl, e, p) => Owned(left, e, p)
  BY ClearedKeeps DEF Gone
<1>2. \A kind \in Kinds : kind # fl[i].kind => SameKind(left, fl, kind)
  BY <1>1 DEF SameKind, IsKind
<1>. QED
  BY <1>1, <1>2

\* After an answer the cache is refetched, or known to be old.
LEMMA InvalidateCache ==
  ASSUME IInv, Invalidate, onPage' = onPage
  PROVE  /\ CacheInv' /\ missed' \in BOOLEAN /\ invalid' \in BOOLEAN
         /\ fetch # None => fetch' # None
         /\ onPage => fetch' # None
         /\ fetch' \notin {None, Sent} => fetch' = fetch
<1>1. /\ invalid' = TRUE
      /\ onPage => fetch' = Sent /\ missed' = FALSE
      /\ ~onPage => missed' = (missed \/ fetch # None) /\ fetch' = fetch
  BY DEF Invalidate, FetchAgain
<1>2. Sent # None /\ onPage \in BOOLEAN /\ missed \in BOOLEAN
  BY BuilderAssumption DEF IInv, PageInv
<1>3. CacheInv'
  BY <1>1, <1>2 DEF CacheInv
<1>. QED
  BY <1>1, <1>2, <1>3

LEMMA SucceedsStep ==
  ASSUME IInv, NEW i \in Slots, Succeeds(i)
  PROVE  IInv'
<1>. DEFINE m == flight[i]
            waits == onPage /\ m.kind \in {"save", "add", "delete"}
            own   == m.kind = "settings" /\ m.mine
<1>1. /\ m # None /\ m.stage = "ok" /\ Invalidate
      /\ UNCHANGED <<server, onPage, acts, calmTitle, editor, cache, broken, active, view, title>>
      /\ panel' = IF own THEN Hooked(panel, Flushed(panel.hook, m.arg)) ELSE panel
      /\ flight' = IF waits THEN Staged(flight, i, "waiting") ELSE [flight EXCEPT ![i] = None]
  BY DEF Succeeds, Quietly, Hooked, Staged
<1>2. /\ RequestInv(editor, panel, title, calmTitle, flight, server) /\ IsFlight(flight, server)
      /\ Owned(flight, editor, panel) /\ m \in AllRequests /\ m.kind \in Kinds
  BY <1>1, RequestFields DEF IInv, RequestInv, IsFlight
<1>3. /\ CacheInv' /\ missed' \in BOOLEAN /\ invalid' \in BOOLEAN
      /\ fetch # None => fetch' # None
      /\ onPage => fetch' # None
      /\ fetch' \notin {None, Sent} => fetch' = fetch
  BY <1>1, InvalidateCache
<1>4. QuizInv'
  BY <1>1, <1>3 DEF IInv, QuizInv
<1>7. flight[i] # None /\ flight[i].stage = "ok"
  BY <1>1
<1>5. CASE waits
  <2>1. flight' = Staged(flight, i, "waiting") /\ ~own /\ panel' = panel
    BY <1>1, <1>5
  <2>2. /\ IsFlight(flight', server)
        /\ flight'[i] # None /\ flight'[i].stage = "waiting" /\ flight'[i].kind = m.kind
        /\ flight'[i].arg = m.arg /\ flight'[i].mine = m.mine
        /\ \A j \in Slots \ {i} : flight'[j] = flight[j]
        /\ Owned(flight', editor, panel)
        /\ \A kind \in Kinds : kind # m.kind => SameKind(flight', flight, kind)
    <3>1. "waiting" \in Stages \ {"sent"} /\ m.kind \in {"save", "add", "delete"}
          /\ m.stage # "waiting"
      BY <1>1, <1>5 DEF Stages
    <3>. QED
      BY ONLY <1>2, <1>7, <2>1, <3>1, i \in Slots, StageKeeps
  <2>3. SameAnswers(flight', flight, "save", {"ok", "lost", "waiting"})
    BY <1>1, <2>2 DEF SameAnswers, IsKind
  <2>4. EditorInv(editor, flight', server)
    BY <1>2, <2>3, EditorWaits DEF RequestInv
  <2>5. SameKind(flight', flight, "settings") /\ SameKind(flight', flight, "title")
    BY <1>5, <2>2 DEF Kinds
  <2>6. PanelInv(panel, flight', server) /\ TitleInv(title, calmTitle, flight', server)
    BY <1>2, <2>5, PanelKeeps, TitleKeeps DEF RequestInv
  <2>7. PageInv'
    BY <1>1, <1>3, <1>5, <2>1, <2>2 DEF IInv, PageInv
  <2>. QED
    BY <1>1, <1>3, <1>4, <2>1, <2>2, <2>4, <2>6, <2>7 DEF IInv, RequestInv
<1>6. CASE ~waits
  <2>1. flight' = Gone(flight, i)
    BY <1>1, <1>2, <1>6 DEF Gone, Cleared, IsFlight
  <2>2. /\ IsFlight(flight', server) /\ flight'[i] = None
        /\ \A j \in Slots \ {i} : flight'[j] = flight[j]
        /\ Owned(flight', editor, panel)
        /\ \A kind \in Kinds : kind # m.kind => SameKind(flight', flight, kind)
    BY ONLY <1>2, <1>7, <2>1, i \in Slots, GoneKeeps
  <2>3. EditorInv(editor, flight', server)
    <3>1. CASE m.kind = "save"
      <4>1. editor = None
        BY <1>6, <3>1 DEF IInv, PageInv
      <4>. QED
        BY <4>1 DEF EditorInv
    <3>2. CASE m.kind # "save"
      BY <1>2, <2>2, <3>2, EditorKeeps DEF RequestInv, Kinds
    <3>. QED
      BY <3>1, <3>2
  <2>4. TitleInv(title, calmTitle, flight', server)
    <3>1. CASE m.kind = "title"
      <4>1. IsKind(flight[i], "title")
        BY <1>1, <3>1 DEF IsKind
      <4>. QED
        BY <1>1, <1>2, <2>2, <4>1 DEF RequestInv, TitleInv, IsKind
    <3>2. CASE m.kind # "title"
      BY <1>2, <2>2, <3>2, TitleKeeps DEF RequestInv, Kinds
    <3>. QED
      BY <3>1, <3>2
  <2>5. CASE own
    <3>1. IsKind(flight[i], "settings") /\ m.arg \in Blurbs /\ panel # None
      BY <1>1, <1>2, <2>5, RequestFields DEF IsKind, Owned
    <3>2. panel \in Panels /\ panel.hook \in Hooks(Blurbs)
      BY <3>1 DEF IInv, PageInv, MountInv, Panels
    <3>3. PICK h0, w, h : h0 = panel.hook /\ w = m.arg /\ h = Flushed(h0, w)
      OBVIOUS
    <3>4. h0 \in Hooks(Blurbs) /\ w \in Blurbs
      BY <3>1, <3>2, <3>3
    <3>5. /\ h \in Hooks(Blurbs) /\ h.value = h0.value /\ h.last = w
          /\ h0.value = w => Settles(h)
      BY ONLY <3>3, <3>4, FlushedHook
    <3>6. panel' = Hooked(panel, h)
      BY <1>1, <2>5, <3>3
    <3>7. panel' \in Panels /\ panel' # None /\ panel'.hook = h /\ panel'.calm = panel.calm
      BY ONLY <3>2, <3>5, <3>6, HookedPanel
    <3>8. PanelInv(panel', flight', server)
      <4>1. ASSUME panel.calm
            PROVE  /\ \A j \in Slots : IsKind(flight[j], "settings") => j = i
                   /\ m.arg = panel.hook.value /\ server.blurb = m.arg
        BY <1>1, <1>2, <3>1, <4>1 DEF RequestInv, PanelInv
      <4>2. ASSUME panel.calm
            PROVE  /\ \A j \in Slots : ~IsKind(flight'[j], "settings")
                   /\ server.blurb = h.last /\ Settles(h)
        BY <2>2, <3>3, <3>5, <4>1, <4>2 DEF IsKind
      <4>. QED
        BY <3>7, <4>2 DEF PanelInv
    <3>9. Owned(flight', editor, panel')
      BY <2>2, <3>7 DEF Owned
    <3>10. PageInv'
      <4>1. MountInv(cache, broken, view, active, editor, panel')
        BY <3>1, <3>7 DEF IInv, PageInv, MountInv
      <4>2. ~onPage => panel' = None
        BY <3>1 DEF IInv, PageInv
      <4>. QED
        BY <1>1, <1>3, <2>2, <4>1, <4>2 DEF IInv, PageInv
    <3>. QED
      BY <1>1, <1>3, <1>4, <2>2, <2>3, <2>4, <3>8, <3>9, <3>10 DEF IInv, RequestInv
  <2>6. CASE ~own
    <3>1. panel' = panel
      BY <1>1, <2>6
    <3>2. PanelInv(panel, flight', server)
      <4>1. CASE m.kind = "settings"
        <5>1. IsKind(flight[i], "settings") /\ ~m.mine
          BY <1>1, <2>6, <4>1 DEF IsKind
        <5>. QED
          BY <1>2, <5>1 DEF RequestInv, PanelInv
      <4>2. CASE m.kind # "settings"
        BY <1>2, <2>2, <4>2, PanelKeeps DEF RequestInv, Kinds
      <4>. QED
        BY <4>1, <4>2
    <3>3. PageInv'
      BY <1>1, <1>3, <2>2, <3>1 DEF IInv, PageInv
    <3>. QED
      BY <1>1, <1>3, <1>4, <2>2, <2>3, <2>4, <3>1, <3>2, <3>3 DEF IInv, RequestInv
  <2>. QED
    BY <2>5, <2>6
<1>. QED
  BY <1>5, <1>6

\* An editor that shows a failure; it is calm if the server did not get the save.
LEMMA FailedEditor ==
  ASSUME NEW e, IsEditor(e), NEW fl, NEW fl2, NEW t, EditorInv(e, fl, t),
         NEW i \in Slots, IsKind(fl[i], "save"), fl[i].stage \in {"lost", "failed"},
         fl2[i] = None, \A j \in Slots \ {i} : fl2[j] = fl[j],
         NEW c, c = (e.calm /\ fl[i].stage = "failed"),
         NEW e2, e2 = Marked(e, Failed(e.hook), c)
  PROVE  IsEditor(e2) /\ e2 # None /\ e2.q = e.q /\ EditorInv(e2, fl2, t)
<1>1. e \in Editors /\ e.hook \in Hooks(Drafts) /\ c \in BOOLEAN
  BY DEF IsEditor, Editors
<1>2. PICK h0, h : h0 = e.hook /\ h = Failed(h0)
  OBVIOUS
<1>3. h0 \in Hooks(Drafts) /\ e2 = Marked(e, h, c)
  BY <1>1, <1>2
<1>4. h \in Hooks(Drafts) /\ h.value = h0.value /\ h.last = h0.last /\ Settles(h)
  BY ONLY <1>2, <1>3, FailedHook
<1>5. e2 \in Editors /\ e2 # None /\ e2.q = e.q /\ e2.hook = h /\ e2.calm = c
  BY ONLY <1>1, <1>3, <1>4, MarkedEditor
<1>6. IsEditor(e2)
  BY <1>2, <1>4, <1>5 DEF IsEditor
<1>7. EditorInv(e2, fl2, t)
  <2>1. ASSUME c
        PROVE  /\ \A j \in Slots : ~IsKind(fl2[j], "save")
               /\ Holds(t.content[e.q], e.hook.last)
    <3>1. e # None /\ e.calm /\ fl[i].stage = "failed"
      BY <1>1, <2>1, BuilderAssumption
    <3>2. \A j \in Slots : IsKind(fl[j], "save") => j = i
      BY <3>1 DEF EditorInv
    <3>3. Holds(t.content[e.q], e.hook.last)
      BY <3>1, <3>2 DEF EditorInv
    <3>. QED
      BY <3>2, <3>3 DEF IsKind
  <2>. QED
    BY <1>2, <1>4, <1>5, <2>1 DEF EditorInv
<1>. QED
  BY <1>5, <1>6, <1>7

LEMMA FailedPanel ==
  ASSUME NEW p \in Panels, NEW fl, NEW fl2, NEW t, PanelInv(p, fl, t),
         NEW i \in Slots, IsKind(fl[i], "settings"), fl[i].stage \in {"lost", "failed"},
         fl2[i] = None, \A j \in Slots \ {i} : fl2[j] = fl[j],
         NEW c, c = (p.calm /\ fl[i].stage = "failed"),
         NEW p2, p2 = Marked(p, Failed(p.hook), c)
  PROVE  p2 \in Panels /\ p2 # None /\ PanelInv(p2, fl2, t)
<1>1. p \in Panels /\ p.hook \in Hooks(Blurbs) /\ c \in BOOLEAN
  BY DEF Panels
<1>2. PICK h0, h : h0 = p.hook /\ h = Failed(h0)
  OBVIOUS
<1>3. h0 \in Hooks(Blurbs) /\ p2 = Marked(p, h, c)
  BY <1>1, <1>2
<1>4. h \in Hooks(Blurbs) /\ h.value = h0.value /\ h.last = h0.last /\ Settles(h)
  BY ONLY <1>2, <1>3, FailedHook
<1>5. p2 \in Panels /\ p2 # None /\ p2.hook = h /\ p2.calm = c
  BY ONLY <1>1, <1>3, <1>4, MarkedPanel
<1>7. PanelInv(p2, fl2, t)
  <2>1. ASSUME c
        PROVE  /\ \A j \in Slots : ~IsKind(fl2[j], "settings")
               /\ t.blurb = p.hook.last
    <3>1. p # None /\ p.calm /\ fl[i].stage = "failed"
      BY <1>1, <2>1, BuilderAssumption
    <3>2. \A j \in Slots : IsKind(fl[j], "settings") => j = i
      BY <3>1 DEF PanelInv
    <3>3. t.blurb = p.hook.last
      BY <3>1, <3>2 DEF PanelInv
    <3>. QED
      BY <3>2, <3>3 DEF IsKind
  <2>. QED
    BY <1>2, <1>4, <1>5, <2>1 DEF PanelInv
<1>. QED
  BY <1>5, <1>7

LEMMA FailsStep ==
  ASSUME IInv, NEW i \in Slots, Fails(i)
  PROVE  IInv'
<1>. DEFINE m    == flight[i]
            save == m.kind = "save" /\ m.mine
            sets == m.kind = "settings" /\ m.mine
<1>1. /\ flight[i] # None /\ flight[i].stage \in {"lost", "failed"} /\ flight[i].kind # "reorder"
      /\ UNCHANGED <<server, invalid, fetch, onPage, acts, cache, broken, active, view, title>>
      /\ flight' = Gone(flight, i)
      /\ missed' = (missed \/ flight[i].stage = "lost")
      /\ calmTitle' = (calmTitle /\ flight[i].kind # "title")
  BY DEF Fails, Quietly, Gone
<1>2. /\ editor' = IF save
                   THEN Marked(editor, Failed(editor.hook), editor.calm /\ m.stage = "failed")
                   ELSE editor
      /\ panel' = IF sets
                  THEN Marked(panel, Failed(panel.hook), panel.calm /\ m.stage = "failed")
                  ELSE panel
  BY DEF Fails, Quietly, Marked
<1>3. /\ RequestInv(editor, panel, title, calmTitle, flight, server) /\ IsFlight(flight, server)
      /\ Owned(flight, editor, panel) /\ m \in AllRequests /\ m.kind \in Kinds
      /\ missed \in BOOLEAN /\ calmTitle \in BOOLEAN /\ QuizInv
  BY <1>1, RequestFields DEF IInv, RequestInv, IsFlight, PageInv
<1>4. /\ IsFlight(flight', server) /\ flight'[i] = None
      /\ \A j \in Slots \ {i} : flight'[j] = flight[j]
      /\ Owned(flight', editor, panel)
      /\ \A kind \in Kinds : kind # m.kind => SameKind(flight', flight, kind)
  BY ONLY <1>1, <1>3, i \in Slots, GoneKeeps
<1>5. /\ EditorInv(editor', flight', server)
      /\ editor # None => editor' # None /\ IsEditor(editor') /\ editor'.q = editor.q
      /\ editor = None => editor' = None
  <2>1. CASE save
    <3>1. IsKind(flight[i], "save") /\ editor # None
      BY <1>1, <1>3, <2>1 DEF IsKind, Owned
    <3>2. IsEditor(editor) /\ EditorInv(editor, flight, server)
      BY <1>3, <3>1, EditorIsKnown DEF RequestInv
    <3>3. PICK c : c = (editor.calm /\ flight[i].stage = "failed")
      OBVIOUS
    <3>4. editor' = Marked(editor, Failed(editor.hook), c)
      BY <1>2, <2>1, <3>3
    <3>5. IsEditor(editor') /\ editor' # None /\ editor'.q = editor.q
          /\ EditorInv(editor', flight', server)
      BY ONLY <1>1, <1>4, <3>1, <3>2, <3>3, <3>4, i \in Slots, FailedEditor
    <3>. QED
      BY <3>1, <3>5
  <2>2. CASE ~save
    <3>1. editor' = editor
      BY <1>2, <2>2
    <3>2. CASE m.kind = "save"
      <4>1. IsKind(flight[i], "save") /\ ~m.mine
        BY <1>1, <2>2, <3>2 DEF IsKind
      <4>2. EditorInv(editor, flight', server)
        BY <1>3, <4>1 DEF RequestInv, EditorInv
      <4>. QED
        BY <3>1, <4>2, EditorIsKnown
    <3>3. CASE m.kind # "save"
      <4>1. EditorInv(editor, flight', server)
        BY <1>3, <1>4, <3>3, EditorKeeps DEF RequestInv, Kinds
      <4>. QED
        BY <3>1, <4>1, EditorIsKnown
    <3>. QED
      BY <3>2, <3>3
  <2>. QED
    BY <2>1, <2>2
<1>6. /\ PanelInv(panel', flight', server)
      /\ panel # None => panel' # None /\ panel' \in Panels
      /\ panel = None => panel' = None
  <2>1. CASE sets
    <3>1. IsKind(flight[i], "settings") /\ panel # None
      BY <1>1, <1>3, <2>1 DEF IsKind, Owned
    <3>2. panel \in Panels /\ PanelInv(panel, flight, server)
      BY <1>3, <3>1 DEF RequestInv, IInv, PageInv, MountInv
    <3>3. PICK c : c = (panel.calm /\ flight[i].stage = "failed")
      OBVIOUS
    <3>4. panel' = Marked(panel, Failed(panel.hook), c)
      BY <1>2, <2>1, <3>3
    <3>5. panel' \in Panels /\ panel' # None /\ PanelInv(panel', flight', server)
      BY ONLY <1>1, <1>4, <3>1, <3>2, <3>3, <3>4, i \in Slots, FailedPanel
    <3>. QED
      BY <3>1, <3>5
  <2>2. CASE ~sets
    <3>1. panel' = panel /\ (panel # None => panel \in Panels)
      BY <1>2, <2>2 DEF IInv, PageInv, MountInv
    <3>2. CASE m.kind = "settings"
      <4>1. IsKind(flight[i], "settings") /\ ~m.mine
        BY <1>1, <2>2, <3>2 DEF IsKind
      <4>2. PanelInv(panel, flight', server)
        BY <1>3, <4>1 DEF RequestInv, PanelInv
      <4>. QED
        BY <3>1, <4>2
    <3>3. CASE m.kind # "settings"
      <4>1. PanelInv(panel, flight', server)
        BY <1>3, <1>4, <3>3, PanelKeeps DEF RequestInv, Kinds
      <4>. QED
        BY <3>1, <4>1
    <3>. QED
      BY <3>2, <3>3
  <2>. QED
    BY <2>1, <2>2
<1>7. TitleInv(title, calmTitle', flight', server)
  <2>1. CASE m.kind = "title"
    BY <1>1, <2>1 DEF TitleInv
  <2>2. CASE m.kind # "title"
    <3>1. calmTitle' = calmTitle
      BY <1>1, <1>3, <2>2
    <3>. QED
      BY <1>3, <1>4, <2>2, <3>1, TitleKeeps DEF RequestInv, Kinds
  <2>. QED
    BY <2>1, <2>2
<1>8. Owned(flight', editor', panel')
  BY <1>4, <1>5, <1>6 DEF Owned
<1>9. PageInv'
  <2>1. MountInv(cache, broken, view, active, editor', panel')
    BY <1>5, <1>6 DEF IInv, PageInv, MountInv
  <2>2. missed' \in BOOLEAN /\ calmTitle' \in BOOLEAN
    BY <1>1, <1>3
  <2>3. \A j \in Slots : flight'[j] # None /\ flight'[j].stage = "waiting" => fetch # None
    BY <1>4 DEF IInv, PageInv
  <2>. QED
    BY <1>1, <1>5, <1>6, <2>1, <2>2, <2>3 DEF IInv, PageInv
<1>10. CacheInv'
  <2>1. ~missed' => ~missed /\ flight[i].stage = "failed"
    BY <1>1, <1>3
  <2>2. ~missed' /\ AllTold' => AllTold
    BY <1>4, <2>1 DEF AllTold
  <2>3. (\A j \in Slots : ~IsKind(flight'[j], "reorder"))
          => \A j \in Slots : ~IsKind(flight[j], "reorder")
    BY <1>1, <1>4 DEF IsKind
  <2>. QED
    BY <1>1, <2>1, <2>2, <2>3 DEF IInv, CacheInv
<1>11. QuizInv'
  BY <1>1, <1>3 DEF QuizInv
<1>. QED
  BY <1>1, <1>4, <1>5, <1>6, <1>7, <1>8, <1>9, <1>10, <1>11 DEF IInv, RequestInv

LEMMA ReorderFailsStep ==
  ASSUME IInv, NEW i \in Slots, ReorderFails(i)
  PROVE  IInv'
<1>. DEFINE m == flight[i]
<1>1. PICK left : left = Gone(flight, i)
  OBVIOUS
<1>2. /\ flight[i] # None /\ flight[i].stage \in {"lost", "failed"} /\ flight[i].kind = "reorder"
      /\ Invalidate /\ UNCHANGED <<server, onPage, acts>>
  BY DEF ReorderFails
<1>3. /\ onPage => Render(m.previous, FALSE, active, view, editor, panel, left, FALSE)
      /\ ~onPage => /\ cache' = m.previous /\ broken' = FALSE /\ flight' = left
                    /\ UNCHANGED <<active, view, title, editor, panel, calmTitle>>
  BY <1>1 DEF ReorderFails, Gone
<1>4. /\ RequestInv(editor, panel, title, calmTitle, flight, server) /\ IsFlight(flight, server)
      /\ Owned(flight, editor, panel) /\ active \in Ids \cup {None} /\ view \in Views
      /\ title \in Titles \cup {None} /\ calmTitle \in BOOLEAN
      /\ QuizInv /\ acts \in 0 .. MaxActs /\ onPage \in BOOLEAN
  BY DEF IInv, RequestInv, PageInv
<1>5. /\ IsFlight(left, server) /\ left[i] = None /\ \A j \in Slots \ {i} : left[j] = flight[j]
      /\ Owned(left, editor, panel)
      /\ \A kind \in Kinds : kind # m.kind => SameKind(left, flight, kind)
  BY ONLY <1>1, <1>2, <1>4, i \in Slots, GoneKeeps
<1>6. EditorInv(editor, left, server) /\ PanelInv(panel, left, server)
      /\ TitleInv(title, calmTitle, left, server)
  BY <1>2, <1>4, <1>5, EditorKeeps, PanelKeeps, TitleKeeps DEF RequestInv, Kinds
<1>7. PICK d : d = m.previous
  OBVIOUS
<1>8. IsData(d, server)
  BY <1>2, <1>4, <1>7 DEF IsFlight, IsGoodRequest, IsData
<1>9. /\ CacheInv' /\ missed' \in BOOLEAN /\ invalid' \in BOOLEAN
      /\ fetch # None => fetch' # None
      /\ fetch' \notin {None, Sent} => fetch' = fetch
  BY <1>2, InvalidateCache
<1>10. /\ editor # None => IsEditor(editor) /\ editor # None /\ editor.q = editor.q
       /\ panel # None => panel \in Panels
  BY EditorIsKnown DEF IInv, PageInv, MountInv
<1>11. /\ cache' = d /\ broken' = FALSE /\ active' \in Ids \cup {None} /\ view' \in Views
       /\ title' \in Titles \cup {None} /\ calmTitle' \in BOOLEAN
       /\ MountInv(d, FALSE, view', active', editor', panel')
       /\ RequestInv(editor', panel', title', calmTitle', flight', server)
       /\ ~onPage => title' = None /\ editor' = None /\ panel' = None
       /\ onPage /\ title' = None => d = None
       /\ Like(flight', left)
  <2>1. CASE onPage
    <3>1. Render(d, FALSE, active, view, editor, panel, left, FALSE)
      BY <1>3, <1>7, <2>1
    <3>2. /\ cache' = d /\ broken' = FALSE /\ view' = view
          /\ active' \in Ids \cup {None} /\ title' \in Titles \cup {None}
          /\ calmTitle' \in BOOLEAN /\ (title' = None => d = None)
          /\ MountInv(d, FALSE, view, active', editor', panel')
          /\ RequestInv(editor', panel', title', calmTitle', flight', server)
          /\ Like(flight', left)
      BY ONLY FALSE \in BOOLEAN, <1>4, <1>5, <1>6, <1>8, <1>10, <3>1, RenderKeeps
    <3>. QED
      BY <1>4, <2>1, <3>2
  <2>2. CASE ~onPage
    <3>1. /\ cache' = d /\ broken' = FALSE /\ flight' = left
          /\ UNCHANGED <<active, view, title, editor, panel, calmTitle>>
      BY <1>3, <1>7, <2>2
    <3>2. title = None /\ editor = None /\ panel = None
      BY <2>2 DEF IInv, PageInv
    <3>3. MountInv(d, FALSE, view', active', editor', panel')
      BY <3>1, <3>2 DEF MountInv
    <3>4. RequestInv(editor', panel', title', calmTitle', flight', server)
      BY <1>5, <3>1, <3>2 DEF RequestInv, EditorInv, PanelInv, TitleInv
    <3>. QED
      BY <1>4, <2>2, <3>1, <3>2, <3>3, <3>4 DEF Like
  <2>. QED
    BY <1>4, <2>1, <2>2
<1>12. QuizInv'
  BY <1>2, <1>4, <1>8, <1>9, <1>11 DEF QuizInv
<1>13. \A j \in Slots : flight'[j] # None /\ flight'[j].stage = "waiting" => fetch' # None
  BY <1>5, <1>9, <1>11 DEF IInv, PageInv, Like
<1>14. PageInv'
  BY <1>2, <1>4, <1>9, <1>11, <1>13 DEF PageInv
<1>. QED
  BY <1>2, <1>9, <1>11, <1>12, <1>14 DEF IInv

-----------------------------------------------------------------------------
(***************************************************************************)
(* The user's acts.                                                        *)
(***************************************************************************)
\* What a page that shows the quiz may take for granted when an act of its user begins.
PageFacts ==
  /\ onPage
  /\ IsData(cache, server) /\ cache # None /\ ~broken /\ broken \in BOOLEAN
  /\ active \in Ids \cup {None} /\ view \in Views /\ title \in Titles
  /\ calmTitle \in BOOLEAN
  /\ editor # None => IsEditor(editor) /\ editor.q = active
  /\ panel # None => panel \in Panels
  /\ RequestInv(editor, panel, title, calmTitle, flight, server)
  /\ Known => AtRest(flight) /\ cache = server

LEMMA ShownPage ==
  ASSUME IInv, Shown
  PROVE  PageFacts
<1>1. /\ onPage /\ cache # None /\ ~broken /\ IsData(cache, server) /\ broken \in BOOLEAN
      /\ active \in Ids \cup {None} /\ view \in Views /\ calmTitle \in BOOLEAN
      /\ title \in Titles
      /\ panel # None => panel \in Panels
      /\ RequestInv(editor, panel, title, calmTitle, flight, server)
  BY DEF Shown, IInv, PageInv, QuizInv, MountInv
<1>2. Known => AtRest(flight) /\ cache = server
  <2>1. AtRest(flight) => AllTold /\ \A i \in Slots : ~IsKind(flight[i], "reorder")
    BY DEF AtRest, AllTold, IsKind
  <2>. QED
    BY <1>1, <2>1 DEF Known, IInv, CacheInv
<1>. QED
  BY <1>1, <1>2, EditorIsKnown DEF PageFacts

\* An act that leaves the data and the fetch alone, and no request behind.
LEMMA StaysCurrent ==
  ASSUME IInv, Covers(flight', flight),
         UNCHANGED <<server, cache, broken, invalid, fetch, missed, onPage>>
  PROVE  /\ QuizInv' /\ CacheInv'
         /\ \A i \in Slots : flight'[i] # None /\ flight'[i].stage = "waiting" => fetch' # None
<1>1. QuizInv'
  BY DEF IInv, QuizInv
<1>2. AllTold' => AllTold
  BY DEF AllTold, Covers
<1>3. (\A i \in Slots : ~IsKind(flight'[i], "reorder"))
        => \A i \in Slots : ~IsKind(flight[i], "reorder")
  BY DEF Covers, IsKind
<1>4. CacheInv'
  BY <1>2, <1>3 DEF IInv, CacheInv
<1>. QED
  BY <1>1, <1>4 DEF IInv, PageInv, Covers

\* An act after which the page is rendered with the same data.
LEMMA RenderedStep ==
  ASSUME IInv, Shown, Still, acts' \in 0 .. MaxActs,
         NEW a \in Ids \cup {None}, NEW v \in Views, NEW fl, NEW calm \in BOOLEAN,
         IsFlight(fl, server), Owned(fl, editor, panel), EditorInv(editor, fl, server),
         PanelInv(panel, fl, server), TitleInv(title, calmTitle, fl, server),
         Covers(fl, flight), calm => AtRest(fl) /\ cache = server,
         Render(cache, broken, a, v, editor, panel, fl, calm)
  PROVE  IInv'
<1>1. UNCHANGED <<server, onPage, invalid, fetch, missed>>
  BY DEF Still, Quiet
<1>2. PageFacts
  BY <1>1, ShownPage
<1>3. PICK d, b : d = cache /\ b = broken
  OBVIOUS
<1>4. /\ IsData(d, server) /\ b \in BOOLEAN /\ Render(d, b, a, v, editor, panel, fl, calm)
      /\ editor # None => IsEditor(editor) /\ editor # None /\ editor.q = editor.q
      /\ panel # None => panel \in Panels
      /\ title \in Titles \cup {None} /\ calmTitle \in BOOLEAN
      /\ calm => AtRest(fl) /\ (d # None => d = server)
  BY <1>2, <1>3 DEF PageFacts
<1>5. /\ a \in Ids \cup {None} /\ v \in Views /\ calm \in BOOLEAN
      /\ IsFlight(fl, server) /\ Owned(fl, editor, panel) /\ EditorInv(editor, fl, server)
      /\ PanelInv(panel, fl, server) /\ TitleInv(title, calmTitle, fl, server)
  OBVIOUS
<1>6. /\ cache' = d /\ broken' = b /\ view' = v
      /\ active' \in Ids \cup {None} /\ title' \in Titles \cup {None}
      /\ calmTitle' \in BOOLEAN /\ (title' = None => d = None)
      /\ MountInv(d, b, v, active', editor', panel')
      /\ RequestInv(editor', panel', title', calmTitle', flight', server)
      /\ Like(flight', fl)
  BY ONLY <1>4, <1>5, RenderKeeps
<1>7. Covers(flight', flight)
  BY <1>6, LikeCovers, CoversTransitive
<1>8. /\ QuizInv' /\ CacheInv'
      /\ \A i \in Slots : flight'[i] # None /\ flight'[i].stage = "waiting" => fetch' # None
  BY <1>1, <1>3, <1>6, <1>7, StaysCurrent
<1>9. PageInv'
  <2>1. invalid' \in BOOLEAN /\ missed' \in BOOLEAN /\ onPage' = TRUE
    BY <1>1, <1>2 DEF IInv, PageInv, PageFacts
  <2>. QED
    BY <1>3, <1>4, <1>5, <1>6, <1>8, <2>1 DEF PageInv
<1>. QED
  BY <1>1, <1>6, <1>8, <1>9 DEF IInv

\* An act after which the page shows the same with another editor, panel or requests.
LEMMA QuietStep ==
  ASSUME IInv, Shown, Still, acts' \in 0 .. MaxActs, NEW e, NEW p, NEW fl,
         Quietly(e, p, fl), calmTitle' = calmTitle,
         e # None => IsEditor(e) /\ editor # None /\ e.q = editor.q,
         p # None => p \in Panels /\ panel # None,
         RequestInv(e, p, title, calmTitle, fl, server), Covers(fl, flight)
  PROVE  IInv'
<1>1. /\ UNCHANGED <<server, onPage, invalid, fetch, missed, cache, broken, active, view, title>>
      /\ editor' = e /\ panel' = p /\ flight' = fl
  BY DEF Still, Quiet, Quietly
<1>2. /\ QuizInv' /\ CacheInv'
      /\ \A i \in Slots : flight'[i] # None /\ flight'[i].stage = "waiting" => fetch' # None
  BY <1>1, StaysCurrent
<1>3. MountInv(cache, broken, view, active, e, p)
  BY DEF IInv, PageInv, MountInv
<1>4. PageInv'
  BY <1>1, <1>2, <1>3 DEF IInv, PageInv, Shown
<1>. QED
  BY <1>1, <1>2, <1>4 DEF IInv

LEMMA CoversItself == \A fl : Covers(fl, fl)
  BY DEF Covers

LEMMA ActCounts ==
  ASSUME IInv, NEW kind, Act(kind)
  PROVE  Shown /\ acts' \in 0 .. MaxActs
<1>1. acts \in 0 .. MaxActs /\ MaxActs \in Nat /\ acts < MaxActs /\ acts' = acts + 1 /\ Shown
  BY BuilderAssumption DEF IInv, PageInv, Act
<1>. QED
  BY <1>1

LEMMA TurnStep ==
  ASSUME IInv, NEW kind, Act(kind), NEW a \in Ids \cup {None}, NEW v \in Views, Turn(a, v), Still
  PROVE  IInv'
<1>1. Shown /\ acts' \in 0 .. MaxActs
  BY ActCounts
<1>2. PageFacts
  BY <1>1, ShownPage DEF Still, Quiet
<1>3. PICK fl, calm : fl = flight /\ calm \in BOOLEAN /\ calm = Known
  BY DEF Known, AtRest
<1>4. Render(cache, broken, a, v, editor, panel, fl, calm)
  BY <1>3 DEF Turn
<1>5. /\ IsFlight(fl, server) /\ Owned(fl, editor, panel) /\ EditorInv(editor, fl, server)
      /\ PanelInv(panel, fl, server) /\ TitleInv(title, calmTitle, fl, server)
      /\ Covers(fl, flight) /\ (calm => AtRest(fl) /\ cache = server)
  BY <1>2, <1>3, CoversItself DEF PageFacts, RequestInv
<1>6. calm \in BOOLEAN /\ IInv /\ Still /\ a \in Ids \cup {None} /\ v \in Views
  BY <1>3
<1>. QED
  BY ONLY <1>1, <1>4, <1>5, <1>6, RenderedStep

LEMMA SelectStep ==
  ASSUME IInv, NEW i, Select(i)
  PROVE  IInv'
<1>1. Act("select") /\ i \in DOMAIN cache.order /\ Turn(cache.order[i], "question") /\ Still
  BY DEF Select
<1>2. cache.order \in Seq(Ids)
  <2>1. Shown
    BY <1>1, ActCounts
  <2>. QED
    BY <2>1 DEF IInv, QuizInv, IsData, IsGood, Shown, Quizzes
<1>3. PICK a : a = cache.order[i]
  OBVIOUS
<1>4. a \in Ids \cup {None}
  BY <1>1, <1>2, <1>3
<1>5. "question" \in Views /\ Turn(a, "question")
  BY <1>1, <1>3 DEF Views
<1>. QED
  BY ONLY IInv, <1>1, <1>4, <1>5, TurnStep

LEMMA ToggleSettingsStep ==
  ASSUME IInv, ToggleSettings
  PROVE  IInv'
<1>1. PICK v : v = IF view = "settings" THEN "question" ELSE "settings"
  OBVIOUS
<1>2. Act("view") /\ Turn(active, v) /\ Still
  BY <1>1 DEF ToggleSettings
<1>3. v \in Views /\ active \in Ids \cup {None}
  BY <1>1 DEF Views, IInv, PageInv
<1>4. PICK a : a = active
  OBVIOUS
<1>5. Turn(a, v) /\ a \in Ids \cup {None}
  BY <1>2, <1>3, <1>4
<1>. QED
  BY ONLY IInv, <1>2, <1>3, <1>5, TurnStep

\* What is typed into an editor without a save under way keeps it calm.
LEMMA TypedEditor ==
  ASSUME NEW e, IsEditor(e), NEW fl, NEW t, EditorInv(e, fl, t),
         NEW c \in BOOLEAN, c => e.calm /\ \A i \in Slots : ~IsKind(fl[i], "save"),
         NEW d \in Edits(e.hook.value, e.q), NEW e2, e2 = Marked(e, Typed(e.hook, d), c)
  PROVE  IsEditor(e2) /\ e2 # None /\ e2.q = e.q /\ EditorInv(e2, fl, t)
<1>1. e \in Editors /\ e # None /\ e.hook \in Hooks(Drafts) /\ e.q \in Ids
      /\ IsDraftOf(e.q, e.hook.value)
  BY BuilderAssumption DEF IsEditor, Editors
<1>2. PICK h0, v, q, h : h0 = e.hook /\ v = e.hook.value /\ q = e.q /\ h = Typed(h0, d)
  OBVIOUS
<1>3. HasOptions(v) /\ v.text[1] = q /\ q \in Ids /\ d \in Edits(v, q) /\ h0 \in Hooks(Drafts)
  BY <1>1, <1>2, DraftHasOptions
<1>4. HasOptions(d) /\ d.text[1] = q
  BY ONLY <1>3, EditKeeps
<1>5. /\ h \in Hooks(Drafts) /\ IsDraftOf(q, h.value) /\ h.last = h0.last
      /\ Settles(h0) => Settles(h)
  BY ONLY <1>2, <1>3, <1>4, TypedHook
<1>6. e2 = Marked(e, h, c)
  BY <1>2
<1>7. e2 \in Editors /\ e2 # None /\ e2.q = e.q /\ e2.hook = h /\ e2.calm = c
  BY ONLY <1>1, <1>5, <1>6, c \in BOOLEAN, MarkedEditor
<1>8. IsEditor(e2)
  BY <1>2, <1>5, <1>7 DEF IsEditor
<1>9. EditorInv(e2, fl, t)
  <2>1. ASSUME c
        PROVE  /\ \A i \in Slots : ~IsKind(fl[i], "save")
               /\ Holds(t.content[e.q], e.hook.last) /\ Settles(e.hook)
    BY <1>1, <2>1 DEF EditorInv
  <2>. QED
    BY <1>2, <1>5, <1>7, <2>1 DEF EditorInv
<1>. QED
  BY <1>7, <1>8, <1>9

LEMMA EditStep ==
  ASSUME IInv, NEW d, Edit(d)
  PROVE  IInv'
<1>1. PICK c : c = (editor.calm /\ Saves(flight) = {})
  OBVIOUS
<1>2. PICK e, p, fl : e = Marked(editor, Typed(editor.hook, d), c) /\ p = panel /\ fl = flight
  OBVIOUS
<1>3. /\ Act("edit") /\ editor # None /\ d \in Edits(editor.hook.value, editor.q)
      /\ Quietly(e, p, fl) /\ Still /\ calmTitle' = calmTitle
  BY <1>1, <1>2 DEF Edit, Marked
<1>4. Shown /\ acts' \in 0 .. MaxActs
  BY <1>3, ActCounts
<1>5. PageFacts
  BY <1>4, ShownPage
<1>6. /\ IsEditor(editor) /\ EditorInv(editor, flight, server)
      /\ PanelInv(panel, flight, server) /\ TitleInv(title, calmTitle, flight, server)
      /\ IsFlight(flight, server) /\ Owned(flight, editor, panel)
      /\ panel # None => panel \in Panels
  BY <1>3, <1>5 DEF PageFacts, RequestInv
<1>7. c \in BOOLEAN /\ (c => editor.calm /\ \A i \in Slots : ~IsKind(flight[i], "save"))
  <2>1. editor.calm \in BOOLEAN
    BY <1>6 DEF IsEditor, Editors
  <2>2. ASSUME c
        PROVE  \A i \in Slots : ~IsKind(flight[i], "save")
    <3>1. Saves(flight) = {} /\ editor.calm
      BY <1>1, <2>2
    <3>. QED
      BY <1>3, <1>6, <3>1 DEF EditorInv, Saves, IsKind
  <2>. QED
    BY <1>1, <2>1, <2>2
<1>8. e = Marked(editor, Typed(editor.hook, d), c)
  BY <1>2
<1>9. IsEditor(e) /\ e # None /\ e.q = editor.q /\ EditorInv(e, flight, server)
  BY ONLY <1>3, <1>6, <1>7, <1>8, TypedEditor
<1>10. RequestInv(e, p, title, calmTitle, fl, server) /\ Covers(fl, flight)
  <2>1. Owned(flight, e, panel)
    BY <1>6, <1>9 DEF Owned
  <2>. QED
    BY <1>2, <1>6, <1>9, <2>1, CoversItself DEF RequestInv
<1>11. /\ e # None => IsEditor(e) /\ editor # None /\ e.q = editor.q
       /\ p # None => p \in Panels /\ panel # None
  BY <1>2, <1>3, <1>6, <1>9
<1>. QED
  BY ONLY IInv, <1>3, <1>4, <1>10, <1>11, QuietStep

LEMMA EditSettingsStep ==
  ASSUME IInv, NEW b \in Blurbs, EditSettings(b)
  PROVE  IInv'
<1>1. PICK c : c = (panel.calm /\ ~Pending("settings"))
  OBVIOUS
<1>2. PICK h0, h : h0 = panel.hook /\ h = Changed(h0, b)
  OBVIOUS
<1>3. PICK e, p, fl : e = editor /\ p = Marked(panel, h, c) /\ fl = flight
  OBVIOUS
<1>4. /\ Act("settings") /\ panel # None
      /\ Quietly(e, p, fl) /\ Still /\ calmTitle' = calmTitle
  BY <1>1, <1>2, <1>3 DEF EditSettings, Marked
<1>5. Shown /\ acts' \in 0 .. MaxActs
  BY <1>4, ActCounts
<1>6. PageFacts
  BY <1>5, ShownPage
<1>7. /\ EditorInv(editor, flight, server)
      /\ PanelInv(panel, flight, server) /\ TitleInv(title, calmTitle, flight, server)
      /\ IsFlight(flight, server) /\ Owned(flight, editor, panel)
      /\ panel \in Panels /\ (editor # None => IsEditor(editor))
  BY <1>4, <1>6 DEF PageFacts, RequestInv
<1>8. h0 \in Hooks(Blurbs) /\ panel.calm \in BOOLEAN /\ c \in BOOLEAN /\ b \in Blurbs
  BY <1>1, <1>2, <1>7 DEF Panels
<1>9. /\ h \in Hooks(Blurbs) /\ h.last = h0.last
      /\ Settles(h0) => Settles(h)
  BY ONLY <1>2, <1>8, ChangedHook
<1>10. p \in Panels /\ p # None /\ p.hook = h /\ p.calm = c
  BY ONLY <1>3, <1>7, <1>8, <1>9, MarkedPanel
<1>11. PanelInv(p, flight, server)
  <2>1. ASSUME c
        PROVE  /\ \A i \in Slots : ~IsKind(flight[i], "settings")
               /\ server.blurb = panel.hook.last /\ Settles(panel.hook)
    <3>1. \A i \in Slots : ~IsKind(flight[i], "settings")
      BY <1>1, <2>1 DEF Pending, IsKind
    <3>. QED
      BY <1>1, <1>4, <1>7, <2>1, <3>1 DEF PanelInv
  <2>. QED
    BY <1>2, <1>9, <1>10, <2>1 DEF PanelInv
<1>12. RequestInv(e, p, title, calmTitle, fl, server) /\ Covers(fl, flight)
  <2>1. Owned(flight, e, p)
    BY <1>3, <1>7, <1>10 DEF Owned
  <2>. QED
    BY <1>3, <1>7, <1>11, <2>1, CoversItself DEF RequestInv
<1>13. /\ e # None => IsEditor(e) /\ editor # None /\ e.q = editor.q
       /\ p # None => p \in Panels /\ panel # None
  BY <1>3, <1>4, <1>7, <1>10
<1>. QED
  BY ONLY IInv, <1>4, <1>5, <1>12, <1>13, QuietStep

\* A request that is neither a save nor of the settings or the title is nobody's concern.
LEMMA SentKeeps ==
  ASSUME NEW e, NEW p, NEW ti, NEW ct, NEW t, RequestInv(e, p, ti, ct, flight, t), HasSlot,
         NEW m, IsGoodRequest(m, t), m.stage = "sent", m.kind \notin {"save", "settings", "title"},
         m.kind = "add" =>
           /\ t.content[m.q] = None
           /\ \A i \in Slots : IsKind(flight[i], "add") => flight[i].q # m.q,
         NEW fl, fl = With(m)
  PROVE  RequestInv(e, p, ti, ct, fl, t) /\ Covers(fl, flight)
<1>1. IsFlight(flight, t) /\ Owned(flight, e, p) /\ EditorInv(e, flight, t) /\ PanelInv(p, flight, t)
      /\ TitleInv(ti, ct, flight, t)
  BY DEF RequestInv
<1>2. /\ IsFlight(fl, t) /\ Covers(fl, flight)
      /\ \A kind \in Kinds : kind # m.kind => SameKind(fl, flight, kind)
  BY <1>1, WithKeeps
<1>3. SameKind(fl, flight, "save") /\ SameKind(fl, flight, "settings") /\ SameKind(fl, flight, "title")
  BY <1>2 DEF Kinds
<1>4. EditorInv(e, fl, t) /\ PanelInv(p, fl, t) /\ TitleInv(ti, ct, fl, t)
  BY <1>1, <1>3, EditorKeeps, PanelKeeps, TitleKeeps
<1>5. Owned(fl, e, p)
  BY <1>1, <1>3 DEF Owned, SameKind
<1>. QED
  BY <1>1, <1>2, <1>4, <1>5 DEF RequestInv

\* The timer of an editor: its save is the only one under way if it is calm.
LEMMA FiredEditor ==
  ASSUME NEW e, IsEditor(e), e.hook.timer, NEW p, NEW ti, NEW ct, NEW t,
         RequestInv(e, p, ti, ct, flight, t), HasSlot,
         NEW m, m = Request("save", e.q, e.hook.value), NEW fl, fl = With(m),
         NEW e2, e2 = Hooked(e, Fired(e.hook))
  PROVE  /\ IsEditor(e2) /\ e2 # None /\ e2.q = e.q
         /\ RequestInv(e2, p, ti, ct, fl, t) /\ Covers(fl, flight)
<1>1. /\ e \in Editors /\ e.hook \in Hooks(Drafts) /\ e.q \in Ids /\ e # None
      /\ e.hook.value \in Drafts /\ IsDraftOf(e.q, e.hook.value) /\ e.calm \in BOOLEAN
  BY BuilderAssumption DEF IsEditor, Editors, IsDraftOf
<1>2. /\ IsFlight(flight, t) /\ Owned(flight, e, p) /\ EditorInv(e, flight, t)
      /\ PanelInv(p, flight, t) /\ TitleInv(ti, ct, flight, t)
  BY DEF RequestInv
<1>3. /\ m \in AllRequests /\ m.kind = "save" /\ m.q = e.q /\ m.arg = e.hook.value
      /\ m.stage = "sent" /\ m.mine
  <2>1. PICK q, v : q = e.q /\ v = e.hook.value
    OBVIOUS
  <2>2. "save" \in Kinds /\ v \in Args("save") /\ "save" # "reorder"
        /\ q \in (IF "save" \in {"save", "add", "delete"} THEN Ids ELSE {None})
        /\ m = Request("save", q, v)
    BY <1>1, <2>1 DEF Args, Kinds
  <2>. QED
    BY <2>1, <2>2, RequestIsOne
<1>4. IsGoodRequest(m, t)
  BY <1>1, <1>3 DEF IsGoodRequest
<1>5. /\ IsFlight(fl, t) /\ Covers(fl, flight)
      /\ \A kind \in Kinds : kind # "save" => SameKind(fl, flight, kind)
      /\ \E k \in Slots : /\ flight[k] = None /\ fl[k] = m
                          /\ \A i \in Slots \ {k} : fl[i] = flight[i]
  <2>1. m.kind = "add" =>
           /\ t.content[m.q] = None
           /\ \A i \in Slots : IsKind(flight[i], "add") => flight[i].q # m.q
    BY <1>3
  <2>. QED
    BY ONLY HasSlot, fl = With(m), <1>2, <1>3, <1>4, <2>1, WithKeeps
<1>6. PICK k \in Slots : flight[k] = None /\ fl[k] = m /\ \A i \in Slots \ {k} : fl[i] = flight[i]
  BY <1>5
<1>7. PICK h0, h : h0 = e.hook /\ h = Fired(h0)
  OBVIOUS
<1>8. h0 \in Hooks(Drafts)
  BY <1>1, <1>7
<1>9. h \in Hooks(Drafts) /\ h.value = h0.value /\ h.last = h0.last /\ ~h.timer
  BY ONLY <1>7, <1>8, FiredHook
<1>10. e2 = Hooked(e, h)
  BY <1>7
<1>11. e2 \in Editors /\ e2 # None /\ e2.q = e.q /\ e2.hook = h /\ e2.calm = e.calm
  BY ONLY <1>1, <1>9, <1>10, HookedEditor
<1>12. IsEditor(e2)
  BY <1>1, <1>7, <1>9, <1>11 DEF IsEditor
<1>13. EditorInv(e2, fl, t)
  <2>1. ASSUME e.calm
        PROVE  /\ \A i \in Slots : ~IsKind(flight[i], "save")
               /\ Holds(t.content[e.q], e.hook.last)
    BY <1>1, <1>2, <2>1 DEF EditorInv
  <2>2. ASSUME e.calm
        PROVE  /\ \A i \in Slots : IsKind(fl[i], "save") => i = k
               /\ IsKind(fl[k], "save")
    BY <1>3, <1>4, <1>6, <2>1, <2>2, RequestFields DEF IsKind
  <2>. QED
    BY <1>3, <1>6, <1>7, <1>9, <1>11, <2>1, <2>2 DEF EditorInv
<1>14. PanelInv(p, fl, t) /\ TitleInv(ti, ct, fl, t)
  BY <1>2, <1>5, PanelKeeps, TitleKeeps DEF Kinds
<1>15. Owned(fl, e2, p)
  BY <1>2, <1>3, <1>6, <1>11 DEF Owned, IsKind
<1>. QED
  BY <1>5, <1>11, <1>12, <1>13, <1>14, <1>15 DEF RequestInv

LEMMA SaveFiresStep ==
  ASSUME IInv, SaveFires
  PROVE  IInv'
<1>1. PICK e, p, m, fl :
        /\ e = Hooked(editor, Fired(editor.hook)) /\ p = panel
        /\ m = Request("save", active, editor.hook.value) /\ fl = With(m)
  OBVIOUS
<1>2. /\ editor # None /\ editor.hook.timer /\ HasSlot
      /\ Quietly(e, p, fl) /\ Still /\ acts' = acts /\ calmTitle' = calmTitle
  BY <1>1 DEF SaveFires, Hooked
<1>3. Shown /\ acts' \in 0 .. MaxActs
  BY <1>2, EditorIsKnown DEF Shown, IInv, PageInv
<1>4. PageFacts
  BY <1>3, ShownPage
<1>5. /\ IsEditor(editor) /\ m = Request("save", editor.q, editor.hook.value)
      /\ RequestInv(editor, p, title, calmTitle, flight, server)
      /\ p # None => p \in Panels /\ panel # None
  BY <1>1, <1>2, <1>4 DEF PageFacts
<1>6. fl = With(m) /\ e = Hooked(editor, Fired(editor.hook))
  BY <1>1
<1>7. /\ IsEditor(e) /\ e # None /\ e.q = editor.q
      /\ RequestInv(e, p, title, calmTitle, fl, server) /\ Covers(fl, flight)
  BY ONLY <1>2, <1>5, <1>6, FiredEditor
<1>. QED
  BY ONLY IInv, <1>2, <1>3, <1>5, <1>7, QuietStep

LEMMA FiredPanel ==
  ASSUME NEW p \in Panels, p.hook.timer, NEW e, NEW ti, NEW ct, NEW t,
         RequestInv(e, p, ti, ct, flight, t), HasSlot,
         NEW m, m = Request("settings", None, p.hook.value), NEW fl, fl = With(m),
         NEW p2, p2 = Hooked(p, Fired(p.hook))
  PROVE  /\ p2 \in Panels /\ p2 # None
         /\ RequestInv(e, p2, ti, ct, fl, t) /\ Covers(fl, flight)
<1>1. p \in Panels /\ p.hook \in Hooks(Blurbs) /\ p # None /\ p.hook.value \in Blurbs
      /\ p.calm \in BOOLEAN
  BY BuilderAssumption DEF Panels, Hooks
<1>2. /\ IsFlight(flight, t) /\ Owned(flight, e, p) /\ EditorInv(e, flight, t)
      /\ PanelInv(p, flight, t) /\ TitleInv(ti, ct, flight, t)
  BY DEF RequestInv
<1>3. /\ m \in AllRequests /\ m.kind = "settings" /\ m.arg = p.hook.value
      /\ m.stage = "sent" /\ m.mine
  <2>1. PICK q, v : q = None /\ v = p.hook.value
    OBVIOUS
  <2>2. "settings" \in Kinds /\ v \in Args("settings") /\ "settings" # "reorder"
        /\ q \in (IF "settings" \in {"save", "add", "delete"} THEN Ids ELSE {None})
        /\ m = Request("settings", q, v)
    BY <1>1, <2>1 DEF Args, Kinds
  <2>. QED
    BY <2>1, <2>2, RequestIsOne
<1>4. IsGoodRequest(m, t)
  BY <1>1, <1>3 DEF IsGoodRequest
<1>5. /\ IsFlight(fl, t) /\ Covers(fl, flight)
      /\ \A kind \in Kinds : kind # "settings" => SameKind(fl, flight, kind)
      /\ \E k \in Slots : /\ flight[k] = None /\ fl[k] = m
                          /\ \A i \in Slots \ {k} : fl[i] = flight[i]
  <2>1. m.kind = "add" =>
           /\ t.content[m.q] = None
           /\ \A i \in Slots : IsKind(flight[i], "add") => flight[i].q # m.q
    BY <1>3
  <2>. QED
    BY ONLY HasSlot, fl = With(m), <1>2, <1>3, <1>4, <2>1, WithKeeps
<1>6. PICK k \in Slots : flight[k] = None /\ fl[k] = m /\ \A i \in Slots \ {k} : fl[i] = flight[i]
  BY <1>5
<1>7. PICK h0, h : h0 = p.hook /\ h = Fired(h0)
  OBVIOUS
<1>8. h0 \in Hooks(Blurbs)
  BY <1>1, <1>7
<1>9. h \in Hooks(Blurbs) /\ h.value = h0.value /\ h.last = h0.last /\ ~h.timer
  BY ONLY <1>7, <1>8, FiredHook
<1>10. p2 = Hooked(p, h)
  BY <1>7
<1>11. p2 \in Panels /\ p2 # None /\ p2.hook = h /\ p2.calm = p.calm
  BY ONLY <1>1, <1>9, <1>10, HookedPanel
<1>13. PanelInv(p2, fl, t)
  <2>1. ASSUME p.calm
        PROVE  /\ \A i \in Slots : ~IsKind(flight[i], "settings")
               /\ t.blurb = p.hook.last
    BY <1>1, <1>2, <2>1 DEF PanelInv
  <2>2. ASSUME p.calm
        PROVE  /\ \A i \in Slots : IsKind(fl[i], "settings") => i = k
               /\ IsKind(fl[k], "settings")
    BY <1>3, <1>4, <1>6, <2>1, <2>2, RequestFields DEF IsKind
  <2>. QED
    BY <1>3, <1>6, <1>7, <1>9, <1>11, <2>1, <2>2 DEF PanelInv
<1>14. EditorInv(e, fl, t) /\ TitleInv(ti, ct, fl, t)
  BY <1>2, <1>5, EditorKeeps, TitleKeeps DEF Kinds
<1>15. Owned(fl, e, p2)
  BY <1>2, <1>3, <1>6, <1>11 DEF Owned, IsKind
<1>. QED
  BY <1>5, <1>11, <1>13, <1>14, <1>15 DEF RequestInv

LEMMA SettingsFireStep ==
  ASSUME IInv, SettingsFire
  PROVE  IInv'
<1>1. PICK e, p, m, fl :
        /\ e = editor /\ p = Hooked(panel, Fired(panel.hook))
        /\ m = Request("settings", None, panel.hook.value) /\ fl = With(m)
  OBVIOUS
<1>2. /\ panel # None /\ panel.hook.timer /\ HasSlot
      /\ Quietly(e, p, fl) /\ Still /\ acts' = acts /\ calmTitle' = calmTitle
  BY <1>1 DEF SettingsFire, Hooked
<1>3. Shown /\ acts' \in 0 .. MaxActs
  BY <1>2 DEF Shown, IInv, PageInv, MountInv
<1>4. PageFacts
  BY <1>3, ShownPage
<1>5. /\ panel \in Panels /\ m = Request("settings", None, panel.hook.value)
      /\ RequestInv(e, panel, title, calmTitle, flight, server)
      /\ e # None => IsEditor(e) /\ editor # None /\ e.q = editor.q
  BY <1>1, <1>2, <1>4 DEF PageFacts
<1>6. fl = With(m) /\ p = Hooked(panel, Fired(panel.hook))
  BY <1>1
<1>7. /\ p \in Panels /\ p # None
      /\ RequestInv(e, p, title, calmTitle, fl, server) /\ Covers(fl, flight)
  BY ONLY <1>2, <1>5, <1>6, FiredPanel
<1>. QED
  BY ONLY IInv, <1>2, <1>3, <1>5, <1>7, QuietStep

LEMMA PublishStep ==
  ASSUME IInv, Publish
  PROVE  IInv'
<1>1. PICK e, p, b, m, fl :
        /\ e = editor /\ p = panel /\ b = ~cache.published
        /\ m = Request("publish", None, b) /\ fl = With(m)
  OBVIOUS
<1>2. /\ Act("publish") /\ HasSlot /\ Quietly(e, p, fl) /\ Still /\ calmTitle' = calmTitle
  BY <1>1 DEF Publish
<1>3. Shown /\ acts' \in 0 .. MaxActs
  BY <1>2, ActCounts
<1>4. PageFacts
  BY <1>3, ShownPage
<1>5. /\ RequestInv(e, p, title, calmTitle, flight, server)
      /\ e # None => IsEditor(e) /\ editor # None /\ e.q = editor.q
      /\ p # None => p \in Panels /\ panel # None
      /\ b \in BOOLEAN
  BY <1>1, <1>4 DEF PageFacts, IsData, IsGood, Quizzes
<1>6. m \in AllRequests /\ m.kind = "publish" /\ m.stage = "sent"
  <2>1. PICK q : q = None
    OBVIOUS
  <2>2. "publish" \in Kinds /\ b \in Args("publish") /\ "publish" # "reorder"
        /\ q \in (IF "publish" \in {"save", "add", "delete"} THEN Ids ELSE {None})
        /\ m = Request("publish", q, b)
    BY <1>1, <1>5, <2>1 DEF Args, Kinds
  <2>. QED
    BY <2>2, RequestIsOne
<1>7. IsGoodRequest(m, server) /\ m.kind \notin {"save", "settings", "title"} /\ m.kind # "add"
  BY <1>6 DEF IsGoodRequest
<1>8. fl = With(m)
  BY <1>1
<1>9. RequestInv(e, p, title, calmTitle, fl, server) /\ Covers(fl, flight)
  BY ONLY <1>2, <1>5, <1>6, <1>7, <1>8, SentKeeps
<1>. QED
  BY ONLY IInv, <1>2, <1>3, <1>5, <1>9, QuietStep

LEMMA DeleteStep ==
  ASSUME IInv, Delete
  PROVE  IInv'
<1>1. PICK e, p, q, arg, m, fl :
        /\ e = editor /\ p = panel /\ q = active /\ arg = None
        /\ m = Request("delete", q, arg) /\ fl = With(m)
  OBVIOUS
<1>2. /\ Act("delete") /\ HasSlot /\ editor # None /\ Quietly(e, p, fl) /\ Still
      /\ calmTitle' = calmTitle
  BY <1>1 DEF Delete
<1>3. Shown /\ acts' \in 0 .. MaxActs
  BY <1>2, ActCounts
<1>4. PageFacts
  BY <1>3, ShownPage
<1>5. /\ RequestInv(e, p, title, calmTitle, flight, server)
      /\ e # None => IsEditor(e) /\ editor # None /\ e.q = editor.q
      /\ p # None => p \in Panels /\ panel # None
      /\ q \in Ids
  BY <1>1, <1>2, <1>4, EditorIsKnown DEF PageFacts
<1>6. m \in AllRequests /\ m.kind = "delete" /\ m.stage = "sent"
  <2>1. "delete" \in Kinds /\ arg \in Args("delete") /\ "delete" # "reorder"
        /\ q \in (IF "delete" \in {"save", "add", "delete"} THEN Ids ELSE {None})
        /\ m = Request("delete", q, arg)
    BY <1>1, <1>5 DEF Args, Kinds
  <2>. QED
    BY <2>1, RequestIsOne
<1>7. IsGoodRequest(m, server) /\ m.kind \notin {"save", "settings", "title"} /\ m.kind # "add"
  BY <1>6 DEF IsGoodRequest
<1>8. fl = With(m)
  BY <1>1
<1>9. RequestInv(e, p, title, calmTitle, fl, server) /\ Covers(fl, flight)
  BY ONLY <1>2, <1>5, <1>6, <1>7, <1>8, SentKeeps
<1>. QED
  BY ONLY IInv, <1>2, <1>3, <1>5, <1>9, QuietStep

LEMMA AddStep ==
  ASSUME IInv, NEW q \in Ids, Add(q)
  PROVE  IInv'
<1>1. PICK arg, m, fl, a, v :
        /\ arg = None /\ m = Request("add", q, arg) /\ fl = With(m)
        /\ a = active /\ v = "question"
  OBVIOUS
<1>2. /\ Act("add") /\ HasSlot /\ Still /\ server.content[q] = None
      /\ \A i \in Slots : IsKind(flight[i], "add") => flight[i].q # q
      /\ Render(cache, broken, a, v, editor, panel, fl, FALSE)
  BY <1>1 DEF Add, IsKind
<1>3. Shown /\ acts' \in 0 .. MaxActs
  BY <1>2, ActCounts
<1>4. PageFacts
  BY <1>3, ShownPage
<1>5. /\ RequestInv(editor, panel, title, calmTitle, flight, server)
      /\ a \in Ids \cup {None} /\ v \in Views
  BY <1>1, <1>4 DEF PageFacts, Views
<1>6. m \in AllRequests /\ m.kind = "add" /\ m.stage = "sent" /\ m.q = q
  <2>1. "add" \in Kinds /\ arg \in Args("add") /\ "add" # "reorder"
        /\ q \in (IF "add" \in {"save", "add", "delete"} THEN Ids ELSE {None})
        /\ m = Request("add", q, arg)
    BY <1>1 DEF Args, Kinds
  <2>. QED
    BY <2>1, RequestIsOne
<1>7. IsGoodRequest(m, server) /\ m.kind \notin {"save", "settings", "title"}
  BY <1>6 DEF IsGoodRequest
<1>8. /\ fl = With(m) /\ server.content[m.q] = None
      /\ \A i \in Slots : IsKind(flight[i], "add") => flight[i].q # m.q
  BY <1>1, <1>2, <1>6
<1>9. RequestInv(editor, panel, title, calmTitle, fl, server) /\ Covers(fl, flight)
  BY ONLY <1>2, <1>5, <1>6, <1>7, <1>8, SentKeeps
<1>10. /\ IsFlight(fl, server) /\ Owned(fl, editor, panel) /\ EditorInv(editor, fl, server)
       /\ PanelInv(panel, fl, server) /\ TitleInv(title, calmTitle, fl, server)
  BY <1>9 DEF RequestInv
<1>. QED
  BY ONLY IInv, FALSE \in BOOLEAN, <1>2, <1>3, <1>5, <1>9, <1>10, RenderedStep

\* A title that is edited when all is known is the server's, or the only one that is sent.
LEMMA RetitleStep ==
  ASSUME IInv, NEW t \in Titles, Retitle(t)
  PROVE  IInv'
<1>1. /\ Act("title") /\ title' = t /\ Still
      /\ UNCHANGED <<cache, broken, active, view, editor, panel>>
      /\ calmTitle' = (calmTitle /\ Known)
      /\ TitleDiffers(t) => HasSlot /\ flight' = With(Request("title", None, t))
      /\ ~TitleDiffers(t) => flight' = flight
  BY DEF Retitle
<1>2. Shown /\ acts' \in 0 .. MaxActs
  BY <1>1, ActCounts
<1>3. PageFacts
  BY <1>2, ShownPage
<1>4. /\ RequestInv(editor, panel, title, calmTitle, flight, server) /\ IsFlight(flight, server)
      /\ Owned(flight, editor, panel) /\ EditorInv(editor, flight, server)
      /\ PanelInv(panel, flight, server) /\ onPage /\ calmTitle \in BOOLEAN
      /\ t # None
  BY <1>3, BuilderAssumption DEF PageFacts, RequestInv
<1>5. calmTitle' => AtRest(flight) /\ cache = server
  BY <1>1, <1>3 DEF PageFacts
<1>6. /\ IsFlight(flight', server) /\ Covers(flight', flight) /\ Owned(flight', editor, panel)
      /\ EditorInv(editor, flight', server) /\ PanelInv(panel, flight', server)
      /\ TitleInv(t, calmTitle', flight', server)
  <2>1. CASE TitleDiffers(t)
    <3>1. PICK q, m : q = None /\ m = Request("title", q, t)
      OBVIOUS
    <3>2. m \in AllRequests /\ m.kind = "title" /\ m.stage = "sent" /\ m.arg = t
      <4>1. "title" \in Kinds /\ t \in Args("title") /\ "title" # "reorder"
            /\ q \in (IF "title" \in {"save", "add", "delete"} THEN Ids ELSE {None})
        BY <2>1, <3>1 DEF Args, Kinds, TitleDiffers
      <4>2. m = Request("title", q, t)
        BY <3>1
      <4>. QED
        BY <4>1, <4>2, RequestIsOne
    <3>3. IsGoodRequest(m, server) /\ m # None /\ m.kind # "add"
      BY <3>2, RequestFields DEF IsGoodRequest
    <3>4. flight' = With(m) /\ HasSlot
      BY <1>1, <2>1, <3>1
    <3>5. /\ IsFlight(flight', server) /\ Covers(flight', flight)
          /\ \A kind \in Kinds : kind # "title" => SameKind(flight', flight, kind)
          /\ \E k \in Slots : /\ flight[k] = None /\ flight'[k] = m
                              /\ \A i \in Slots \ {k} : flight'[i] = flight[i]
      BY ONLY <1>4, <3>2, <3>3, <3>4, WithKeeps
    <3>6. SameKind(flight', flight, "save") /\ SameKind(flight', flight, "settings")
      BY <3>5 DEF Kinds
    <3>7. EditorInv(editor, flight', server) /\ PanelInv(panel, flight', server)
      BY <1>4, <3>6, EditorKeeps, PanelKeeps
    <3>8. Owned(flight', editor, panel)
      BY <1>4, <3>6 DEF Owned, SameKind
    <3>9. TitleInv(t, calmTitle', flight', server)
      <4>1. PICK k \in Slots : /\ flight[k] = None /\ flight'[k] = m
                               /\ \A i \in Slots \ {k} : flight'[i] = flight[i]
        BY <3>5
      <4>2. calmTitle' => \A i \in Slots \ {k} : flight'[i] = None
        BY <1>5, <4>1 DEF AtRest
      <4>. QED
        BY <3>2, <3>3, <4>1, <4>2 DEF TitleInv, IsKind
    <3>. QED
      BY <3>5, <3>7, <3>8, <3>9
  <2>2. CASE ~TitleDiffers(t)
    <3>1. flight' = flight /\ t \in {Empty, cache.title}
      BY <1>1, <2>2 DEF TitleDiffers
    <3>2. TitleInv(t, calmTitle', flight, server)
      BY <1>5, <3>1 DEF TitleInv, AtRest, IsKind
    <3>. QED
      BY <1>4, <3>1, <3>2, CoversItself
  <2>. QED
    BY <2>1, <2>2
<1>7. UNCHANGED <<server, onPage, invalid, fetch, missed>>
  BY <1>1 DEF Still, Quiet
<1>8. /\ QuizInv' /\ CacheInv'
      /\ \A i \in Slots : flight'[i] # None /\ flight'[i].stage = "waiting" => fetch' # None
  BY <1>1, <1>6, <1>7, StaysCurrent
<1>9. PageInv'
  <2>1. calmTitle' \in BOOLEAN
    BY <1>1 DEF Known, AtRest
  <2>. QED
    BY <1>1, <1>2, <1>4, <1>7, <1>8, <2>1 DEF IInv, PageInv
<1>. QED
  BY <1>1, <1>6, <1>7, <1>8, <1>9 DEF IInv, RequestInv

\* A question that is dragged leaves the order with the same questions.
LEMMA MovedProperties ==
  ASSUME NEW S, NEW s \in Seq(S), NEW i \in DOMAIN s, NEW j \in DOMAIN s
  PROVE  Moved(s, i, j) \in Seq(S) /\ Range(Moved(s, i, j)) \subseteq Range(s)
<1>. DEFINE R == Range(s)
            r == RemoveAt(s, i)
            a == SubSeq(r, 1, j - 1)
            b == SubSeq(r, j, Len(r))
            x == s[i]
<1>1. Len(s) \in Nat /\ DOMAIN s = 1 .. Len(s) /\ \A k \in 1 .. Len(s) : s[k] \in S
  BY LenProperties, ElementOfSeq
<1>2. x \in R /\ R \subseteq S /\ \A k \in 1 .. Len(s) : s[k] \in R
  BY <1>1 DEF Range
<1>3. s \in Seq(R)
  <2>1. s \in [1 .. Len(s) -> R]
    BY <1>1, <1>2, SeqDef
  <2>. QED
    BY <1>1, <2>1, SeqDef
<1>. HIDE DEF R
<1>4. r \in Seq(R) /\ Len(r) = Len(s) - 1
  BY <1>3, RemoveAtProperties
<1>. HIDE DEF r
<1>5. a \in Seq(R)
  <2>1. \A k \in 1 .. j - 1 : k \in 1 .. Len(r)
    BY <1>1, <1>4
  <2>. QED
    BY <1>1, <1>4, <2>1, SubSeqProperties
<1>6. b \in Seq(R)
  <2>1. \A k \in j .. Len(r) : k \in 1 .. Len(r)
    BY <1>1, <1>4
  <2>. QED
    BY <1>1, <1>4, <2>1, SubSeqProperties
<1>7. Moved(s, i, j) = a \o <<x>> \o b
  BY DEF Moved, InsertAt, r
<1>. HIDE DEF a, b, x
<1>8. <<x>> \in Seq(R)
  BY <1>2
<1>9. (a \o <<x>>) \o b \in Seq(R)
  BY <1>5, <1>6, <1>8, ConcatProperties
<1>10. PICK n : n = Moved(s, i, j)
  OBVIOUS
<1>11. n \in Seq(R) /\ Len(n) \in Nat /\ DOMAIN n = 1 .. Len(n) /\ \A k \in 1 .. Len(n) : n[k] \in R
  BY <1>7, <1>9, <1>10, LenProperties, ElementOfSeq
<1>12. Range(n) \subseteq R
  BY <1>11 DEF Range
<1>13. n \in Seq(S)
  <2>1. n \in [1 .. Len(n) -> S]
    BY <1>2, <1>11, SeqDef
  <2>. QED
    BY <1>11, <2>1, SeqDef
<1>. QED
  BY <1>10, <1>12, <1>13 DEF R

\* A reorder carries what the data were before it.
Reorder(order, previous) == [Request("reorder", None, order) EXCEPT !.previous = previous]

LEMMA ReorderIsOne ==
  ASSUME NEW t, NEW order \in Seq(Ids), NEW d, IsGood(d), Below(d, t),
         NEW m, m = Reorder(order, d)
  PROVE  IsGoodRequest(m, t) /\ m.kind = "reorder" /\ m.stage = "sent" /\ m # None
<1>1. d \in Quizzes
  BY DEF IsGood
<1>2. m = [kind |-> "reorder", q |-> None, arg |-> order, previous |-> d, stage |-> "sent",
           mine |-> TRUE]
  BY DEF Reorder, Request
<1>3. Args("reorder") = Seq(Ids) /\ "reorder" \in Kinds /\ "sent" \in Stages
  BY DEF Args, Kinds, Stages
<1>4. m \in Requests("reorder")
  BY <1>1, <1>2, <1>3 DEF Requests
<1>5. m \in AllRequests
  BY <1>3, <1>4 DEF AllRequests
<1>6. m.kind = "reorder" /\ m.stage = "sent" /\ m.previous = d
  BY <1>2
<1>7. m # None
  BY <1>5, RequestFields
<1>. QED
  BY ONLY <1>5, <1>6, <1>7, IsGood(d), Below(d, t) DEF IsGoodRequest

LEMMA DragStep ==
  ASSUME IInv, NEW i \in DOMAIN cache.order, NEW j \in DOMAIN cache.order, Drag(i, j)
  PROVE  IInv'
<1>1. PICK order, d, m, S, w, fl, left :
        /\ order = Moved(cache.order, i, j) /\ d = WithOrder(cache, order)
        /\ m = Reorder(order, cache) /\ S = Waiting(flight) /\ w = With(m)
        /\ fl = Cleared(w, S) /\ left = Cleared(flight, S)
  OBVIOUS
<1>2. /\ Act("drag") /\ HasSlot /\ fetch' = None /\ invalid' = FALSE
      /\ UNCHANGED <<missed, server, onPage>>
  BY DEF Drag, Quiet
<1>3. \E a \in Moves(S), e \in Resolved(S) : Render(d, FALSE, a, view, e, panel, fl, FALSE)
  BY <1>1 DEF Drag, Reorder, WithOrder
<1>4. PICK a \in Moves(S), e \in Resolved(S) : Render(d, FALSE, a, view, e, panel, fl, FALSE)
  BY <1>3
<1>5. Shown /\ acts' \in 0 .. MaxActs
  BY <1>2, ActCounts
<1>6. PageFacts
  BY <1>5, ShownPage
<1>7. /\ RequestInv(editor, panel, title, calmTitle, flight, server) /\ IsFlight(flight, server)
      /\ IsGood(cache) /\ Below(cache, server) /\ active \in Ids \cup {None} /\ view \in Views
      /\ title \in Titles \cup {None} /\ calmTitle \in BOOLEAN /\ onPage
      /\ editor # None => IsEditor(editor)
      /\ panel # None => panel \in Panels
  BY <1>6 DEF PageFacts, RequestInv, IsData
<1>8. cache.order \in Seq(Ids)
  BY <1>7 DEF IsGood, Quizzes
<1>9. order \in Seq(Ids) /\ Range(order) \subseteq Range(cache.order)
  BY <1>1, <1>8, MovedProperties
<1>10. IsGood(d) /\ Below(d, server)
  <2>1. IsGood(d) /\ Below(d, cache)
    BY <1>1, <1>7, <1>9, OrderKeeps
  <2>. QED
    BY <1>7, <2>1, BelowTransitive
<1>11. IsGoodRequest(m, server) /\ m.kind = "reorder" /\ m.stage = "sent" /\ m # None
  BY <1>1, <1>7, <1>9, ReorderIsOne
<1>12. /\ IsFlight(w, server) /\ Covers(w, flight)
       /\ \A kind \in Kinds : kind # m.kind => SameKind(w, flight, kind)
       /\ \E k \in Slots : /\ flight[k] = None /\ w[k] = m
                           /\ \A n \in Slots \ {k} : w[n] = flight[n]
  BY <1>1, <1>2, <1>7, <1>11, WithKeeps
<1>13. PICK k \in Slots : flight[k] = None /\ w[k] = m /\ \A n \in Slots \ {k} : w[n] = flight[n]
  BY <1>12
<1>14. S = {n \in Slots : flight[n] # None /\ flight[n].stage = "waiting"}
  BY <1>1 DEF Waiting
<1>15. a \in Ids \cup {None}
  BY <1>4, <1>7, <1>14, MovesToIds
<1>16. /\ RequestInv(e, panel, title, calmTitle, left, server)
       /\ e # None <=> editor # None
       /\ e # None => IsEditor(e) /\ e.q = editor.q
  <2>1. e \in Resolved(S) /\ S = Waiting(flight) /\ left = Cleared(flight, S)
    BY <1>1, <1>4
  <2>. QED
    BY ONLY <1>7, <2>1, ResolvedKeeps
<1>17. /\ IsFlight(fl, server)
       /\ \A n \in Slots : fl[n] = IF n \in S THEN None ELSE w[n]
  BY <1>1, <1>12, ClearedKeeps
<1>18. \A n \in Slots : left[n] = IF n \in S THEN None ELSE flight[n]
  BY <1>1 DEF Cleared
<1>19. fl[k] = m /\ left[k] = None /\ \A n \in Slots \ {k} : fl[n] = left[n]
  BY <1>13, <1>14, <1>17, <1>18
<1>20. SameKind(fl, left, "save") /\ SameKind(fl, left, "settings") /\ SameKind(fl, left, "title")
  BY <1>11, <1>19 DEF SameKind, IsKind
<1>21. /\ Owned(fl, e, panel) /\ EditorInv(e, fl, server) /\ PanelInv(panel, fl, server)
       /\ TitleInv(title, calmTitle, fl, server)
  <2>1. /\ Owned(left, e, panel) /\ EditorInv(e, left, server) /\ PanelInv(panel, left, server)
        /\ TitleInv(title, calmTitle, left, server)
    BY <1>16 DEF RequestInv
  <2>2. Owned(fl, e, panel)
    BY <1>20, <2>1 DEF Owned, SameKind
  <2>. QED
    BY <1>20, <2>1, <2>2, EditorKeeps, PanelKeeps, TitleKeeps
<1>22. IsData(d, server) /\ d # None /\ (e # None => IsEditor(e) /\ editor # None /\ editor.q = e.q)
  BY <1>10, <1>16, BuilderAssumption DEF IsData, IsGood
<1>23. Render(d, FALSE, a, view, e, panel, fl, FALSE)
  BY <1>4
<1>24. /\ cache' = d /\ broken' = FALSE /\ view' = view
       /\ active' \in Ids \cup {None} /\ title' \in Titles \cup {None}
       /\ calmTitle' \in BOOLEAN /\ (title' = None => d = None)
       /\ MountInv(d, FALSE, view, active', editor', panel')
       /\ RequestInv(editor', panel', title', calmTitle', flight', server)
       /\ Like(flight', fl)
  BY ONLY FALSE \in BOOLEAN, <1>7, <1>15, <1>17, <1>21, <1>22, <1>23, RenderKeeps
<1>25. QuizInv'
  BY <1>2, <1>22, <1>24 DEF IInv, QuizInv
<1>26. \A n \in Slots : flight'[n] # None => flight'[n].stage # "waiting"
  <2>1. \A n \in Slots : fl[n] # None => fl[n].stage # "waiting"
    BY <1>11, <1>13, <1>14, <1>17
  <2>. QED
    BY <1>24, <2>1 DEF Like
<1>27. PageInv'
  BY <1>2, <1>5, <1>7, <1>22, <1>24, <1>26 DEF IInv, PageInv
<1>28. IsKind(flight'[k], "reorder")
  BY <1>11, <1>19, <1>24 DEF Like, IsKind
<1>29. CacheInv'
  BY <1>2, <1>28 DEF CacheInv
<1>. QED
  BY <1>2, <1>24, <1>25, <1>27, <1>29 DEF IInv

\* Leaving the page: its requests are nobody's.
LEMMA LeaveStep ==
  ASSUME IInv, Leave
  PROVE  IInv'
<1>1. /\ acts < MaxActs /\ acts' = acts + 1 /\ onPage' = FALSE /\ active' = None
      /\ view' = "question" /\ title' = None /\ editor' = None /\ panel' = None
      /\ flight' = [i \in Slots |-> IF flight[i] = None THEN None
                                    ELSE [flight[i] EXCEPT !.mine = FALSE]]
      /\ UNCHANGED <<server, cache, broken, invalid, fetch, missed, calmTitle>>
  BY DEF Leave, cacheVars
<1>2. /\ IsFlight(flight, server) /\ TitleInv(title, calmTitle, flight, server)
      /\ flight \in [Slots -> AllRequests \cup {None}]
      /\ acts \in 0 .. MaxActs /\ MaxActs \in Nat
      /\ onPage \in BOOLEAN
  BY BuilderAssumption DEF IInv, RequestInv, IsFlight, PageInv
<1>3. /\ flight' \in [Slots -> AllRequests \cup {None}] /\ Like(flight', flight)
      /\ \A i \in Slots : flight'[i] # None => ~flight'[i].mine
  <2>1. ASSUME NEW i \in Slots
        PROVE  /\ flight[i] = None => flight'[i] = None
               /\ flight[i] # None =>
                    /\ flight'[i] \in AllRequests /\ flight'[i] # None
                    /\ flight'[i].kind = flight[i].kind /\ flight'[i].q = flight[i].q
                    /\ flight'[i].arg = flight[i].arg /\ flight'[i].previous = flight[i].previous
                    /\ flight'[i].stage = flight[i].stage /\ ~flight'[i].mine
    <3>1. CASE flight[i] = None
      BY <1>1, <3>1
    <3>2. CASE flight[i] # None
      <4>1. PICK m \in AllRequests : m = flight[i]
        BY <1>2, <3>2
      <4>2. PICK n : n = [m EXCEPT !.mine = FALSE]
        OBVIOUS
      <4>3. /\ n \in AllRequests /\ n.stage = m.stage /\ n.kind = m.kind
            /\ n.q = m.q /\ n.arg = m.arg /\ n.previous = m.previous /\ ~n.mine
        BY <4>2, RequestSteps
      <4>4. n # None
        BY <4>3, RequestFields
      <4>5. flight'[i] = n
        BY <1>1, <3>2, <4>1, <4>2
      <4>. QED
        BY ONLY <3>2, <4>1, <4>3, <4>4, <4>5
    <3>. QED
      BY <3>1, <3>2
  <2>2. flight' \in [Slots -> AllRequests \cup {None}]
    <3>1. \A i \in Slots : (IF flight[i] = None THEN None ELSE [flight[i] EXCEPT !.mine = FALSE])
                             \in AllRequests \cup {None}
      <4>1. \A i \in Slots : flight'[i] = IF flight[i] = None THEN None
                                          ELSE [flight[i] EXCEPT !.mine = FALSE]
        BY <1>1
      <4>. QED
        BY ONLY <2>1, <4>1
    <3>. QED
      BY ONLY <1>1, <3>1
  <2>. QED
    BY ONLY <2>1, <2>2 DEF Like
<1>4. IsFlight(flight', server)
  <2>1. PICK f : f = flight'
    OBVIOUS
  <2>2. f \in [Slots -> AllRequests \cup {None}] /\ Like(f, flight)
    BY <1>3, <2>1
  <2>3. PICK t, ti, ct : t = server /\ ti = title /\ ct = calmTitle
    OBVIOUS
  <2>4. IsFlight(flight, t) /\ TitleInv(ti, ct, flight, t)
    BY <1>2, <2>3
  <2>5. IsFlight(f, t)
    BY ONLY <2>2, <2>4, LikeKeeps
  <2>. QED
    BY <2>1, <2>3, <2>5
<1>5. RequestInv(None, None, None, calmTitle, flight', server)
  BY <1>3, <1>4 DEF RequestInv, Owned, EditorInv, PanelInv, TitleInv, IsKind
<1>6. Covers(flight', flight)
  BY <1>3, LikeCovers
<1>7. QuizInv'
  BY <1>1 DEF IInv, QuizInv
<1>8. PageInv'
  <2>1. acts' \in 0 .. MaxActs
    BY <1>1, <1>2
  <2>2. MountInv(cache, broken, "question", None, None, None)
    BY DEF MountInv
  <2>3. \A i \in Slots : flight'[i] # None /\ flight'[i].stage = "waiting" => fetch # None
    BY <1>6 DEF Covers, IInv, PageInv
  <2>. QED
    BY ONLY <1>1, <2>1, <2>2, <2>3, IInv DEF IInv, PageInv, Views
<1>9. CacheInv'
  <2>1. AllTold' => AllTold
    BY <1>6 DEF AllTold, Covers
  <2>2. (\A i \in Slots : ~IsKind(flight'[i], "reorder"))
          => \A i \in Slots : ~IsKind(flight[i], "reorder")
    BY <1>6 DEF Covers, IsKind
  <2>. QED
    BY ONLY <1>1, <2>1, <2>2, IInv DEF IInv, CacheInv
<1>. QED
  BY ONLY <1>1, <1>5, <1>7, <1>8, <1>9 DEF IInv

\* Coming back: the page is filled from the cache.
LEMMA ReturnStep ==
  ASSUME IInv, Return
  PROVE  IInv'
<1>1. PICK d, b, fl, e, p, calm :
        /\ d = cache /\ b = broken /\ fl = flight /\ e = None /\ p = None
        /\ calm = (Known /\ ~invalid)
  OBVIOUS
<1>2. /\ ~onPage /\ onPage' = TRUE /\ UNCHANGED <<server, invalid, acts>>
      /\ Render(d, b, None, "question", e, p, fl, calm)
      /\ \/ fetch = None /\ fetch' = Sent /\ missed' = FALSE
         \/ /\ fetch # None \/ (cache # None /\ ~invalid /\ ~broken)
            /\ fetch' = fetch /\ missed' = missed
  BY <1>1 DEF Return
<1>3. /\ RequestInv(editor, panel, title, calmTitle, flight, server)
      /\ IsData(d, server) /\ b \in BOOLEAN /\ calm \in BOOLEAN
      /\ title = None /\ editor = None /\ panel = None
      /\ title \in Titles \cup {None} /\ calmTitle \in BOOLEAN
  BY <1>1, <1>2 DEF IInv, PageInv, QuizInv, Known, AtRest
<1>4. /\ IsFlight(fl, server) /\ Owned(fl, e, p) /\ EditorInv(e, fl, server)
      /\ PanelInv(p, fl, server) /\ TitleInv(title, calmTitle, fl, server)
  BY <1>1, <1>3 DEF RequestInv
<1>5. /\ e # None => IsEditor(e) /\ editor # None /\ editor.q = e.q
      /\ p # None => p \in Panels
  BY <1>1
<1>6. calm => AtRest(fl) /\ (d # None => d = server)
  <2>1. AtRest(flight) => AllTold /\ \A i \in Slots : ~IsKind(flight[i], "reorder")
    BY DEF AtRest, AllTold, IsKind
  <2>. QED
    BY <1>1, <2>1 DEF Known, IInv, CacheInv
<1>7. None \in Ids \cup {None} /\ "question" \in Views
  BY DEF Views
<1>8. /\ cache' = d /\ broken' = b /\ view' = "question"
      /\ active' \in Ids \cup {None} /\ title' \in Titles \cup {None}
      /\ calmTitle' \in BOOLEAN /\ (title' = None => d = None)
      /\ MountInv(d, b, "question", active', editor', panel')
      /\ RequestInv(editor', panel', title', calmTitle', flight', server)
      /\ Like(flight', fl)
  <2>1. PICK a, v : a = None /\ v = "question"
    OBVIOUS
  <2>2. a \in Ids \cup {None} /\ v \in Views /\ Render(d, b, a, v, e, p, fl, calm)
    BY <1>2, <1>7, <2>1
  <2>3. /\ cache' = d /\ broken' = b /\ view' = v
        /\ active' \in Ids \cup {None} /\ title' \in Titles \cup {None}
        /\ calmTitle' \in BOOLEAN /\ (title' = None => d = None)
        /\ MountInv(d, b, v, active', editor', panel')
        /\ RequestInv(editor', panel', title', calmTitle', flight', server)
        /\ Like(flight', fl)
    BY ONLY <1>3, <1>4, <1>5, <1>6, <2>2, RenderKeeps
  <2>. QED
    BY <2>1, <2>3
<1>9. Covers(flight', flight)
  BY <1>1, <1>8, LikeCovers
<1>10. Sent # None
  BY BuilderAssumption
<1>11. QuizInv'
  BY <1>1, <1>2, <1>8 DEF IInv, QuizInv
<1>12. \A i \in Slots : flight'[i] # None /\ flight'[i].stage = "waiting" => fetch' # None
  BY <1>2, <1>9, <1>10 DEF Covers, IInv, PageInv
<1>13. PageInv'
  <2>1. missed' \in BOOLEAN
    BY <1>2 DEF IInv, PageInv
  <2>. QED
    BY <1>1, <1>2, <1>3, <1>7, <1>8, <1>12, <2>1 DEF IInv, PageInv
<1>14. CacheInv'
  <2>1. AllTold' => AllTold
    BY <1>9 DEF AllTold, Covers
  <2>2. (\A i \in Slots : ~IsKind(flight'[i], "reorder"))
          => \A i \in Slots : ~IsKind(flight[i], "reorder")
    BY <1>9 DEF Covers, IsKind
  <2>. QED
    BY <1>1, <1>2, <1>8, <1>10, <2>1, <2>2 DEF IInv, CacheInv
<1>. QED
  BY <1>2, <1>8, <1>11, <1>13, <1>14 DEF IInv

-----------------------------------------------------------------------------
(***************************************************************************)
(* The theorems.                                                           *)
(***************************************************************************)
LEMMA InitInv == Init => IInv
<1>1. SUFFICES ASSUME Init PROVE IInv
  OBVIOUS
<1>2. /\ FirstTitle \in Titles \ {Empty} /\ FirstBlurb \in Blurbs /\ FirstText \in Texts
      /\ Originals \in Seq(Ids) /\ Sent # None /\ None \notin Drafts /\ None \notin Titles
      /\ MaxActs \in Nat
  BY BuilderAssumption, DraftAssumption DEF FirstTitle, FirstBlurb, FirstText
<1>3. PICK content : content = [q \in Ids |-> IF q \in Range(Originals) THEN Blank(q, FirstText)
                                              ELSE None]
  OBVIOUS
<1>4. \A q \in Ids : IsDraftOf(q, Blank(q, FirstText))
  BY <1>2, BlankIsDraft
<1>5. Range(Originals) \subseteq Ids
  BY <1>2 DEF Range
<1>6. /\ content \in [Ids -> Drafts \cup {None}]
      /\ \A q \in Range(Originals) : content[q] # None
      /\ \A q \in Ids : content[q] # None => IsDraftOf(q, content[q])
  BY <1>2, <1>3, <1>4, <1>5 DEF IsDraftOf
<1>7. server = [title |-> FirstTitle, blurb |-> FirstBlurb, published |-> FALSE,
                order |-> Originals, content |-> content]
  BY <1>1, <1>3 DEF Init
<1>8. IsGood(server)
  <2>1. server \in Quizzes
    BY <1>2, <1>6, <1>7 DEF Quizzes
  <2>2. server.order = Originals /\ server.content = content
    BY <1>7
  <2>. QED
    BY ONLY <1>6, <2>1, <2>2 DEF IsGood
<1>9. /\ cache = None /\ broken = FALSE /\ invalid = FALSE /\ fetch = Sent
      /\ flight = [i \in Slots |-> None] /\ onPage = TRUE /\ active = None /\ view = "question"
      /\ title = None /\ editor = None /\ panel = None /\ acts = 0 /\ missed = FALSE
      /\ calmTitle = TRUE
  BY <1>1 DEF Init
<1>10. QuizInv
  BY <1>8, <1>9 DEF QuizInv, IsData
<1>11. PageInv
  <2>1. acts \in 0 .. MaxActs
    BY <1>2, <1>9
  <2>2. MountInv(cache, broken, view, active, editor, panel)
    BY ONLY <1>9 DEF MountInv
  <2>3. \A i \in Slots : flight[i] = None
    BY ONLY <1>9
  <2>. QED
    BY ONLY <1>9, <2>1, <2>2, <2>3 DEF PageInv, Views
<1>12. CacheInv
  BY <1>2, <1>9 DEF CacheInv
<1>13. RequestInv(editor, panel, title, calmTitle, flight, server)
  BY <1>9 DEF RequestInv, IsFlight, Owned, EditorInv, PanelInv, TitleInv, IsKind
<1>. QED
  BY <1>10, <1>11, <1>12, <1>13 DEF IInv

LEMMA StutterStep ==
  ASSUME IInv, UNCHANGED vars
  PROVE  IInv'
  BY DEF vars, cacheVars, pageVars, histVars, IInv, QuizInv, PageInv, CacheInv, AllTold

LEMMA NextStep ==
  ASSUME IInv, Next
  PROVE  IInv'
<1>1. ASSUME NEW i \in Slots, Serve(i) \/ Succeeds(i) \/ Fails(i) \/ ReorderFails(i)
      PROVE  IInv'
  BY <1>1, ServeStep, SucceedsStep, FailsStep, ReorderFailsStep
<1>2. CASE ServeFetch \/ FetchEnds \/ FetchFails
  BY <1>2, ServeFetchStep, FetchEndsStep, FetchFailsStep
<1>3. ASSUME NEW q \in Ids, Add(q)
      PROVE  IInv'
  BY <1>3, AddStep
<1>4. ASSUME NEW d, Edit(d)
      PROVE  IInv'
  BY <1>4, EditStep
<1>5. ASSUME NEW b \in Blurbs, EditSettings(b)
      PROVE  IInv'
  BY <1>5, EditSettingsStep
<1>6. ASSUME NEW t \in Titles, Retitle(t)
      PROVE  IInv'
  BY <1>6, RetitleStep
<1>7. ASSUME NEW i \in DOMAIN cache.order,
             Select(i) \/ \E j \in DOMAIN cache.order : Drag(i, j)
      PROVE  IInv'
  BY <1>7, SelectStep, DragStep
<1>8. CASE ToggleSettings \/ SaveFires \/ SettingsFire \/ Publish \/ Delete
  BY <1>8, ToggleSettingsStep, SaveFiresStep, SettingsFireStep, PublishStep, DeleteStep
<1>9. CASE Leave \/ Return
  BY <1>9, LeaveStep, ReturnStep
<1>. QED
  BY <1>1, <1>2, <1>3, <1>4, <1>5, <1>6, <1>7, <1>8, <1>9 DEF Next

\* The inductive invariant of the builder.
THEOREM Invariance == Spec => []IInv
<1>1. IInv /\ [Next]_vars => IInv'
  BY NextStep, StutterStep
<1>. QED
  BY <1>1, InitInv, PTL DEF Spec

\* Every variable keeps its type; what waits for a refetch has one to wait for, and nothing
\* is mounted that the page does not show (QuizBuilderPage).
THEOREM TypeCorrect == Spec => []TypeOK
<1>1. ASSUME IInv PROVE TypeOK
  <2>1. /\ server \in Quizzes /\ cache \in Quizzes \cup {None}
        /\ fetch \in Quizzes \cup {None, Sent}
    BY <1>1 DEF IInv, QuizInv, IsGood, IsData
  <2>2. \A i \in Slots : flight[i] # None => IsRequest(flight[i])
    <3>1. ASSUME NEW i \in Slots, flight[i] # None
          PROVE  IsRequest(flight[i])
      <4>1. flight[i] \in AllRequests
        BY <1>1, <3>1 DEF IInv, RequestInv, IsFlight
      <4>2. flight[i].stage = "waiting" => fetch # None
        BY <1>1, <3>1 DEF IInv, PageInv
      <4>. QED
        BY <4>1, <4>2, RequestFields DEF IsRequest
    <3>. QED
      BY <3>1
  <2>3. editor # None => /\ Shown /\ view = "question" /\ editor.q \in Range(cache.order)
                         /\ editor \in Editors
    BY <1>1 DEF IInv, PageInv, MountInv, Shown, IsEditor
  <2>4. panel # None => Shown /\ view = "settings" /\ panel \in Panels
    BY <1>1 DEF IInv, PageInv, MountInv, Shown
  <2>. QED
    BY <1>1, <2>1, <2>2, <2>3, <2>4 DEF IInv, PageInv, Views, TypeOK
<1>. QED
  BY <1>1, Invariance, PTL

\* What the editor saves can be played, whatever is clicked and however the timers fall
\* (QuestionEditor, MultipleChoiceOptions, useDebouncedSave).
THEOREM SavesStayValid == Spec => []SavesAreValid
<1>1. IInv => SavesAreValid
  BY DEF IInv, RequestInv, IsFlight, IsGoodRequest, IsDraftOf, SavesAreValid
<1>. QED
  BY <1>1, Invariance, PTL

\* A question is never overwritten with the draft of another (QuizBuilderPage's key,
\* useDebouncedSave).
THEOREM ContentsKeepApart == Spec => []ContentsStayApart
<1>1. IInv => ContentsStayApart
  BY DEF IInv, QuizInv, IsGood, IsDraftOf, ContentsStayApart
<1>. QED
  BY <1>1, Invariance, PTL

\* When nothing is under way the page's data are the server's, whatever was overtaken,
\* cancelled, lost or put back before (the mutations' onSuccess, onMutate and onError).
THEOREM CacheComesBack == Spec => []CacheConverges
<1>1. ASSUME IInv, Shown, Known PROVE cache = server
  BY <1>1, ShownPage DEF PageFacts
<1>. QED
  BY <1>1, Invariance, PTL DEF CacheConverges

\* A page that shows no failure and has nothing to send or to wait for shows what is saved
\* (useDebouncedSave, handleTitleBlur).
THEOREM QuietPages == Spec => []QuietPageIsSaved
<1>1. ASSUME IInv PROVE QuietPageIsSaved
  <2>1. EditorInv(editor, flight, server) /\ PanelInv(panel, flight, server)
        /\ TitleInv(title, calmTitle, flight, server)
    BY <1>1 DEF IInv, RequestInv
  <2>2. ASSUME editor # None, editor.calm, ~editor.hook.timer, ~ShowsFailure(editor.hook),
               Saves(flight) = {}
        PROVE  Holds(server.content[editor.q], editor.hook.value)
    <3>1. \A i \in Slots : ~IsKind(flight[i], "save")
      BY <2>1, <2>2 DEF EditorInv, Saves, IsKind
    <3>2. Holds(server.content[editor.q], editor.hook.last) /\ Settles(editor.hook)
      BY <2>1, <2>2, <3>1 DEF EditorInv
    <3>. QED
      BY <2>2, <3>2 DEF Settles
  <2>3. ASSUME panel # None, panel.calm, ~panel.hook.timer, ~ShowsFailure(panel.hook),
               ~Pending("settings")
        PROVE  server.blurb = panel.hook.value
    <3>1. \A i \in Slots : ~IsKind(flight[i], "settings")
      BY <2>3 DEF Pending, IsKind
    <3>2. server.blurb = panel.hook.last /\ Settles(panel.hook)
      BY <2>1, <2>3, <3>1 DEF PanelInv
    <3>. QED
      BY <2>3, <3>2 DEF Settles
  <2>4. ASSUME title \notin {None, Empty}, calmTitle, ~Pending("title")
        PROVE  server.title = title
    <3>1. \A i \in Slots : ~IsKind(flight[i], "title")
      BY <2>4 DEF Pending, IsKind
    <3>. QED
      BY <2>1, <2>4, <3>1 DEF TitleInv
  <2>. QED
    BY <2>2, <2>3, <2>4 DEF QuietPageIsSaved
<1>. QED
  BY <1>1, Invariance, PTL

=============================================================================
