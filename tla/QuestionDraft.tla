--------------------------- MODULE QuestionDraft ---------------------------
(***************************************************************************)
(* What the question editor edits, and the hook that saves it: the rules   *)
(* of its options, as functions of the draft, and useDebouncedSave, as     *)
(* functions of what an editor remembers.                                  *)
(*                                                                         *)
(* A draft's text stands for every field without rules of its own (text,   *)
(* points, time limit); it carries the question it was typed for.  Of the  *)
(* options only their number and which are correct is kept, and of the     *)
(* image whether there is one.                                             *)
(***************************************************************************)
EXTENDS Integers, SequencesExt

CONSTANTS Ids,             \* ids of questions
          Texts,
          MinOptions,      \* 2 in the code
          MaxOptions       \* 10 in the code

ASSUME DraftAssumption ==
  /\ MinOptions \in Nat \ {0} /\ MaxOptions \in Nat /\ 2 \in MinOptions .. MaxOptions
  /\ Texts # {}

Types  == {"single", "multiple"}
Drafts == [text : Ids \X Texts, image : BOOLEAN, type : Types, right : Seq(BOOLEAN)]

\* What handleAddQuestion sends.
Blank(q, t) == [text |-> <<q, t>>, image |-> FALSE, type |-> "single", right |-> <<TRUE, FALSE>>]

Rights(d) == {i \in DOMAIN d.right : d.right[i]}
Only(d, k) == [d EXCEPT !.right = [i \in DOMAIN d.right |-> i = k]]

\* Mutant: the options are left as they are.
NormaliseNothing(d) == d

\* The effect that keeps one correct option of a single-choice question: the first
\* of them, or the first option.
Normalise(d) ==
  IF d.type # "single" \/ d.right = <<>> \/ Cardinality(Rights(d)) = 1 THEN d
  ELSE IF Rights(d) = {} THEN Only(d, 1)
  ELSE Only(d, CHOOSE k \in Rights(d) : \A i \in Rights(d) : k <= i)

ToggleCorrect(d, i) ==
  IF d.type = "single" THEN Only(d, i) ELSE [d EXCEPT !.right[i] = ~@]

\* The field of the text, or one of QuestionSettings that has no rules.
Rewritings(d, q) == {[d EXCEPT !.text = <<q, t>>] : t \in Texts}

\* An image was uploaded, or is removed.
Pictures(d) == {[d EXCEPT !.image = b] : b \in BOOLEAN}

\* The type in QuestionSettings.
Retypings(d) == {[d EXCEPT !.type = t] : t \in Types}

\* The buttons in the row of option i: an option can be removed while more are there
\* than MinOptions.
RowClicks(d, i) ==
  {ToggleCorrect(d, i)}
  \cup (IF Len(d.right) > MinOptions THEN {[d EXCEPT !.right = RemoveAt(@, i)]} ELSE {})

Additions(d) ==
  IF Len(d.right) < MaxOptions THEN {[d EXCEPT !.right = Append(@, FALSE)]} ELSE {}

\* What one click or key of the editor makes of draft d of question q.
Edits(d, q) ==
  Rewritings(d, q) \cup Pictures(d) \cup Retypings(d) \cup Additions(d)
    \cup (UNION {RowClicks(d, i) : i \in DOMAIN d.right})

\* What a save of d makes of the question's content c: an image that was removed is sent
\* as null, which the UPDATE takes for no change.
Merged(c, d) == [d EXCEPT !.image = @ \/ c.image]

\* c is d, as far as a save can make it so.
Holds(c, d) == c = Merged(c, d)

\* Options that the server can play, when their texts are filled in.
Valid(d) ==
  /\ Len(d.right) \in MinOptions .. MaxOptions
  /\ d.type = "single" => Cardinality(Rights(d)) = 1

-----------------------------------------------------------------------------
(***************************************************************************)
(* useDebouncedSave: the value, lastSerialized, whether the timer runs,    *)
(* and the status; "saved", which turns into "idle", is one with it.       *)
(***************************************************************************)
Hooks(V) == [value : V, last : V, timer : BOOLEAN, status : {"idle", "saving", "error"}]

Mounted(v) == [value |-> v, last |-> v, timer |-> FALSE, status |-> "idle"]

\* A render with value v: the timer of another value is cleared, and started unless
\* this one is what was saved last.
Changed(h, v) ==
  IF v = h.value THEN h
  ELSE IF v = h.last THEN [h EXCEPT !.value = v, !.timer = FALSE]
  ELSE [h EXCEPT !.value = v, !.timer = TRUE, !.status = "saving"]

\* The timer fires, and onFlush is called with the value.
Fired(h) == [h EXCEPT !.timer = FALSE]

\* onFlush of value v has resolved.
Flushed(h, v) == [h EXCEPT !.last = v, !.status = "idle"]

\* Mutant: an error is not shown.
FailedQuietly(h) == [h EXCEPT !.status = "idle"]

\* It has thrown.
Failed(h) == [h EXCEPT !.status = "error"]

\* What SaveIndicator shows.
ShowsFailure(h) == h.status = "error"
=============================================================================
