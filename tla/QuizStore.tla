----------------------------- MODULE QuizStore ------------------------------
(***************************************************************************)
(* The questions of one quiz and their answer options (quiz/service.go) as *)
(* editors create, change, delete, reorder, publish and copy them at the   *)
(* same time.  Each request first checks what it was sent and then runs a  *)
(* transaction; requests interleave at every statement that another one    *)
(* can notice.                                                             *)
(*                                                                         *)
(* Transactions are READ COMMITTED: a statement sees the rows committed    *)
(* when it starts, waits for a row that another transaction has written,   *)
(* and then goes on from that row's latest version.  The unique index on   *)
(* (quiz_id, order_idx) is tested row by row; it makes a statement wait    *)
(* for a transaction that may leave the position taken.                    *)
(*                                                                         *)
(* The options of a question are inserted and deleted together: its rows   *)
(* of answer_options are the lists that requests wrote for it, each list   *)
(* named by its request.  Of a list only the number of correct options     *)
(* counts; none stands for every list that is not finished.                *)
(***************************************************************************)
EXTENDS Integers, FiniteSets, Functions

CONSTANTS Questions,       \* ids of questions; a new question is named by its request
          Earlier,         \* the positions of the questions that the quiz has at the start
          Updates, Deletes, Reorders, Publishes, Copies,   \* the other requests
          Shift,           \* reorderShift
          Forms,           \* bound: what creates and updates send
          MaxRequests,     \* bound: requests of a run
          None

Creates  == Questions \ DOMAIN Earlier
Requests == Creates \cup Updates \cup Deletes \cup Reorders \cup Publishes \cup Copies
Writers  == Questions \cup Updates

Types == {"single", "multiple"}
Keys  == 0 .. 2            \* correct options; 2 stands for several
Row   == [idx : Nat, type : Types]

\* What is not sent is None; a new question is sent whole.
Form      == [type : Types \cup {None}, keys : Keys \cup {None}]
WholeForm == [type : Types, keys : Keys]

ASSUME QuizAssumption ==
  /\ IsFiniteSet(Questions)
  /\ IsInjective(Earlier) /\ DOMAIN Earlier \subseteq Questions /\ Range(Earlier) \subseteq Nat
  /\ Forms \subseteq Form
  /\ Shift \in Nat \ {0}
  /\ Questions \cap (Updates \cup Deletes \cup Reorders \cup Publishes \cup Copies) = {}
  /\ Updates \cap (Deletes \cup Reorders \cup Publishes \cup Copies) = {}
  /\ Deletes \cap (Reorders \cup Publishes \cup Copies) = {}
  /\ Reorders \cap (Publishes \cup Copies) = {}
  /\ Publishes \cap Copies = {}
  /\ None \notin Requests \cup Questions \cup Row \cup Nat \cup Types

VARIABLES
  row,          \* questions: idx is order_idx, type is question_type
  options,      \* answer_options: the lists in the table, by question
  keys,         \* what each list holds
  published,    \* the request that published the quiz, or None
  lock,         \* the transaction that has written a question and not ended
  work,         \* its version of that question
  at, arg,      \* where each request is, and what it has read or was sent
  wholeForms,   \* updates come from the builder, which always sends type and options
  lastOrder,    \* history: the order that the last committed reorder asked for
  edited        \* history: a question changed since this publication's first read

tableVars == <<row, options, published>>
lockVars  == <<lock, work>>
vars      == <<tableVars, keys, lockVars, at, arg, wholeForms, lastOrder, edited>>

Existing == {q \in Questions : row[q] # None}
Unordered == [q \in Questions |-> None]

Init ==
  /\ row = [q \in Questions |-> IF q \in Creates THEN None
                                ELSE [idx |-> Earlier[q], type |-> "single"]]
  /\ options = [q \in Questions |-> {q} \ Creates]
  /\ keys = [w \in Writers |-> IF w \in DOMAIN Earlier THEN 1 ELSE None]
  /\ published = None
  /\ lock = [q \in Questions |-> None] /\ work = [q \in Questions |-> None]
  /\ at = [r \in Requests |-> "idle"] /\ arg = [r \in Requests |-> None]
  /\ wholeForms \in BOOLEAN /\ lastOrder = Unordered
  /\ edited = [p \in Publishes |-> FALSE]

-----------------------------------------------------------------------------
(***************************************************************************)
(* Requests and their transactions.                                        *)
(***************************************************************************)
Ended == {"idle", "done", "failed"}

\* A request passes its checks.  One that does not changes nothing.
Open(r, to, a) ==
  /\ at[r] = "idle"
  /\ Cardinality({s \in Requests : at[s] # "idle"}) < MaxRequests
  /\ at' = [at EXCEPT ![r] = to]
  /\ arg' = [arg EXCEPT ![r] = a]
  /\ UNCHANGED <<tableVars, lockVars, wholeForms, lastOrder>>

Step(r, from, to, a) ==
  /\ at[r] = from
  /\ at' = [at EXCEPT ![r] = to]
  /\ arg' = [arg EXCEPT ![r] = a]
  /\ UNCHANGED <<keys, wholeForms>>

Finish(r, from, how) == Step(r, from, how, None)

Free(q) == lock[q] = None
Mine(r) == {q \in Questions : lock[q] = r}

Write(r, q, version) ==
  /\ lock' = [lock EXCEPT ![q] = r]
  /\ work' = [work EXCEPT ![q] = version]
  /\ UNCHANGED <<tableVars, lastOrder, edited>>

Release(r) ==
  /\ lock' = [q \in Questions |-> IF lock[q] = r THEN None ELSE lock[q]]
  /\ work' = [q \in Questions |-> IF lock[q] = r THEN None ELSE work[q]]

\* Mutant: the deferred Rollback is missing.
KeepLocks(r) == UNCHANGED lockVars

Rollback(r) == Release(r)

Abort(r) ==
  /\ Finish(r, at[r], "failed")
  /\ Rollback(r)
  /\ UNCHANGED <<tableVars, lastOrder, edited>>

\* A statement of the request fails, or its context is cancelled.  Before it has
\* written anything, this is as if it had not been sent.
Fail(r) == at[r] \in {"inserted", "options", "updated", "shifting", "setting"} /\ Abort(r)

Written(r) == [q \in Questions |-> IF lock[q] = r THEN work[q] ELSE row[q]]
Edit == edited' = [p \in Publishes |-> TRUE]

-----------------------------------------------------------------------------
(***************************************************************************)
(* The unique index: the transactions that a statement of r which puts a   *)
(* question at x has to wait for, and whether it fails.                    *)
(***************************************************************************)
Positions(q) == {v.idx : v \in {row[q], work[q]} \ {None}}

Awaited(r, x) == {lock[q] : q \in {q \in Questions \ Mine(r) : x \in Positions(q)}} \ {None}

Taken(r, x) == \E q \in Questions :
  \/ q \in Mine(r) /\ work[q].idx = x
  \/ q \in Existing /\ Free(q) /\ row[q].idx = x

\* Statement of r that moves question q to x.
Place(r, from, to, a, q, x, type) ==
  /\ at[r] = from /\ Awaited(r, x) = {}
  /\ IF Taken(r, x)
     THEN Abort(r)
     ELSE Step(r, from, to, a) /\ Write(r, q, [idx |-> x, type |-> type])

-----------------------------------------------------------------------------
(***************************************************************************)
(* Create, update, delete.                                                 *)
(***************************************************************************)
\* validateOptionsDraft: a draft may be unfinished, k = None leaves the options alone.
ValidDraft(type, k) == k # None /\ type = "single" => k <= 1

\* MAX(order_idx) + 1, or 0: of these candidates, the one behind every question.
Candidates        == {0} \cup {row[q].idx + 1 : q \in Existing}
IsNextPosition(x) == \A q \in Existing : row[q].idx < x

\* The INSERT reads the next position when it starts.
StartCreate(c) ==
  \E f \in Forms \cap WholeForm, x \in Candidates :
    /\ ValidDraft(f.type, f.keys) /\ IsNextPosition(x)
    /\ Open(c, "insert", [idx |-> x, type |-> f.type])
    /\ keys' = [keys EXCEPT ![c] = f.keys]
    /\ UNCHANGED edited

InsertQuestion(c) ==
  Place(c, "insert", "inserted", None, c, arg[c].idx, arg[c].type)

CommitCreate(c) ==
  /\ Finish(c, "inserted", "done")
  /\ row' = Written(c) /\ options' = [options EXCEPT ![c] = {c}]
  /\ Release(c) /\ Edit
  /\ UNCHANGED <<published, lastOrder>>

\* Mutant: the options are tested against the type in the table.
StoredType(q, f) == row[q].type

\* effectiveType
EffectiveType(q, f) == IF f.type = None THEN row[q].type ELSE f.type

\* GetQuestionByID and the checks, outside the transaction.
StartUpdate(u) ==
  \E q \in Existing, f \in Forms :
    /\ wholeForms => f \in WholeForm
    /\ ValidDraft(EffectiveType(q, f), f.keys)
    /\ Open(u, "update", [q |-> q, type |-> f.type, erased |-> {}])
    /\ keys' = [keys EXCEPT ![u] = f.keys]
    /\ UNCHANGED edited

\* Mutant: a type that is not sent becomes the default.
Overwrite(u) == [row[arg[u].q] EXCEPT !.type =
                   IF arg[u].type = None THEN "single" ELSE arg[u].type]

\* COALESCE: what is not sent stays as it is now, not as it was read.
Coalesce(u) == [row[arg[u].q] EXCEPT !.type = IF arg[u].type = None THEN @ ELSE arg[u].type]

\* Mutant: the row is only written if there is a column to change.
WriteOnlyColumns(u) ==
  IF arg[u].type = None THEN UNCHANGED <<lockVars, tableVars, lastOrder, edited>>
                        ELSE Write(u, arg[u].q, Coalesce(u))

WriteQuestion(u) == Write(u, arg[u].q, Coalesce(u))

\* A question that was deleted meanwhile gives no row, which is an error.
UpdateQuestion(u) ==
  /\ at[u] = "update" /\ Free(arg[u].q)
  /\ IF arg[u].q \notin Existing
     THEN Abort(u)
     ELSE /\ Step(u, "update", IF keys[u] = None THEN "updated" ELSE "options", arg[u])
          /\ WriteQuestion(u)

DeleteAnswerOptions(u) ==
  /\ Step(u, "options", "updated", [arg[u] EXCEPT !.erased = options[arg[u].q]])
  /\ UNCHANGED <<tableVars, lockVars, lastOrder, edited>>

CommitUpdate(u) ==
  /\ Finish(u, "updated", "done")
  /\ row' = Written(u)
  /\ options' = IF keys[u] = None THEN options
                ELSE [options EXCEPT ![arg[u].q] = (@ \ arg[u].erased) \cup {u}]
  /\ Release(u) /\ Edit
  /\ UNCHANGED <<published, lastOrder>>

StartDelete(d) ==
  /\ \E q \in Existing : Open(d, "delete", q)
  /\ UNCHANGED <<keys, edited>>

\* One statement, which cascades to the options.
DeleteQuestion(d) ==
  /\ at[d] = "delete" /\ Free(arg[d])
  /\ Finish(d, "delete", "done")
  /\ row' = [row EXCEPT ![arg[d]] = None]
  /\ options' = [options EXCEPT ![arg[d]] = {}]
  /\ Edit
  /\ UNCHANGED <<published, lockVars, lastOrder>>

-----------------------------------------------------------------------------
(***************************************************************************)
(* Reorder.                                                                *)
(***************************************************************************)
\* The order must name the questions that the quiz has, each once.
StartReorder(r) ==
  /\ \E f \in Bijection(Existing, 0 .. Cardinality(Existing) - 1) :
       Open(r, "shift", [order |-> [q \in Questions |-> IF q \in Existing THEN f[q] ELSE None],
                         scan |-> {}])
  /\ UNCHANGED <<keys, edited>>

\* ShiftQuestionOrderIdx starts: the rows that it sees.
StartShift(r) ==
  /\ Step(r, "shift", "shifting", [arg[r] EXCEPT !.scan = Existing])
  /\ UNCHANGED <<tableVars, lockVars, lastOrder, edited>>

\* Mutant: it leaves out the rows that other transactions have written.
ToShiftUnlocked(r) == {q \in arg[r].scan \cap Existing : Free(q)}

ToShift(r) == (arg[r].scan \cap Existing) \ Mine(r)

\* It moves the next row, in the order of its scan, which nothing fixes.
ShiftNext(r) ==
  /\ at[r] = "shifting"
  /\ \E q \in ToShift(r) :
       /\ Free(q)
       /\ Place(r, "shifting", "shifting", arg[r], q, row[q].idx + Shift, row[q].type)

EndShift(r) ==
  /\ at[r] = "shifting" /\ ToShift(r) = {}
  /\ Step(r, "shifting", "setting", arg[r])
  /\ UNCHANGED <<tableVars, lockVars, lastOrder, edited>>

\* The questions that SetQuestionOrderIdx has still to place.  One that was deleted
\* meanwhile gives no row, and nobody looks.
ToPlace(r) == {q \in Mine(r) : arg[r].order[q] \notin {None, work[q].idx}}

IsNext(r, q) == q \in ToPlace(r) /\ \A p \in ToPlace(r) : arg[r].order[q] <= arg[r].order[p]

SetNext(r) ==
  /\ at[r] = "setting"
  /\ \E q \in Questions :
       /\ IsNext(r, q)
       /\ Place(r, "setting", "setting", arg[r], q, arg[r].order[q], work[q].type)

CommitReorder(r) ==
  /\ at[r] = "setting" /\ ToPlace(r) = {}
  /\ Finish(r, "setting", "done")
  /\ row' = Written(r) /\ lastOrder' = arg[r].order
  /\ Release(r)
  /\ UNCHANGED <<options, published, edited>>

\* Two or more reorders wait for each other: PostgreSQL makes one fail.
WaitsFor(r) ==
  IF at[r] = "shifting"
  THEN UNION {IF Free(q) THEN Awaited(r, row[q].idx + Shift) ELSE {lock[q]} : q \in ToShift(r)}
  ELSE IF at[r] = "setting"
       THEN UNION {Awaited(r, arg[r].order[q]) : q \in {q \in Questions : IsNext(r, q)}}
       ELSE {}

BreakDeadlock(r) ==
  /\ \E D \in SUBSET Reorders : r \in D /\ \A s \in D : WaitsFor(s) \cap D # {}
  /\ Abort(r)

-----------------------------------------------------------------------------
(***************************************************************************)
(* Publish and duplicate: the questions and their options are read by two  *)
(* statements, which see different states of the tables.                   *)
(***************************************************************************)
ReadQuestions(p) ==
  /\ Open(p, "readOptions", [row |-> row, options |-> None])
  /\ edited' = [q \in Publishes |-> edited[q] /\ q # p]
  /\ UNCHANGED keys

ReadOptions(p) ==
  /\ Step(p, "readOptions", IF p \in Copies THEN "copy" ELSE "publish",
          [arg[p] EXCEPT !.options = options])
  /\ UNCHANGED <<tableVars, lockVars, lastOrder, edited>>

\* Mutant: a single-choice question may have several correct options.
SomeCorrect(type, lists) == \E w \in lists : keys[w] >= 1

\* validateQuestionForPublish: the correct options of all lists are at least one, or
\* exactly one.
Playable(type, lists) ==
  \E w \in lists :
    IF type = "single" THEN keys[w] = 1 /\ \A v \in lists \ {w} : keys[v] = 0
                       ELSE keys[w] >= 1

QuizPlayable(rows, lists) ==
  /\ \E q \in Questions : rows[q] # None
  /\ \A q \in Questions : rows[q] # None => Playable(rows[q].type, lists[q])

SetPublished(p) ==
  /\ at[p] = "publish"
  /\ published' = IF QuizPlayable(arg[p].row, arg[p].options) THEN p ELSE published
  /\ Finish(p, "publish", "done")
  /\ UNCHANGED <<row, options, lockVars, lastOrder, edited>>

\* One statement, without checks.
Unpublish ==
  /\ published # None
  /\ published' = None
  /\ UNCHANGED <<row, options, keys, lockVars, at, arg, wholeForms, lastOrder, edited>>

\* The copy is what was read; nobody else sees it before it is committed.
InsertCopy(c) ==
  /\ Step(c, "copy", "done", arg[c])
  /\ UNCHANGED <<tableVars, lockVars, lastOrder, edited>>

-----------------------------------------------------------------------------
Start(r) ==
  \/ r \in Creates /\ StartCreate(r)
  \/ r \in Updates /\ StartUpdate(r)
  \/ r \in Deletes /\ StartDelete(r)
  \/ r \in Reorders /\ StartReorder(r)
  \/ r \in Publishes \cup Copies /\ ReadQuestions(r)

\* The next statement of a request.
Statement(r) ==
  \/ r \in Creates /\ (InsertQuestion(r) \/ CommitCreate(r))
  \/ r \in Updates /\ (UpdateQuestion(r) \/ DeleteAnswerOptions(r) \/ CommitUpdate(r))
  \/ r \in Deletes /\ DeleteQuestion(r)
  \/ /\ r \in Reorders
     /\ \/ StartShift(r) \/ ShiftNext(r) \/ EndShift(r) \/ SetNext(r)
        \/ CommitReorder(r) \/ BreakDeadlock(r)
  \/ r \in Publishes \cup Copies /\ ReadOptions(r)
  \/ r \in Publishes /\ SetPublished(r)
  \/ r \in Copies /\ InsertCopy(r)

Next ==
  \/ \E r \in Requests : Start(r) \/ Statement(r) \/ Fail(r)
  \/ Unpublish

Spec == Init /\ [][Next]_vars

\* The server goes on as long as the next statement of some request can run.
FairSpec == Spec /\ WF_vars(\E r \in Requests : Statement(r))

-----------------------------------------------------------------------------
(***************************************************************************)
(* What the tables promise.                                                *)
(***************************************************************************)
Waiting == {"insert", "inserted", "update", "options", "updated", "delete", "shift",
            "shifting", "setting", "readOptions", "copy", "publish"}
Order   == [Questions -> Nat \cup {None}]
Lists   == [Questions -> SUBSET Writers]

TableTypes ==
  /\ row \in [Questions -> Row \cup {None}]
  /\ options \in Lists
  /\ keys \in [Writers -> Keys \cup {None}]
  /\ published \in Publishes \cup {None}
  /\ wholeForms \in BOOLEAN /\ lastOrder \in Order /\ edited \in [Publishes -> BOOLEAN]

LockTypes ==
  /\ lock \in [Questions -> Creates \cup Updates \cup Reorders \cup {None}]
  /\ work \in [Questions -> Row \cup {None}]
  /\ at \in [Requests -> Ended \cup Waiting]
  /\ \A q \in Questions : Free(q) \/ at[lock[q]] \notin Ended

UpdateArg  == [q : Questions, type : Types \cup {None}, erased : SUBSET Writers]
ReorderArg == [order : Order, scan : SUBSET Questions]
ReadArg    == [row : [Questions -> Row \cup {None}], options : Lists \cup {None}]

ArgTypes ==
  /\ DOMAIN arg = Requests
  /\ \A c \in Creates : arg[c] \in Row \cup {None}
  /\ \A u \in Updates : arg[u] \in UpdateArg \cup {None}
  /\ \A d \in Deletes : arg[d] \in Questions \cup {None}
  /\ \A r \in Reorders : arg[r] \in ReorderArg \cup {None}
  /\ \A p \in Publishes \cup Copies : arg[p] \in ReadArg \cup {None}

\* Every variable has its type; a written question belongs to a transaction that has
\* not ended, and no two questions share a position.
TypeOK ==
  /\ TableTypes /\ LockTypes /\ ArgTypes
  /\ \A p, q \in Existing : row[p].idx = row[q].idx => p = q

\* However updates overlap, the options of a question are one request's list, whole:
\* never those of two editors together, in the quiz and in its copies.
OptionsAreOneList ==
  \A q \in Questions :
    /\ \A v, w \in options[q] : v = w
    /\ \A c \in Copies : at[c] = "done" => \A v, w \in arg[c].options[q] : v = w

\* Two reorders never mix: every question that the last one named and that still
\* exists is where that one put it, through creates, updates and failed reorders.
LastReorderHolds ==
  \A q \in Existing : lastOrder[q] # None => row[q].idx = lastOrder[q]

\* As long as updates send the type together with the options, as the builder does, a
\* single-choice question never has several correct options, even if an update was
\* checked against a question that another one has changed since.
SingleHasOneCorrect ==
  wholeForms =>
    \A q \in Existing : row[q].type = "single" => \A w \in options[q] : keys[w] <= 1

\* A quiz that was published, and not edited since that request first read it, can be
\* played, although its questions and options were read apart.
PublishedIsPlayable ==
  published # None /\ ~edited[published] =>
    /\ Existing # {}
    /\ \A q \in Existing : \E w \in options[q] :
         IF row[q].type = "single" THEN keys[w] = 1 ELSE keys[w] >= 1

\* What the players of a quiz rely on: each question has the options of one request, as
\* many correct ones as its type allows, and a published quiz can be played.
QuestionsStayWhole ==
  /\ OptionsAreOneList
  /\ SingleHasOneCorrect
  /\ PublishedIsPlayable

\* Nobody undoes another's edit: the type of a question changes only in the commit of
\* an update that sent it, its position only in that of a reorder (which puts a question
\* that it does not name behind the others), and its options only in that of an update
\* that sent some.
Commits(r) == at[r] \notin Ended /\ at'[r] = "done"
EditsKeepToTheirFields == [][
  \A q \in Existing : row'[q] # None =>
    /\ row'[q].type # row[q].type =>
         \E u \in Updates : Commits(u) /\ arg[u].q = q /\ arg[u].type = row'[q].type
    /\ row'[q].idx # row[q].idx => \E r \in Reorders : 
         Commits(r) /\ row'[q].idx = IF arg[r].order[q] = None THEN row[q].idx + Shift
                                                              ELSE arg[r].order[q]
    /\ options'[q] # options[q] => \E u \in Updates : Commits(u) /\ options'[q] = {u}]_vars

\* Every request is answered: none waits for ever for a row or a position.
RequestsEnd == []<>(\A r \in Requests : at[r] \in Ended)
=============================================================================
