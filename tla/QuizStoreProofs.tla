--------------------------- MODULE QuizStoreProofs ---------------------------
(***************************************************************************)
(* Proofs about QuizStore, for any number of questions and of requests of  *)
(* every kind, all under way at the same time.                             *)
(***************************************************************************)
EXTENDS QuizStore, FiniteSetTheorems, TLAPS

\* Each kind of request stays in its own places and holds there what it needs.
HasRead(to, a) == a \in ReadArg /\ (to # "readOptions" => a.options \in Lists)

Suits(r, to, a) ==
  /\ r \in Creates => /\ to \in Ended \cup {"insert", "inserted"}
                      /\ a \in Row \/ (a = None /\ to # "insert")
  /\ r \in Updates => /\ to \in Ended \cup {"update", "options", "updated"}
                      /\ a \in UpdateArg \/ (a = None /\ to \in Ended)
  /\ r \in Deletes => /\ to \in Ended \cup {"delete"}
                      /\ a \in Questions \/ (a = None /\ to \in Ended)
  /\ r \in Reorders => /\ to \in Ended \cup {"shift", "shifting", "setting"}
                       /\ a \in ReorderArg \/ (a = None /\ to \in Ended)
  /\ r \in Publishes => /\ to \in Ended \cup {"readOptions", "publish"}
                        /\ HasRead(to, a) \/ (a = None /\ to \in Ended)
  /\ r \in Copies => /\ to \in Ended \cup {"readOptions", "copy"}
                     /\ HasRead(to, a) \/ (a = None /\ to \in {"idle", "failed"})

RequestInv == DOMAIN arg = Requests /\ \A r \in Requests : Suits(r, at[r], arg[r])

\* A written question has one version that is not committed, and it differs from the
\* committed one only in what its transaction writes.
VersionInv == \A q \in Questions :
  /\ Free(q) <=> work[q] = None
  /\ lock[q] \notin Creates \cup {None} => row[q] # None

CreateInv == \A c \in Creates :
  /\ row[c] # None => at[c] = "done"
  /\ at[c] = "inserted" => lock[c] = c
  /\ \A q \in Questions : lock[q] = c => q = c /\ at[c] = "inserted"

UpdateInv == \A u \in Updates :
  /\ \A q \in Questions : lock[q] = u => at[u] \in {"options", "updated"} /\ q = arg[u].q
  /\ at[u] \in {"options", "updated"} =>
       lock[arg[u].q] = u /\ work[arg[u].q] = Coalesce(u)

ShiftInv == \A r \in Reorders, q \in Questions : lock[q] = r =>
  /\ at[r] \in {"shifting", "setting"}
  /\ work[q].type = row[q].type
  /\ \/ work[q].idx = row[q].idx + Shift
     \/ arg[r].order[q] # None /\ work[q].idx = arg[r].order[q]

LockInv == VersionInv /\ CreateInv /\ UpdateInv /\ ShiftInv

\* However the open transactions end, no two questions share a position: two versions
\* share one only if they cannot both be committed.
PositionInv ==
  \A p, q \in Questions : p # q =>
    /\ row[p] # None /\ row[q] # None => row[p].idx # row[q].idx
    /\ ~Free(p) /\ ~Free(q) => work[p].idx # work[q].idx
    /\ row[p] # None /\ ~Free(q) /\ lock[p] # lock[q] => row[p].idx # work[q].idx

\* An update that is about to commit has deleted the list that is still in the table;
\* only requests that are done have lists there.
ListInv ==
  /\ OptionsAreOneList
  /\ \A c \in Copies, q \in Questions :
       at[c] = "copy" => \A v, w \in arg[c].options[q] : v = w
  /\ \A u \in Updates :
       at[u] = "updated" /\ keys[u] # None => arg[u].erased = options[arg[u].q]
  /\ \A q \in Questions : \A w \in options[q] :
       /\ w \in Creates \cup Updates => at[w] = "done"
       /\ keys[w] # None
  /\ \A c \in Creates : at[c] \in {"insert", "inserted"} => keys[c] # None

\* A reorder names, and finds, only questions whose request is done.
NamedInv == \A c \in Creates :
  /\ lastOrder[c] # None => at[c] = "done"
  /\ \A r \in Reorders :
       at[r] \notin Ended /\ (arg[r].order[c] # None \/ c \in arg[r].scan) => at[c] = "done"

\* A reorder that is setting positions holds every question that it named and that
\* still exists: a question that was deleted does not come back.
HeldInv == \A r \in Reorders, q \in Questions :
  at[r] \in {"shifting", "setting"} /\ row[q] # None =>
    /\ arg[r].order[q] # None => q \in arg[r].scan
    /\ at[r] = "setting" /\ q \in arg[r].scan => lock[q] = r

ReorderInv == LastReorderHolds /\ NamedInv /\ HeldInv

\* What is sent whole is checked whole.
CheckedInv ==
  /\ \A c \in Creates : /\ at[c] = "insert" => ValidDraft(arg[c].type, keys[c])
                        /\ at[c] = "inserted" => ValidDraft(work[c].type, keys[c])
  /\ wholeForms => \A u \in Updates : at[u] \notin Ended =>
       arg[u].type # None /\ keys[u] # None /\ ValidDraft(arg[u].type, keys[u])

WholeInv == SingleHasOneCorrect /\ CheckedInv

\* As long as nothing was edited, a publication has read what is in the tables.
AsRead(p) == \A q \in Questions : /\ row[q] = None <=> arg[p].row[q] = None
                                  /\ row[q] # None => row[q].type = arg[p].row[q].type
PublishInv ==
  /\ PublishedIsPlayable
  /\ published # None => at[published] = "done"
  /\ \A p \in Publishes : at[p] \notin Ended /\ ~edited[p] =>
       AsRead(p) /\ (at[p] = "publish" => arg[p].options = options)

BaseInv == TableTypes /\ LockTypes /\ RequestInv /\ LockInv

IInv == BaseInv /\ PositionInv /\ ListInv /\ ReorderInv /\ WholeInv /\ PublishInv

-----------------------------------------------------------------------------
(***************************************************************************)
(* Steps.                                                                  *)
(***************************************************************************)
\* The new position of a question is free, and stays free however the other open
\* transactions end.
NewPosition(r, x) == \A q \in Questions :
  IF q \in Mine(r) THEN work[q].idx # x
                   ELSE /\ row[q] # None => row[q].idx # x
                        /\ ~Free(q) => work[q].idx # x

\* A statement that moves a question, or updates it, and does not fail.
Moves(r, from, to, a, q, x, type) ==
  /\ at[r] = from /\ NewPosition(r, x)
  /\ Step(r, from, to, a)
  /\ Write(r, q, [idx |-> x, type |-> type])
Inserts(c) == Moves(c, "insert", "inserted", None, c, arg[c].idx, arg[c].type)
Shifts(r, q) ==
  /\ at[r] = "shifting" /\ q \in ToShift(r) /\ Free(q)
  /\ Moves(r, "shifting", "shifting", arg[r], q, row[q].idx + Shift, row[q].type)
Sets(r, q) ==
  /\ at[r] = "setting" /\ q \in ToPlace(r)
  /\ Moves(r, "setting", "setting", arg[r], q, arg[r].order[q], work[q].type)
Rewrites(u) ==
  /\ at[u] = "update" /\ arg[u].q \in Existing /\ Free(arg[u].q)
  /\ Step(u, "update", IF keys[u] = None THEN "updated" ELSE "options", arg[u])
  /\ Write(u, arg[u].q, Coalesce(u))

\* A transaction ends without a commit.
Aborts(r) == at[r] \notin Ended /\ Abort(r)

StepOf ==
  \/ \E c \in Creates : StartCreate(c) \/ Inserts(c) \/ CommitCreate(c)
  \/ \E u \in Updates :
       StartUpdate(u) \/ Rewrites(u) \/ DeleteAnswerOptions(u) \/ CommitUpdate(u)
  \/ \E d \in Deletes : StartDelete(d) \/ DeleteQuestion(d)
  \/ \E r \in Reorders : \/ StartReorder(r) \/ StartShift(r) \/ EndShift(r) \/ CommitReorder(r)
                         \/ \E q \in Questions : Shifts(r, q) \/ Sets(r, q)
  \/ \E p \in Publishes \cup Copies : ReadQuestions(p) \/ ReadOptions(p)
  \/ \E p \in Publishes : SetPublished(p)
  \/ Unpublish
  \/ \E c \in Copies : InsertCopy(c)
  \/ \E r \in Creates \cup Updates \cup Reorders : Aborts(r)

\* The unique index: a statement waits, fails, or moves its question to a position that
\* stays free.
LEMMA PlaceMoves ==
  ASSUME BaseInv, NEW r \in Requests, NEW from, NEW to, NEW a, NEW q \in Questions,
         NEW x, NEW type, Place(r, from, to, a, q, x, type)
  PROVE  \/ at[r] = from /\ Abort(r)
         \/ Moves(r, from, to, a, q, x, type)
<1>1. CASE Taken(r, x)
  BY <1>1 DEF Place
<1>2. CASE ~Taken(r, x)
  <2>1. ASSUME NEW p \in Questions, p \notin Mine(r), ~Free(p)
        PROVE  x \notin Positions(p)
    BY <2>1 DEF Place, Awaited, Free
  <2>2. NewPosition(r, x)
    BY <1>2, <2>1 DEF NewPosition, Taken, Positions, Existing, BaseInv, LockInv,
       VersionInv, LockTypes, TableTypes
  <2>. QED
    BY <1>2, <2>2 DEF Place, Moves
<1>. QED
  BY <1>1, <1>2

LEMMA NextSteps ==
  ASSUME BaseInv, [Next]_vars
  PROVE  StepOf \/ UNCHANGED vars
<1>. USE QuizAssumption DEF BaseInv
<1>1. ASSUME NEW c \in Creates, InsertQuestion(c) PROVE Inserts(c) \/ Aborts(c)
  BY <1>1, PlaceMoves DEF InsertQuestion, Inserts, Aborts, Ended, Creates, Requests
<1>2. ASSUME NEW u \in Updates, UpdateQuestion(u) PROVE Rewrites(u) \/ Aborts(u)
  BY <1>2 DEF UpdateQuestion, WriteQuestion, Rewrites, Aborts, Ended
<1>3. ASSUME NEW r \in Reorders, ShiftNext(r)
      PROVE  (\E q \in Questions : Shifts(r, q)) \/ Aborts(r)
  <2>1. PICK q \in ToShift(r) :
          Free(q) /\ Place(r, "shifting", "shifting", arg[r], q, row[q].idx + Shift, row[q].type)
    BY <1>3 DEF ShiftNext
  <2>2. q \in Questions /\ r \in Requests
    BY DEF ToShift, Existing, Requests
  <2>. QED
    BY <1>3, <2>1, <2>2, PlaceMoves DEF ShiftNext, Shifts, Aborts, Ended
<1>4. ASSUME NEW r \in Reorders, SetNext(r)
      PROVE  (\E q \in Questions : Sets(r, q)) \/ Aborts(r)
  <2>1. PICK q \in Questions :
          IsNext(r, q) /\ Place(r, "setting", "setting", arg[r], q, arg[r].order[q], work[q].type)
    BY <1>4 DEF SetNext
  <2>2. r \in Requests
    BY DEF Requests
  <2>. QED
    BY <1>4, <2>1, <2>2, PlaceMoves DEF SetNext, IsNext, Sets, Aborts, Ended
<1>5. ASSUME NEW r \in Reorders, BreakDeadlock(r) PROVE Aborts(r)
  <2>1. at[r] \in {"shifting", "setting"}
    BY <1>5 DEF BreakDeadlock, WaitsFor
  <2>. QED
    BY <1>5, <2>1 DEF BreakDeadlock, Aborts, Ended
<1>6. ASSUME NEW r \in Requests, Fail(r) PROVE \E s \in Creates \cup Updates \cup Reorders : Aborts(s)
  <2>1. r \in Creates \cup Updates \cup Reorders
    BY <1>6 DEF Fail, Requests, RequestInv, Suits, Ended
  <2>. QED
    BY <1>6, <2>1 DEF Fail, Aborts, Ended
<1>. QED
  BY <1>1, <1>2, <1>3, <1>4, <1>5, <1>6 DEF Next, Start, Statement, StepOf

\* What requests hold has its type.
LEMMA ArgsAreTyped == BaseInv => ArgTypes
  BY DEF BaseInv, RequestInv, Suits, HasRead, ArgTypes, Requests

LEMMA SuitsStep ==
  ASSUME BaseInv, NEW r \in Requests, NEW to, NEW a, Suits(r, to, a),
         at' = [at EXCEPT ![r] = to], arg' = [arg EXCEPT ![r] = a]
  PROVE  RequestInv'
<1>1. DOMAIN at = Requests /\ DOMAIN arg = Requests
  BY DEF BaseInv, LockTypes, RequestInv
<1>2. ASSUME NEW s \in Requests PROVE Suits(s, at'[s], arg'[s])
  BY <1>1, <1>2 DEF BaseInv, RequestInv
<1>. QED
  BY <1>1, <1>2 DEF RequestInv, Suits

\* The kinds of requests are disjoint.
LEMMA Kinds ==
  /\ Creates \subseteq Questions
  /\ \A r \in Creates : r \notin Updates /\ r \notin Deletes /\ r \notin Reorders
                        /\ r \notin Publishes /\ r \notin Copies /\ r # None
  /\ \A r \in Updates : r \notin Deletes /\ r \notin Reorders
                        /\ r \notin Publishes /\ r \notin Copies /\ r # None
  /\ \A r \in Deletes : r \notin Reorders /\ r \notin Publishes /\ r \notin Copies /\ r # None
  /\ \A r \in Reorders : r \notin Publishes /\ r \notin Copies /\ r # None
  /\ \A r \in Publishes : r \notin Copies /\ r # None
  /\ None \notin Row /\ None \notin Nat /\ None \notin Types /\ None \notin Questions
  BY QuizAssumption DEF Creates, Requests

\* What a request that is under way holds.
LEMMA UnderWay ==
  ASSUME BaseInv
  PROVE  /\ \A c \in Creates : at[c] = "insert" => arg[c] \in Row
         /\ \A u \in Updates : at[u] \notin Ended => arg[u] \in UpdateArg /\ arg[u].q \in Questions
         /\ \A d \in Deletes : at[d] \notin Ended => arg[d] \in Questions
         /\ \A r \in Reorders : at[r] \notin Ended => /\ arg[r] \in ReorderArg
                                                      /\ arg[r].order \in Order
  BY DEF BaseInv, RequestInv, Suits, Requests, Ended, UpdateArg, ReorderArg

\* Every step keeps the types of the tables.
LEMMA TableTypesStep ==
  ASSUME BaseInv, StepOf
  PROVE  TableTypes'
<1>. USE QuizAssumption DEF BaseInv, TableTypes, LockTypes, RequestInv, Writers, Order,
     tableVars, lockVars
<1>1. ASSUME NEW c \in Creates, StartCreate(c) PROVE TableTypes'
  BY <1>1 DEF StartCreate, Open, Form, WholeForm
<1>2. ASSUME NEW c \in Creates, CommitCreate(c) PROVE TableTypes'
  <2>1. row' \in [Questions -> Row \cup {None}]
    BY <1>2 DEF CommitCreate, Written
  <2>2. options' \in Lists
    BY <1>2 DEF CommitCreate, Lists, Creates
  <2>. QED
    BY <1>2, <2>1, <2>2 DEF CommitCreate, Finish, Step, Edit
<1>3. ASSUME NEW u \in Updates, StartUpdate(u) PROVE TableTypes'
  BY <1>3 DEF StartUpdate, Open, Form
<1>4. ASSUME NEW u \in Updates, CommitUpdate(u) PROVE TableTypes'
  <2>1. row' \in [Questions -> Row \cup {None}]
    BY <1>4 DEF CommitUpdate, Written
  <2>2. options' \in Lists
    <3>1. arg[u] \in UpdateArg
      BY <1>4 DEF CommitUpdate, Finish, Step, Suits, Ended, Requests
    <3>. QED
      BY <1>4, <3>1 DEF CommitUpdate, Lists, UpdateArg
  <2>. QED
    BY <1>4, <2>1, <2>2 DEF CommitUpdate, Finish, Step, Edit
<1>5. ASSUME NEW d \in Deletes, DeleteQuestion(d) PROVE TableTypes'
  <2>1. arg[d] \in Questions
    BY <1>5 DEF DeleteQuestion, Finish, Step, Suits, Requests, Ended, Creates
  <2>2. row' \in [Questions -> Row \cup {None}] /\ options' \in Lists
    BY <1>5, <2>1 DEF DeleteQuestion, Lists
  <2>. QED
    BY <1>5, <2>2 DEF DeleteQuestion, Finish, Step, Edit
<1>6. ASSUME NEW r \in Reorders, CommitReorder(r) PROVE TableTypes'
  <2>1. row' \in [Questions -> Row \cup {None}]
    BY <1>6 DEF CommitReorder, Written
  <2>2. arg[r].order \in Order
    BY <1>6 DEF CommitReorder, Suits, ReorderArg, Requests, Ended
  <2>. QED
    BY <1>6, <2>1, <2>2 DEF CommitReorder, Finish, Step
<1>7. ASSUME NEW p \in Publishes \cup Copies, ReadQuestions(p) PROVE TableTypes'
  BY <1>7 DEF ReadQuestions, Open
<1>8. ASSUME NEW p \in Publishes, SetPublished(p) PROVE TableTypes'
  BY <1>8 DEF SetPublished, Finish, Step
<1>9. ASSUME Unpublish PROVE TableTypes'
  BY <1>9 DEF Unpublish
<1>10. CASE UNCHANGED <<tableVars, keys, wholeForms, lastOrder, edited>>
  BY <1>10
<1>. QED
  BY <1>1, <1>2, <1>3, <1>4, <1>5, <1>6, <1>7, <1>8, <1>9, <1>10 DEF StepOf, Inserts,
     Moves, NewPosition, Step, Write, Mine, Rewrites, Coalesce, DeleteAnswerOptions,
     StartDelete, Open, StartReorder, StartShift, Shifts, ToShift, EndShift, Sets,
     ToPlace, ReadOptions, InsertCopy, Aborts, Abort, Finish, Rollback, Release

\* Every step keeps the locks with open transactions.
LEMMA LockTypesStep ==
  ASSUME BaseInv, StepOf
  PROVE  LockTypes'
<1>. USE QuizAssumption DEF BaseInv, TableTypes, LockTypes, RequestInv, LockInv,
     VersionInv, CreateInv, UpdateInv, ShiftInv, Requests, Free, Ended, Waiting, Row,
     tableVars, lockVars
<1>1. ASSUME NEW c \in Creates, StartCreate(c) PROVE LockTypes'
  BY <1>1 DEF StartCreate, Open
<1>2. ASSUME NEW c \in Creates, Inserts(c) PROVE LockTypes'
  <2>1. [idx |-> arg[c].idx, type |-> arg[c].type] \in Row
    BY <1>2 DEF Inserts, Moves, Suits, ReorderArg, UpdateArg, Order, Mine, ToShift,
       ToPlace, Existing
  <2>2. /\ lock' = [lock EXCEPT ![c] = c]
        /\ work' = [work EXCEPT ![c] = [idx |-> arg[c].idx, type |-> arg[c].type]]
        /\ at' = [at EXCEPT ![c] = "inserted"]
    BY <1>2 DEF Inserts, Moves, Step, Write
  <2>3. c \in Questions
    BY <1>2 DEF Inserts, Existing, Creates
  <2>. QED
    BY <2>1, <2>2, <2>3
<1>3. ASSUME NEW c \in Creates, CommitCreate(c) PROVE LockTypes'
  BY <1>3 DEF CommitCreate, Finish, Step, Written, Release, Edit
<1>4. ASSUME NEW u \in Updates, StartUpdate(u) PROVE LockTypes'
  BY <1>4 DEF StartUpdate, Open
<1>5. ASSUME NEW u \in Updates, Rewrites(u) PROVE LockTypes'
  <2>1. Coalesce(u) \in Row
    BY <1>5 DEF Rewrites, Coalesce, Suits, ReorderArg, UpdateArg, Order, Mine, ToShift,
       ToPlace, Existing
  <2>2. /\ lock' = [lock EXCEPT ![arg[u].q] = u]
        /\ work' = [work EXCEPT ![arg[u].q] = Coalesce(u)]
        /\ at' = [at EXCEPT ![u] = IF keys[u] = None THEN "updated" ELSE "options"]
    BY <1>5 DEF Rewrites, Step, Write
  <2>3. arg[u].q \in Questions
    BY <1>5 DEF Rewrites, Existing, Creates
  <2>. QED
    BY <2>1, <2>2, <2>3
<1>6. ASSUME NEW u \in Updates, DeleteAnswerOptions(u) PROVE LockTypes'
  BY <1>6 DEF DeleteAnswerOptions, Step
<1>7. ASSUME NEW u \in Updates, CommitUpdate(u) PROVE LockTypes'
  BY <1>7 DEF CommitUpdate, Finish, Step, Written, Release, Edit
<1>8. ASSUME NEW d \in Deletes, StartDelete(d) PROVE LockTypes'
  BY <1>8 DEF StartDelete, Open
<1>9. ASSUME NEW d \in Deletes, DeleteQuestion(d) PROVE LockTypes'
  BY <1>9 DEF DeleteQuestion, Finish, Step, Edit, Creates
<1>10. ASSUME NEW r \in Reorders, StartReorder(r) PROVE LockTypes'
  BY <1>10 DEF StartReorder, Open
<1>11. ASSUME NEW r \in Reorders, StartShift(r) PROVE LockTypes'
  BY <1>11 DEF StartShift, Step
<1>12. ASSUME NEW r \in Reorders, NEW q \in Questions, Shifts(r, q) PROVE LockTypes'
  <2>1. [idx |-> row[q].idx + Shift, type |-> row[q].type] \in Row
    BY <1>12 DEF Shifts, Suits, ReorderArg, UpdateArg, Order, Mine, ToShift, ToPlace,
       Existing
  <2>2. /\ lock' = [lock EXCEPT ![q] = r]
        /\ work' = [work EXCEPT ![q] = [idx |-> row[q].idx + Shift, type |-> row[q].type]]
        /\ at' = [at EXCEPT ![r] = "shifting"]
    BY <1>12 DEF Shifts, Moves, Step, Write
  <2>3. q \in Questions
    BY <1>12 DEF Shifts, Existing, Creates
  <2>. QED
    BY <2>1, <2>2, <2>3
<1>13. ASSUME NEW r \in Reorders, EndShift(r) PROVE LockTypes'
  BY <1>13 DEF EndShift, Step, ToShift, Mine
<1>14. ASSUME NEW r \in Reorders, NEW q \in Questions, Sets(r, q) PROVE LockTypes'
  <2>1. [idx |-> arg[r].order[q], type |-> work[q].type] \in Row
    BY <1>14 DEF Sets, Suits, ReorderArg, UpdateArg, Order, Mine, ToShift, ToPlace,
       Existing
  <2>2. /\ lock' = [lock EXCEPT ![q] = r]
        /\ work' = [work EXCEPT ![q] = [idx |-> arg[r].order[q], type |-> work[q].type]]
        /\ at' = [at EXCEPT ![r] = "setting"]
    BY <1>14 DEF Sets, Moves, Step, Write
  <2>3. q \in Questions
    BY <1>14 DEF Sets, Existing, Creates
  <2>. QED
    BY <2>1, <2>2, <2>3
<1>15. ASSUME NEW r \in Reorders, CommitReorder(r) PROVE LockTypes'
  BY <1>15 DEF CommitReorder, ToPlace, Mine, Finish, Step, Written, Release
<1>16. ASSUME NEW p \in Publishes \cup Copies, ReadQuestions(p) PROVE LockTypes'
  BY <1>16 DEF ReadQuestions, Open
<1>17. ASSUME NEW p \in Publishes \cup Copies, ReadOptions(p) PROVE LockTypes'
  BY <1>17 DEF ReadOptions, Step
<1>18. ASSUME NEW p \in Publishes, SetPublished(p) PROVE LockTypes'
  BY <1>18 DEF SetPublished, Finish, Step, Creates
<1>19. ASSUME Unpublish PROVE LockTypes'
  BY <1>19 DEF Unpublish
<1>20. ASSUME NEW c \in Copies, InsertCopy(c) PROVE LockTypes'
  BY <1>20 DEF InsertCopy, Step, Creates
<1>21. ASSUME NEW r \in Creates \cup Updates \cup Reorders, Aborts(r) PROVE LockTypes'
  BY <1>21 DEF Aborts, Abort, Finish, Step, Rollback, Release
<1>. QED
  BY <1>1, <1>2, <1>3, <1>4, <1>5, <1>6, <1>7, <1>8, <1>9, <1>10, <1>11, <1>12, <1>13,
     <1>14, <1>15, <1>16, <1>17, <1>18, <1>19, <1>20, <1>21 DEF StepOf

\* Every step keeps each request in its places.
LEMMA RequestStep ==
  ASSUME BaseInv, StepOf
  PROVE  RequestInv'
<1>. USE QuizAssumption DEF BaseInv, TableTypes, LockTypes, RequestInv, Ended, Requests,
     Suits, tableVars, lockVars
<1>1. ASSUME NEW c \in Creates, StartCreate(c) PROVE RequestInv'
  <2>1. PICK f \in Forms \cap WholeForm, x \in Candidates :
          Open(c, "insert", [idx |-> x, type |-> f.type])
    BY <1>1 DEF StartCreate
  <2>2. Suits(c, "insert", [idx |-> x, type |-> f.type])
    BY DEF Suits, Creates, WholeForm, Candidates, Existing, Row
  <2>. QED
    BY <2>1, <2>2, SuitsStep DEF Open
<1>2. ASSUME NEW c \in Creates, Inserts(c) PROVE RequestInv'
  <2>1. Suits(c, "inserted", None)
    BY <1>2, ArgsAreTyped DEF Inserts, Moves, Step, ArgTypes
  <2>. QED
    BY <1>2, <2>1, SuitsStep DEF Inserts, Moves, Step
<1>3. ASSUME NEW c \in Creates, CommitCreate(c) PROVE RequestInv'
  <2>1. Suits(c, "done", None)
    BY <1>3, ArgsAreTyped DEF CommitCreate, Finish, Step, ArgTypes
  <2>. QED
    BY <1>3, <2>1, SuitsStep DEF CommitCreate, Finish, Step
<1>4. ASSUME NEW u \in Updates, StartUpdate(u) PROVE RequestInv'
  <2>1. PICK q \in Existing, f \in Forms :
          Open(u, "update", [q |-> q, type |-> f.type, erased |-> {}])
    BY <1>4 DEF StartUpdate
  <2>2. Suits(u, "update", [q |-> q, type |-> f.type, erased |-> {}])
    BY DEF Suits, Creates, UpdateArg, Form, Existing
  <2>. QED
    BY <2>1, <2>2, SuitsStep DEF Open
<1>5. ASSUME NEW u \in Updates, Rewrites(u) PROVE RequestInv'
  <2>1. Suits(u, IF keys[u] = None THEN "updated" ELSE "options", arg[u])
    BY <1>5, ArgsAreTyped DEF Rewrites, Step, ArgTypes
  <2>. QED
    BY <1>5, <2>1, SuitsStep DEF Rewrites, Step
<1>6. ASSUME NEW u \in Updates, DeleteAnswerOptions(u) PROVE RequestInv'
  <2>1. Suits(u, "updated", [arg[u] EXCEPT !.erased = options[arg[u].q]])
    BY <1>6, ArgsAreTyped DEF DeleteAnswerOptions, Step, ArgTypes, UpdateArg, Lists
  <2>. QED
    BY <1>6, <2>1, SuitsStep DEF DeleteAnswerOptions, Step
<1>7. ASSUME NEW u \in Updates, CommitUpdate(u) PROVE RequestInv'
  <2>1. Suits(u, "done", None)
    BY <1>7, ArgsAreTyped DEF CommitUpdate, Finish, Step, ArgTypes
  <2>. QED
    BY <1>7, <2>1, SuitsStep DEF CommitUpdate, Finish, Step
<1>8. ASSUME NEW d \in Deletes, StartDelete(d) PROVE RequestInv'
  <2>1. PICK q \in Existing : Open(d, "delete", q)
    BY <1>8 DEF StartDelete
  <2>2. Suits(d, "delete", q)
    BY DEF Suits, Creates, Existing
  <2>. QED
    BY <2>1, <2>2, SuitsStep DEF Open
<1>9. ASSUME NEW d \in Deletes, DeleteQuestion(d) PROVE RequestInv'
  <2>1. Suits(d, "done", None)
    BY <1>9, ArgsAreTyped DEF DeleteQuestion, Finish, Step, ArgTypes
  <2>. QED
    BY <1>9, <2>1, SuitsStep DEF DeleteQuestion, Finish, Step
<1>10. ASSUME NEW r \in Reorders, StartReorder(r) PROVE RequestInv'
  <2>. DEFINE N == 0 .. Cardinality(Existing) - 1
              A(f) == [order |-> [q \in Questions |-> IF q \in Existing THEN f[q] ELSE None],
                       scan |-> {}]
  <2>1. PICK f \in Bijection(Existing, N) : Open(r, "shift", A(f))
    BY <1>10 DEF StartReorder
  <2>2. Cardinality(Existing) \in Nat
    BY FS_Subset, FS_CardinalityType DEF Existing
  <2>3. f \in [Existing -> Nat]
    BY <2>2 DEF Bijection, Injection
  <2>4. A(f) \in ReorderArg
    BY <2>3 DEF ReorderArg, Order
  <2>5. Suits(r, "shift", A(f))
    BY <2>4 DEF Suits, Creates
  <2>. QED
    BY <2>1, <2>5, SuitsStep DEF Open
<1>11. ASSUME NEW r \in Reorders, StartShift(r) PROVE RequestInv'
  <2>1. Suits(r, "shifting", [arg[r] EXCEPT !.scan = Existing])
    BY <1>11, ArgsAreTyped DEF StartShift, Step, ArgTypes, ReorderArg, Existing
  <2>. QED
    BY <1>11, <2>1, SuitsStep DEF StartShift, Step
<1>12. ASSUME NEW r \in Reorders, NEW q \in Questions, Shifts(r, q) PROVE RequestInv'
  <2>1. Suits(r, "shifting", arg[r])
    BY <1>12, ArgsAreTyped DEF Shifts, Moves, Step, ArgTypes
  <2>. QED
    BY <1>12, <2>1, SuitsStep DEF Shifts, Moves, Step
<1>13. ASSUME NEW r \in Reorders, EndShift(r) PROVE RequestInv'
  <2>1. Suits(r, "setting", arg[r])
    BY <1>13, ArgsAreTyped DEF EndShift, Step, ArgTypes
  <2>. QED
    BY <1>13, <2>1, SuitsStep DEF EndShift, Step
<1>14. ASSUME NEW r \in Reorders, NEW q \in Questions, Sets(r, q) PROVE RequestInv'
  <2>1. Suits(r, "setting", arg[r])
    BY <1>14, ArgsAreTyped DEF Sets, Moves, Step, ArgTypes
  <2>. QED
    BY <1>14, <2>1, SuitsStep DEF Sets, Moves, Step
<1>15. ASSUME NEW r \in Reorders, CommitReorder(r) PROVE RequestInv'
  <2>1. Suits(r, "done", None)
    BY <1>15, ArgsAreTyped DEF CommitReorder, Finish, Step, ArgTypes
  <2>. QED
    BY <1>15, <2>1, SuitsStep DEF CommitReorder, Finish, Step
<1>16. ASSUME NEW p \in Publishes \cup Copies, ReadQuestions(p) PROVE RequestInv'
  <2>1. Suits(p, "readOptions", [row |-> row, options |-> None])
    BY DEF Suits, Creates, HasRead, ReadArg
  <2>. QED
    BY <1>16, <2>1, SuitsStep DEF ReadQuestions, Open
<1>17. ASSUME NEW p \in Publishes \cup Copies, ReadOptions(p) PROVE RequestInv'
  <2>1. Suits(p, IF p \in Copies THEN "copy" ELSE "publish", [arg[p] EXCEPT !.options = options])
    BY <1>17, ArgsAreTyped DEF ReadOptions, Step, ArgTypes, ReadArg, HasRead
  <2>. QED
    BY <1>17, <2>1, SuitsStep DEF ReadOptions, Step
<1>18. ASSUME NEW p \in Publishes, SetPublished(p) PROVE RequestInv'
  <2>1. Suits(p, "done", None)
    BY <1>18, ArgsAreTyped DEF SetPublished, Finish, Step, ArgTypes
  <2>. QED
    BY <1>18, <2>1, SuitsStep DEF SetPublished, Finish, Step
<1>19. ASSUME Unpublish PROVE RequestInv'
  BY <1>19 DEF Unpublish
<1>20. ASSUME NEW c \in Copies, InsertCopy(c) PROVE RequestInv'
  <2>1. Suits(c, "done", arg[c])
    BY <1>20, ArgsAreTyped DEF InsertCopy, Step, ArgTypes, HasRead
  <2>. QED
    BY <1>20, <2>1, SuitsStep DEF InsertCopy, Step
<1>21. ASSUME NEW r \in Creates \cup Updates \cup Reorders, Aborts(r) PROVE RequestInv'
  <2>1. Suits(r, "failed", None)
    BY <1>21, ArgsAreTyped DEF Aborts, Abort, Finish, Step, ArgTypes
  <2>. QED
    BY <1>21, <2>1, SuitsStep DEF Aborts, Abort, Finish, Step
<1>. QED
  BY <1>1, <1>2, <1>3, <1>4, <1>5, <1>6, <1>7, <1>8, <1>9, <1>10, <1>11, <1>12, <1>13,
     <1>14, <1>15, <1>16, <1>17, <1>18, <1>19, <1>20, <1>21 DEF StepOf

\* Every step keeps one version of each written question.
LEMMA VersionStep ==
  ASSUME BaseInv, StepOf
  PROVE  VersionInv'
<1>. USE QuizAssumption, Kinds DEF BaseInv, TableTypes, LockTypes, LockInv, Ended,
     Requests, Free, tableVars, lockVars, VersionInv
<1>1. ASSUME NEW c \in Creates, StartCreate(c) PROVE VersionInv'
  BY <1>1 DEF StartCreate, Open
<1>2. ASSUME NEW c \in Creates, Inserts(c) PROVE VersionInv'
  <2>1. /\ at[c] = "insert"
        /\ at' = [at EXCEPT ![c] = "inserted"]
        /\ arg' = [arg EXCEPT ![c] = None]
        /\ lock' = [lock EXCEPT ![c] = c] /\ row' = row
        /\ work' = [work EXCEPT ![c] = [idx |-> arg[c].idx, type |-> arg[c].type]]
    BY <1>2 DEF Inserts, Moves, Step, Write
  <2>2. c \in Questions
    BY <1>2, <2>1 DEF Inserts, Existing, VersionInv
  <2>3. [idx |-> arg[c].idx, type |-> arg[c].type] \in Row
    BY <1>2, <2>1, <2>2, UnderWay DEF Inserts, Row, ReorderArg, UpdateArg, Order,
       ToShift, ToPlace, Existing
  <2>. QED
    BY <1>2, <2>1, <2>2, <2>3 DEF Existing
<1>3. ASSUME NEW c \in Creates, CommitCreate(c) PROVE VersionInv'
  BY <1>3 DEF CommitCreate, Finish, Step, Written, Release, Edit
<1>4. ASSUME NEW u \in Updates, StartUpdate(u) PROVE VersionInv'
  BY <1>4 DEF StartUpdate, Open
<1>5. ASSUME NEW u \in Updates, Rewrites(u) PROVE VersionInv'
  <2>1. /\ at[u] = "update"
        /\ at' = [at EXCEPT ![u] = IF keys[u] = None THEN "updated" ELSE "options"]
        /\ arg' = [arg EXCEPT ![u] = arg[u]]
        /\ lock' = [lock EXCEPT ![arg[u].q] = u] /\ row' = row
        /\ work' = [work EXCEPT ![arg[u].q] = Coalesce(u)]
    BY <1>5 DEF Rewrites, Step, Write
  <2>2. arg[u].q \in Existing
    BY <1>5, <2>1 DEF Rewrites, ToShift
  <2>3. Coalesce(u) \in Row
    BY <1>5, <2>1, <2>2, UnderWay DEF Rewrites, Row, ReorderArg, UpdateArg, Order,
       ToShift, ToPlace, Existing, Coalesce
  <2>. QED
    BY <1>5, <2>1, <2>2, <2>3 DEF Existing
<1>6. ASSUME NEW u \in Updates, DeleteAnswerOptions(u) PROVE VersionInv'
  BY <1>6 DEF DeleteAnswerOptions, Step
<1>7. ASSUME NEW u \in Updates, CommitUpdate(u) PROVE VersionInv'
  BY <1>7 DEF CommitUpdate, Finish, Step, Written, Release, Edit
<1>8. ASSUME NEW d \in Deletes, StartDelete(d) PROVE VersionInv'
  BY <1>8 DEF StartDelete, Open
<1>9. ASSUME NEW d \in Deletes, DeleteQuestion(d) PROVE VersionInv'
  BY <1>9 DEF DeleteQuestion, Finish, Step, Edit
<1>10. ASSUME NEW r \in Reorders, StartReorder(r) PROVE VersionInv'
  BY <1>10 DEF StartReorder, Open
<1>11. ASSUME NEW r \in Reorders, StartShift(r) PROVE VersionInv'
  BY <1>11 DEF StartShift, Step
<1>12. ASSUME NEW r \in Reorders, NEW q \in Questions, Shifts(r, q) PROVE VersionInv'
  <2>1. /\ at[r] = "shifting"
        /\ at' = [at EXCEPT ![r] = "shifting"]
        /\ arg' = [arg EXCEPT ![r] = arg[r]]
        /\ lock' = [lock EXCEPT ![q] = r] /\ row' = row
        /\ work' = [work EXCEPT ![q] = [idx |-> row[q].idx + Shift, type |-> row[q].type]]
    BY <1>12 DEF Shifts, Moves, Step, Write
  <2>2. q \in Existing
    BY <1>12, <2>1 DEF Shifts, ToShift
  <2>3. [idx |-> row[q].idx + Shift, type |-> row[q].type] \in Row
    BY <1>12, <2>1, <2>2, UnderWay DEF Shifts, Row, ReorderArg, UpdateArg, Order,
       ToShift, ToPlace, Existing
  <2>. QED
    BY <1>12, <2>1, <2>2, <2>3 DEF Existing
<1>13. ASSUME NEW r \in Reorders, EndShift(r) PROVE VersionInv'
  BY <1>13 DEF EndShift, Step, ToShift, Mine
<1>14. ASSUME NEW r \in Reorders, NEW q \in Questions, Sets(r, q) PROVE VersionInv'
  <2>1. /\ at[r] = "setting"
        /\ at' = [at EXCEPT ![r] = "setting"]
        /\ arg' = [arg EXCEPT ![r] = arg[r]]
        /\ lock' = [lock EXCEPT ![q] = r] /\ row' = row
        /\ work' = [work EXCEPT ![q] = [idx |-> arg[r].order[q], type |-> work[q].type]]
    BY <1>14 DEF Sets, Moves, Step, Write
  <2>2. lock[q] = r /\ work[q] # None
    BY <1>14, <2>1 DEF Sets, ToPlace, Mine, VersionInv
  <2>3. [idx |-> arg[r].order[q], type |-> work[q].type] \in Row
    BY <1>14, <2>1, <2>2, UnderWay DEF Sets, Row, ReorderArg, UpdateArg, Order, ToShift,
       ToPlace, Existing
  <2>. QED
    BY <1>14, <2>1, <2>2, <2>3 DEF Existing
<1>15. ASSUME NEW r \in Reorders, CommitReorder(r) PROVE VersionInv'
  BY <1>15 DEF CommitReorder, ToPlace, Mine, Finish, Step, Written, Release
<1>16. ASSUME NEW p \in Publishes \cup Copies, ReadQuestions(p) PROVE VersionInv'
  BY <1>16 DEF ReadQuestions, Open
<1>17. ASSUME NEW p \in Publishes \cup Copies, ReadOptions(p) PROVE VersionInv'
  BY <1>17 DEF ReadOptions, Step
<1>18. ASSUME NEW p \in Publishes, SetPublished(p) PROVE VersionInv'
  BY <1>18 DEF SetPublished, Finish, Step
<1>19. ASSUME Unpublish PROVE VersionInv'
  BY <1>19 DEF Unpublish
<1>20. ASSUME NEW c \in Copies, InsertCopy(c) PROVE VersionInv'
  BY <1>20 DEF InsertCopy, Step
<1>21. ASSUME NEW r \in Creates \cup Updates \cup Reorders, Aborts(r) PROVE VersionInv'
  BY <1>21 DEF Aborts, Abort, Finish, Step, Rollback, Release
<1>. QED
  BY <1>1, <1>2, <1>3, <1>4, <1>5, <1>6, <1>7, <1>8, <1>9, <1>10, <1>11, <1>12, <1>13,
     <1>14, <1>15, <1>16, <1>17, <1>18, <1>19, <1>20, <1>21 DEF StepOf

\* Every step keeps what creates write.
LEMMA CreateStep ==
  ASSUME BaseInv, StepOf
  PROVE  CreateInv'
<1>. USE Kinds DEF BaseInv, TableTypes, LockTypes, LockInv, Ended, Requests, Free,
     tableVars, lockVars, CreateInv
<1>1. ASSUME NEW c \in Creates, StartCreate(c) PROVE CreateInv'
  BY <1>1 DEF StartCreate, Open
<1>2. ASSUME NEW c \in Creates, Inserts(c) PROVE CreateInv'
  <2>1. /\ at[c] = "insert"
        /\ at' = [at EXCEPT ![c] = "inserted"]
        /\ arg' = [arg EXCEPT ![c] = None]
        /\ lock' = [lock EXCEPT ![c] = c] /\ row' = row
        /\ work' = [work EXCEPT ![c] = [idx |-> arg[c].idx, type |-> arg[c].type]]
    BY <1>2 DEF Inserts, Moves, Step, Write
  <2>. QED
    BY <1>2, <2>1 DEF Inserts
<1>3. ASSUME NEW c \in Creates, CommitCreate(c) PROVE CreateInv'
  <2>1. /\ at' = [at EXCEPT ![c] = "done"] /\ arg' = [arg EXCEPT ![c] = None]
        /\ \A p \in Questions :
             /\ row'[p] = IF lock[p] = c THEN work[p] ELSE row[p]
             /\ lock'[p] = IF lock[p] = c THEN None ELSE lock[p]
             /\ work'[p] = IF lock[p] = c THEN None ELSE work[p]
    BY <1>3 DEF CommitCreate, Finish, Step, Written, Release
  <2>. QED
    BY <1>3, <2>1 DEF CommitCreate, Finish, Step, VersionInv
<1>4. ASSUME NEW u \in Updates, StartUpdate(u) PROVE CreateInv'
  BY <1>4 DEF StartUpdate, Open
<1>5. ASSUME NEW u \in Updates, Rewrites(u) PROVE CreateInv'
  <2>1. /\ at[u] = "update"
        /\ at' = [at EXCEPT ![u] = IF keys[u] = None THEN "updated" ELSE "options"]
        /\ arg' = [arg EXCEPT ![u] = arg[u]]
        /\ lock' = [lock EXCEPT ![arg[u].q] = u] /\ row' = row
        /\ work' = [work EXCEPT ![arg[u].q] = Coalesce(u)]
    BY <1>5 DEF Rewrites, Step, Write
  <2>. QED
    BY <1>5, <2>1 DEF Rewrites, Existing
<1>6. ASSUME NEW u \in Updates, DeleteAnswerOptions(u) PROVE CreateInv'
  BY <1>6 DEF DeleteAnswerOptions, Step
<1>7. ASSUME NEW u \in Updates, CommitUpdate(u) PROVE CreateInv'
  <2>1. /\ at' = [at EXCEPT ![u] = "done"] /\ arg' = [arg EXCEPT ![u] = None]
        /\ \A p \in Questions :
             /\ row'[p] = IF lock[p] = u THEN work[p] ELSE row[p]
             /\ lock'[p] = IF lock[p] = u THEN None ELSE lock[p]
             /\ work'[p] = IF lock[p] = u THEN None ELSE work[p]
    BY <1>7 DEF CommitUpdate, Finish, Step, Written, Release
  <2>. QED
    BY <1>7, <2>1 DEF CommitUpdate, Finish, Step, VersionInv
<1>8. ASSUME NEW d \in Deletes, StartDelete(d) PROVE CreateInv'
  BY <1>8 DEF StartDelete, Open
<1>9. ASSUME NEW d \in Deletes, DeleteQuestion(d) PROVE CreateInv'
  BY <1>9 DEF DeleteQuestion, Finish, Step, Edit
<1>10. ASSUME NEW r \in Reorders, StartReorder(r) PROVE CreateInv'
  BY <1>10 DEF StartReorder, Open
<1>11. ASSUME NEW r \in Reorders, StartShift(r) PROVE CreateInv'
  BY <1>11 DEF StartShift, Step
<1>12. ASSUME NEW r \in Reorders, NEW q \in Questions, Shifts(r, q) PROVE CreateInv'
  <2>1. /\ at[r] = "shifting"
        /\ at' = [at EXCEPT ![r] = "shifting"]
        /\ arg' = [arg EXCEPT ![r] = arg[r]]
        /\ lock' = [lock EXCEPT ![q] = r] /\ row' = row
        /\ work' = [work EXCEPT ![q] = [idx |-> row[q].idx + Shift, type |-> row[q].type]]
    BY <1>12 DEF Shifts, Moves, Step, Write
  <2>. QED
    BY <1>12, <2>1 DEF Shifts
<1>13. ASSUME NEW r \in Reorders, EndShift(r) PROVE CreateInv'
  BY <1>13 DEF EndShift, Step, ToShift, Mine
<1>14. ASSUME NEW r \in Reorders, NEW q \in Questions, Sets(r, q) PROVE CreateInv'
  BY <1>14 DEF Sets, ToPlace, Moves, NewPosition, Step, Write, Mine
<1>15. ASSUME NEW r \in Reorders, CommitReorder(r) PROVE CreateInv'
  <2>1. /\ at' = [at EXCEPT ![r] = "done"] /\ arg' = [arg EXCEPT ![r] = None]
        /\ \A p \in Questions :
             /\ row'[p] = IF lock[p] = r THEN work[p] ELSE row[p]
             /\ lock'[p] = IF lock[p] = r THEN None ELSE lock[p]
             /\ work'[p] = IF lock[p] = r THEN None ELSE work[p]
    BY <1>15 DEF CommitReorder, Finish, Step, Written, Release
  <2>. QED
    BY <1>15, <2>1 DEF CommitReorder, Finish, Step, VersionInv
<1>16. ASSUME NEW p \in Publishes \cup Copies, ReadQuestions(p) PROVE CreateInv'
  BY <1>16 DEF ReadQuestions, Open
<1>17. ASSUME NEW p \in Publishes \cup Copies, ReadOptions(p) PROVE CreateInv'
  BY <1>17 DEF ReadOptions, Step
<1>18. ASSUME NEW p \in Publishes, SetPublished(p) PROVE CreateInv'
  BY <1>18 DEF SetPublished, Finish, Step
<1>19. ASSUME Unpublish PROVE CreateInv'
  BY <1>19 DEF Unpublish
<1>20. ASSUME NEW c \in Copies, InsertCopy(c) PROVE CreateInv'
  BY <1>20 DEF InsertCopy, Step
<1>21. ASSUME NEW r \in Creates \cup Updates \cup Reorders, Aborts(r) PROVE CreateInv'
  <2>1. /\ at' = [at EXCEPT ![r] = "failed"] /\ arg' = [arg EXCEPT ![r] = None]
        /\ \A p \in Questions :
             /\ row'[p] = row[p]
             /\ lock'[p] = IF lock[p] = r THEN None ELSE lock[p]
             /\ work'[p] = IF lock[p] = r THEN None ELSE work[p]
    BY <1>21 DEF Aborts, Abort, Finish, Step, Rollback, Release
  <2>. QED
    BY <1>21, <2>1 DEF Aborts
<1>. QED
  BY <1>1, <1>2, <1>3, <1>4, <1>5, <1>6, <1>7, <1>8, <1>9, <1>10, <1>11, <1>12, <1>13,
     <1>14, <1>15, <1>16, <1>17, <1>18, <1>19, <1>20, <1>21 DEF StepOf

\* Every step keeps what updates write.
LEMMA UpdateStep ==
  ASSUME BaseInv, StepOf
  PROVE  UpdateInv'
<1>. USE Kinds DEF BaseInv, TableTypes, LockTypes, LockInv, Ended, Requests, Free,
     tableVars, lockVars, UpdateInv
<1>1. ASSUME NEW c \in Creates, StartCreate(c) PROVE UpdateInv'
  BY <1>1 DEF StartCreate, Open, Coalesce
<1>2. ASSUME NEW c \in Creates, Inserts(c) PROVE UpdateInv'
  <2>1. /\ at[c] = "insert"
        /\ at' = [at EXCEPT ![c] = "inserted"]
        /\ arg' = [arg EXCEPT ![c] = None]
        /\ lock' = [lock EXCEPT ![c] = c] /\ row' = row
        /\ work' = [work EXCEPT ![c] = [idx |-> arg[c].idx, type |-> arg[c].type]]
    BY <1>2 DEF Inserts, Moves, Step, Write
  <2>2. ASSUME NEW v \in Updates, at'[v] \in {"options", "updated"}
        PROVE  lock'[arg'[v].q] = v /\ work'[arg'[v].q] = Coalesce(v)'
    <3>1. /\ at[v] \in {"options", "updated"} /\ v # c /\ arg'[v] = arg[v]
          /\ arg[v].q \in Questions
      BY <1>2, <2>1, <2>2, UnderWay DEF Inserts, CreateInv, VersionInv
    <3>2. /\ lock[arg[v].q] = v /\ row'[arg[v].q] = row[arg[v].q]
          /\ lock'[arg[v].q] = lock[arg[v].q] /\ work'[arg[v].q] = work[arg[v].q]
      BY <1>2, <2>1, <3>1, UnderWay DEF Inserts, CreateInv, VersionInv
    <3>. QED
      BY <3>1, <3>2 DEF Coalesce
  <2>3. ASSUME NEW v \in Updates, NEW p \in Questions, lock'[p] = v
        PROVE  at'[v] \in {"options", "updated"} /\ p = arg'[v].q
    BY <1>2, <2>1, <2>3, UnderWay DEF Inserts, CreateInv, VersionInv
  <2>. QED
    BY <2>2, <2>3
<1>3. ASSUME NEW c \in Creates, CommitCreate(c) PROVE UpdateInv'
  <2>1. /\ at' = [at EXCEPT ![c] = "done"] /\ arg' = [arg EXCEPT ![c] = None]
        /\ \A p \in Questions :
             /\ row'[p] = IF lock[p] = c THEN work[p] ELSE row[p]
             /\ lock'[p] = IF lock[p] = c THEN None ELSE lock[p]
             /\ work'[p] = IF lock[p] = c THEN None ELSE work[p]
    BY <1>3 DEF CommitCreate, Finish, Step, Written, Release
  <2>2. ASSUME NEW v \in Updates, at'[v] \in {"options", "updated"}
        PROVE  lock'[arg'[v].q] = v /\ work'[arg'[v].q] = Coalesce(v)'
    <3>1. /\ at[v] \in {"options", "updated"} /\ v # c /\ arg'[v] = arg[v]
          /\ arg[v].q \in Questions
      BY <1>3, <2>1, <2>2, UnderWay DEF CommitCreate, Finish, Step
    <3>2. /\ lock[arg[v].q] = v /\ row'[arg[v].q] = row[arg[v].q]
          /\ lock'[arg[v].q] = lock[arg[v].q] /\ work'[arg[v].q] = work[arg[v].q]
      BY <1>3, <2>1, <3>1, UnderWay DEF CommitCreate, Finish, Step
    <3>. QED
      BY <3>1, <3>2 DEF Coalesce
  <2>3. ASSUME NEW v \in Updates, NEW p \in Questions, lock'[p] = v
        PROVE  at'[v] \in {"options", "updated"} /\ p = arg'[v].q
    BY <1>3, <2>1, <2>3, UnderWay DEF CommitCreate, Finish, Step
  <2>. QED
    BY <2>2, <2>3
<1>4. ASSUME NEW u \in Updates, StartUpdate(u) PROVE UpdateInv'
  BY <1>4 DEF StartUpdate, Open, Coalesce
<1>5. ASSUME NEW u \in Updates, Rewrites(u) PROVE UpdateInv'
  <2>1. /\ at[u] = "update"
        /\ at' = [at EXCEPT ![u] = IF keys[u] = None THEN "updated" ELSE "options"]
        /\ arg' = [arg EXCEPT ![u] = arg[u]]
        /\ lock' = [lock EXCEPT ![arg[u].q] = u] /\ row' = row
        /\ work' = [work EXCEPT ![arg[u].q] = Coalesce(u)]
    BY <1>5 DEF Rewrites, Step, Write
  <2>. QED
    BY <1>5, <2>1, UnderWay DEF Coalesce, Rewrites, Existing
<1>6. ASSUME NEW u \in Updates, DeleteAnswerOptions(u) PROVE UpdateInv'
  BY <1>6 DEF DeleteAnswerOptions, Step, Coalesce
<1>7. ASSUME NEW u \in Updates, CommitUpdate(u) PROVE UpdateInv'
  <2>1. /\ at' = [at EXCEPT ![u] = "done"] /\ arg' = [arg EXCEPT ![u] = None]
        /\ \A p \in Questions :
             /\ row'[p] = IF lock[p] = u THEN work[p] ELSE row[p]
             /\ lock'[p] = IF lock[p] = u THEN None ELSE lock[p]
             /\ work'[p] = IF lock[p] = u THEN None ELSE work[p]
    BY <1>7 DEF CommitUpdate, Finish, Step, Written, Release
  <2>2. ASSUME NEW v \in Updates, at'[v] \in {"options", "updated"}
        PROVE  lock'[arg'[v].q] = v /\ work'[arg'[v].q] = Coalesce(v)'
    <3>1. /\ at[v] \in {"options", "updated"} /\ v # u /\ arg'[v] = arg[v]
          /\ arg[v].q \in Questions
      BY <1>7, <2>1, <2>2, UnderWay DEF CommitUpdate, Finish, Step
    <3>2. /\ lock[arg[v].q] = v /\ row'[arg[v].q] = row[arg[v].q]
          /\ lock'[arg[v].q] = lock[arg[v].q] /\ work'[arg[v].q] = work[arg[v].q]
      BY <1>7, <2>1, <3>1, UnderWay DEF CommitUpdate, Finish, Step
    <3>. QED
      BY <3>1, <3>2 DEF Coalesce
  <2>3. ASSUME NEW v \in Updates, NEW p \in Questions, lock'[p] = v
        PROVE  at'[v] \in {"options", "updated"} /\ p = arg'[v].q
    BY <1>7, <2>1, <2>3, UnderWay DEF CommitUpdate, Finish, Step
  <2>. QED
    BY <2>2, <2>3
<1>8. ASSUME NEW d \in Deletes, StartDelete(d) PROVE UpdateInv'
  BY <1>8 DEF StartDelete, Open, Coalesce
<1>9. ASSUME NEW d \in Deletes, DeleteQuestion(d) PROVE UpdateInv'
  <2>2. ASSUME NEW v \in Updates, at'[v] \in {"options", "updated"}
        PROVE  lock'[arg'[v].q] = v /\ work'[arg'[v].q] = Coalesce(v)'
    <3>1. /\ at[v] \in {"options", "updated"} /\ v # d /\ arg'[v] = arg[v]
          /\ arg[v].q \in Questions
      BY <1>9, <2>2, UnderWay DEF DeleteQuestion, Finish, Step
    <3>2. /\ lock[arg[v].q] = v /\ row'[arg[v].q] = row[arg[v].q]
          /\ lock'[arg[v].q] = lock[arg[v].q] /\ work'[arg[v].q] = work[arg[v].q]
      BY <1>9, <3>1, UnderWay DEF DeleteQuestion, Finish, Step
    <3>. QED
      BY <3>1, <3>2 DEF Coalesce
  <2>3. ASSUME NEW v \in Updates, NEW p \in Questions, lock'[p] = v
        PROVE  at'[v] \in {"options", "updated"} /\ p = arg'[v].q
    BY <1>9, <2>3, UnderWay DEF DeleteQuestion, Finish, Step
  <2>. QED
    BY <2>2, <2>3
<1>10. ASSUME NEW r \in Reorders, StartReorder(r) PROVE UpdateInv'
  BY <1>10 DEF StartReorder, Open, Coalesce
<1>11. ASSUME NEW r \in Reorders, StartShift(r) PROVE UpdateInv'
  BY <1>11 DEF StartShift, Step, Coalesce
<1>12. ASSUME NEW r \in Reorders, NEW q \in Questions, Shifts(r, q) PROVE UpdateInv'
  <2>1. /\ at[r] = "shifting"
        /\ at' = [at EXCEPT ![r] = "shifting"]
        /\ arg' = [arg EXCEPT ![r] = arg[r]]
        /\ lock' = [lock EXCEPT ![q] = r] /\ row' = row
        /\ work' = [work EXCEPT ![q] = [idx |-> row[q].idx + Shift, type |-> row[q].type]]
    BY <1>12 DEF Shifts, Moves, Step, Write
  <2>. QED
    BY <1>12, <2>1, UnderWay DEF Coalesce, Shifts
<1>13. ASSUME NEW r \in Reorders, EndShift(r) PROVE UpdateInv'
  BY <1>13 DEF EndShift, Step, ToShift, Mine, Coalesce
<1>14. ASSUME NEW r \in Reorders, NEW q \in Questions, Sets(r, q) PROVE UpdateInv'
  <2>1. /\ at[r] = "setting"
        /\ at' = [at EXCEPT ![r] = "setting"]
        /\ arg' = [arg EXCEPT ![r] = arg[r]]
        /\ lock' = [lock EXCEPT ![q] = r] /\ row' = row
        /\ work' = [work EXCEPT ![q] = [idx |-> arg[r].order[q], type |-> work[q].type]]
    BY <1>14 DEF Sets, Moves, Step, Write
  <2>2. ASSUME NEW v \in Updates, at'[v] \in {"options", "updated"}
        PROVE  lock'[arg'[v].q] = v /\ work'[arg'[v].q] = Coalesce(v)'
    <3>1. /\ at[v] \in {"options", "updated"} /\ v # r /\ arg'[v] = arg[v]
          /\ arg[v].q \in Questions
      BY <1>14, <2>1, <2>2, UnderWay DEF Sets, ToPlace, Mine
    <3>2. /\ lock[arg[v].q] = v /\ row'[arg[v].q] = row[arg[v].q]
          /\ lock'[arg[v].q] = lock[arg[v].q] /\ work'[arg[v].q] = work[arg[v].q]
      BY <1>14, <2>1, <3>1, UnderWay DEF Sets, ToPlace, Mine
    <3>. QED
      BY <3>1, <3>2 DEF Coalesce
  <2>3. ASSUME NEW v \in Updates, NEW p \in Questions, lock'[p] = v
        PROVE  at'[v] \in {"options", "updated"} /\ p = arg'[v].q
    BY <1>14, <2>1, <2>3, UnderWay DEF Sets, ToPlace, Mine
  <2>. QED
    BY <2>2, <2>3
<1>15. ASSUME NEW r \in Reorders, CommitReorder(r) PROVE UpdateInv'
  <2>1. /\ at' = [at EXCEPT ![r] = "done"] /\ arg' = [arg EXCEPT ![r] = None]
        /\ \A p \in Questions :
             /\ row'[p] = IF lock[p] = r THEN work[p] ELSE row[p]
             /\ lock'[p] = IF lock[p] = r THEN None ELSE lock[p]
             /\ work'[p] = IF lock[p] = r THEN None ELSE work[p]
    BY <1>15 DEF CommitReorder, Finish, Step, Written, Release
  <2>2. ASSUME NEW v \in Updates, at'[v] \in {"options", "updated"}
        PROVE  lock'[arg'[v].q] = v /\ work'[arg'[v].q] = Coalesce(v)'
    <3>1. /\ at[v] \in {"options", "updated"} /\ v # r /\ arg'[v] = arg[v]
          /\ arg[v].q \in Questions
      BY <1>15, <2>1, <2>2, UnderWay DEF CommitReorder, Finish, Step
    <3>2. /\ lock[arg[v].q] = v /\ row'[arg[v].q] = row[arg[v].q]
          /\ lock'[arg[v].q] = lock[arg[v].q] /\ work'[arg[v].q] = work[arg[v].q]
      BY <1>15, <2>1, <3>1, UnderWay DEF CommitReorder, Finish, Step
    <3>. QED
      BY <3>1, <3>2 DEF Coalesce
  <2>3. ASSUME NEW v \in Updates, NEW p \in Questions, lock'[p] = v
        PROVE  at'[v] \in {"options", "updated"} /\ p = arg'[v].q
    BY <1>15, <2>1, <2>3, UnderWay DEF CommitReorder, Finish, Step
  <2>. QED
    BY <2>2, <2>3
<1>16. ASSUME NEW p \in Publishes \cup Copies, ReadQuestions(p) PROVE UpdateInv'
  BY <1>16 DEF ReadQuestions, Open, Coalesce
<1>17. ASSUME NEW p \in Publishes \cup Copies, ReadOptions(p) PROVE UpdateInv'
  BY <1>17 DEF ReadOptions, Step, Coalesce
<1>18. ASSUME NEW p \in Publishes, SetPublished(p) PROVE UpdateInv'
  BY <1>18 DEF SetPublished, Finish, Step, Coalesce
<1>19. ASSUME Unpublish PROVE UpdateInv'
  BY <1>19 DEF Unpublish, Coalesce
<1>20. ASSUME NEW c \in Copies, InsertCopy(c) PROVE UpdateInv'
  BY <1>20 DEF InsertCopy, Step, Coalesce
<1>21. ASSUME NEW r \in Creates \cup Updates \cup Reorders, Aborts(r) PROVE UpdateInv'
  <2>1. /\ at' = [at EXCEPT ![r] = "failed"] /\ arg' = [arg EXCEPT ![r] = None]
        /\ \A p \in Questions :
             /\ row'[p] = row[p]
             /\ lock'[p] = IF lock[p] = r THEN None ELSE lock[p]
             /\ work'[p] = IF lock[p] = r THEN None ELSE work[p]
    BY <1>21 DEF Aborts, Abort, Finish, Step, Rollback, Release
  <2>. QED
    BY <1>21, <2>1, UnderWay DEF Aborts, Coalesce
<1>. QED
  BY <1>1, <1>2, <1>3, <1>4, <1>5, <1>6, <1>7, <1>8, <1>9, <1>10, <1>11, <1>12, <1>13,
     <1>14, <1>15, <1>16, <1>17, <1>18, <1>19, <1>20, <1>21 DEF StepOf

\* Every step keeps what reorders write.
LEMMA ShiftStep ==
  ASSUME BaseInv, StepOf
  PROVE  ShiftInv'
<1>. USE QuizAssumption DEF BaseInv, TableTypes, LockTypes, LockInv, Ended, Requests,
     Free, tableVars, lockVars, ShiftInv
<1>1. ASSUME NEW c \in Creates, StartCreate(c) PROVE ShiftInv'
  BY <1>1 DEF StartCreate, Open
<1>2. ASSUME NEW c \in Creates, Inserts(c) PROVE ShiftInv'
  BY <1>2 DEF Inserts, Moves, NewPosition, Step, Write, Mine
<1>3. ASSUME NEW c \in Creates, CommitCreate(c) PROVE ShiftInv'
  BY <1>3 DEF CommitCreate, Finish, Step, Written, Release, Edit
<1>4. ASSUME NEW u \in Updates, StartUpdate(u) PROVE ShiftInv'
  BY <1>4 DEF StartUpdate, Open
<1>5. ASSUME NEW u \in Updates, Rewrites(u) PROVE ShiftInv'
  BY <1>5 DEF Rewrites, Step, Write, Coalesce
<1>6. ASSUME NEW u \in Updates, DeleteAnswerOptions(u) PROVE ShiftInv'
  BY <1>6 DEF DeleteAnswerOptions, Step
<1>7. ASSUME NEW u \in Updates, CommitUpdate(u) PROVE ShiftInv'
  BY <1>7 DEF CommitUpdate, Finish, Step, Written, Release, Edit
<1>8. ASSUME NEW d \in Deletes, StartDelete(d) PROVE ShiftInv'
  BY <1>8 DEF StartDelete, Open
<1>9. ASSUME NEW d \in Deletes, DeleteQuestion(d) PROVE ShiftInv'
  BY <1>9 DEF DeleteQuestion, Finish, Step, Edit
<1>10. ASSUME NEW r \in Reorders, StartReorder(r) PROVE ShiftInv'
  BY <1>10 DEF StartReorder, Open
<1>11. ASSUME NEW r \in Reorders, StartShift(r) PROVE ShiftInv'
  BY <1>11 DEF StartShift, Step
<1>12. ASSUME NEW r \in Reorders, NEW q \in Questions, Shifts(r, q) PROVE ShiftInv'
  BY <1>12 DEF Shifts, ToShift, Moves, NewPosition, Step, Write, Mine
<1>13. ASSUME NEW r \in Reorders, EndShift(r) PROVE ShiftInv'
  BY <1>13 DEF EndShift, Step, ToShift, Mine
<1>14. ASSUME NEW r \in Reorders, NEW q \in Questions, Sets(r, q) PROVE ShiftInv'
  BY <1>14 DEF Sets, ToPlace, Moves, NewPosition, Step, Write, Mine
<1>15. ASSUME NEW r \in Reorders, CommitReorder(r) PROVE ShiftInv'
  BY <1>15 DEF CommitReorder, ToPlace, Mine, Finish, Step, Written, Release
<1>16. ASSUME NEW p \in Publishes \cup Copies, ReadQuestions(p) PROVE ShiftInv'
  BY <1>16 DEF ReadQuestions, Open
<1>17. ASSUME NEW p \in Publishes \cup Copies, ReadOptions(p) PROVE ShiftInv'
  BY <1>17 DEF ReadOptions, Step
<1>18. ASSUME NEW p \in Publishes, SetPublished(p) PROVE ShiftInv'
  BY <1>18 DEF SetPublished, Finish, Step
<1>19. ASSUME Unpublish PROVE ShiftInv'
  BY <1>19 DEF Unpublish
<1>20. ASSUME NEW c \in Copies, InsertCopy(c) PROVE ShiftInv'
  BY <1>20 DEF InsertCopy, Step
<1>21. ASSUME NEW r \in Creates \cup Updates \cup Reorders, Aborts(r) PROVE ShiftInv'
  BY <1>21 DEF Aborts, Abort, Finish, Step, Rollback, Release
<1>. QED
  BY <1>1, <1>2, <1>3, <1>4, <1>5, <1>6, <1>7, <1>8, <1>9, <1>10, <1>11, <1>12, <1>13,
     <1>14, <1>15, <1>16, <1>17, <1>18, <1>19, <1>20, <1>21 DEF StepOf

\* Every step keeps the positions apart.
LEMMA PositionStep ==
  ASSUME BaseInv, PositionInv, StepOf
  PROVE  PositionInv'
<1>. USE Kinds DEF BaseInv, TableTypes, LockTypes, LockInv, Ended, Requests, Free,
     tableVars, lockVars, PositionInv
<1>1. ASSUME NEW c \in Creates, Inserts(c) PROVE PositionInv'
  <2>1. /\ at[c] = "insert"
        /\ at' = [at EXCEPT ![c] = "inserted"]
        /\ arg' = [arg EXCEPT ![c] = None]
        /\ lock' = [lock EXCEPT ![c] = c] /\ row' = row
        /\ work' = [work EXCEPT ![c] = [idx |-> arg[c].idx, type |-> arg[c].type]]
    BY <1>1 DEF Inserts, Moves, Step, Write
  <2>2. \A p \in Questions :
          IF lock[p] = c THEN work[p].idx # arg[c].idx
                         ELSE /\ row[p] # None => row[p].idx # arg[c].idx
                              /\ lock[p] # None => work[p].idx # arg[c].idx
    BY <1>1 DEF Inserts, Moves, NewPosition, Mine
  <2>3. /\ work'[c].idx = arg[c].idx /\ lock'[c] = c /\ row'[c] = row[c]
        /\ \A p \in Questions \ {c} : lock'[p] = lock[p] /\ work'[p] = work[p] /\ row'[p] = row[p]
    BY <1>1, <2>1
  <2>4. row[c] = None
    BY <1>1, <2>1 DEF Inserts, CreateInv, ToPlace, Mine
  <2>. QED
    BY <1>1, <2>1, <2>2, <2>3, <2>4
<1>2. ASSUME NEW c \in Creates, CommitCreate(c) PROVE PositionInv'
  <2>1. /\ at' = [at EXCEPT ![c] = "done"] /\ arg' = [arg EXCEPT ![c] = None]
        /\ \A p \in Questions :
             /\ row'[p] = IF lock[p] = c THEN work[p] ELSE row[p]
             /\ lock'[p] = IF lock[p] = c THEN None ELSE lock[p]
             /\ work'[p] = IF lock[p] = c THEN None ELSE work[p]
    BY <1>2 DEF CommitCreate, Finish, Step, Written, Release
  <2>. QED
    BY <1>2, <2>1 DEF VersionInv
<1>3. ASSUME NEW u \in Updates, Rewrites(u) PROVE PositionInv'
  <2>1. /\ at[u] = "update"
        /\ at' = [at EXCEPT ![u] = IF keys[u] = None THEN "updated" ELSE "options"]
        /\ arg' = [arg EXCEPT ![u] = arg[u]]
        /\ lock' = [lock EXCEPT ![arg[u].q] = u] /\ row' = row
        /\ work' = [work EXCEPT ![arg[u].q] = Coalesce(u)]
    BY <1>3 DEF Rewrites, Step, Write
  <2>. QED
    BY <1>3, <2>1, UnderWay DEF Rewrites, VersionInv, Coalesce, Existing
<1>4. ASSUME NEW u \in Updates, CommitUpdate(u) PROVE PositionInv'
  <2>1. /\ at' = [at EXCEPT ![u] = "done"] /\ arg' = [arg EXCEPT ![u] = None]
        /\ \A p \in Questions :
             /\ row'[p] = IF lock[p] = u THEN work[p] ELSE row[p]
             /\ lock'[p] = IF lock[p] = u THEN None ELSE lock[p]
             /\ work'[p] = IF lock[p] = u THEN None ELSE work[p]
    BY <1>4 DEF CommitUpdate, Finish, Step, Written, Release
  <2>. QED
    BY <1>4, <2>1 DEF VersionInv
<1>5. ASSUME NEW d \in Deletes, DeleteQuestion(d) PROVE PositionInv'
  BY <1>5 DEF DeleteQuestion, Finish, Step, Edit
<1>6. ASSUME NEW r \in Reorders, NEW q \in Questions, Shifts(r, q) PROVE PositionInv'
  <2>1. /\ at[r] = "shifting"
        /\ at' = [at EXCEPT ![r] = "shifting"]
        /\ arg' = [arg EXCEPT ![r] = arg[r]]
        /\ lock' = [lock EXCEPT ![q] = r] /\ row' = row
        /\ work' = [work EXCEPT ![q] = [idx |-> row[q].idx + Shift, type |-> row[q].type]]
    BY <1>6 DEF Shifts, Moves, Step, Write
  <2>. QED
    BY <1>6, <2>1, UnderWay DEF Shifts, VersionInv, Moves, NewPosition, Mine
<1>7. ASSUME NEW r \in Reorders, NEW q \in Questions, Sets(r, q) PROVE PositionInv'
  <2>1. /\ at[r] = "setting"
        /\ at' = [at EXCEPT ![r] = "setting"]
        /\ arg' = [arg EXCEPT ![r] = arg[r]]
        /\ lock' = [lock EXCEPT ![q] = r] /\ row' = row
        /\ work' = [work EXCEPT ![q] = [idx |-> arg[r].order[q], type |-> work[q].type]]
    BY <1>7 DEF Sets, Moves, Step, Write
  <2>2. \A p \in Questions :
          IF lock[p] = r THEN work[p].idx # arg[r].order[q]
                         ELSE /\ row[p] # None => row[p].idx # arg[r].order[q]
                              /\ lock[p] # None => work[p].idx # arg[r].order[q]
    BY <1>7 DEF Sets, Moves, NewPosition, Mine
  <2>3. /\ work'[q].idx = arg[r].order[q] /\ lock'[q] = r /\ row'[q] = row[q]
        /\ \A p \in Questions \ {q} : lock'[p] = lock[p] /\ work'[p] = work[p] /\ row'[p] = row[p]
    BY <1>7, <2>1
  <2>4. lock[q] = r
    BY <1>7, <2>1 DEF Sets, CreateInv, ToPlace, Mine
  <2>. QED
    BY <1>7, <2>1, <2>2, <2>3, <2>4
<1>8. ASSUME NEW r \in Reorders, CommitReorder(r) PROVE PositionInv'
  <2>1. /\ at' = [at EXCEPT ![r] = "done"] /\ arg' = [arg EXCEPT ![r] = None]
        /\ \A p \in Questions :
             /\ row'[p] = IF lock[p] = r THEN work[p] ELSE row[p]
             /\ lock'[p] = IF lock[p] = r THEN None ELSE lock[p]
             /\ work'[p] = IF lock[p] = r THEN None ELSE work[p]
    BY <1>8 DEF CommitReorder, Finish, Step, Written, Release
  <2>. QED
    BY <1>8, <2>1 DEF VersionInv
<1>9. ASSUME NEW r \in Creates \cup Updates \cup Reorders, Aborts(r) PROVE PositionInv'
  <2>1. /\ at' = [at EXCEPT ![r] = "failed"] /\ arg' = [arg EXCEPT ![r] = None]
        /\ \A p \in Questions :
             /\ row'[p] = row[p]
             /\ lock'[p] = IF lock[p] = r THEN None ELSE lock[p]
             /\ work'[p] = IF lock[p] = r THEN None ELSE work[p]
    BY <1>9 DEF Aborts, Abort, Finish, Step, Rollback, Release
  <2>. QED
    BY <1>9, <2>1 DEF VersionInv
<1>10. CASE UNCHANGED <<row, lock, work>>
  BY <1>10
<1>. QED
  BY <1>1, <1>2, <1>3, <1>4, <1>5, <1>6, <1>7, <1>8, <1>9, <1>10 DEF StepOf,
     StartCreate, Open, StartUpdate, DeleteAnswerOptions, Step, StartDelete,
     StartReorder, StartShift, EndShift, ToShift, Mine, ReadQuestions, ReadOptions,
     SetPublished, Finish, Unpublish, InsertCopy

\* Every step keeps one list of options for each question.
LEMMA ListStep ==
  ASSUME BaseInv, ListInv, StepOf
  PROVE  ListInv'
<1>. USE Kinds DEF BaseInv, TableTypes, LockTypes, LockInv, Ended, Requests, Free,
     tableVars, lockVars, ListInv, OptionsAreOneList, UpdateInv
<1>1. ASSUME NEW c \in Creates, StartCreate(c) PROVE ListInv'
  <2>1. \A q \in Questions : c \notin options[q]
    BY <1>1 DEF StartCreate, Open
  <2>2. keys'[c] # None /\ \A w \in Writers \ {c} : keys'[w] = keys[w]
    BY <1>1 DEF StartCreate, WholeForm, Writers, Keys
  <2>3. \A q \in Questions : options[q] \subseteq Writers
    BY DEF Lists
  <2>. QED
    BY <1>1, <2>1, <2>2, <2>3 DEF StartCreate, Open, Writers
<1>2. ASSUME NEW c \in Creates, Inserts(c) PROVE ListInv'
  BY <1>2 DEF Inserts, Moves, NewPosition, Step, Write, Mine
<1>3. ASSUME NEW c \in Creates, CommitCreate(c) PROVE ListInv'
  <2>1. /\ at' = [at EXCEPT ![c] = "done"] /\ arg' = [arg EXCEPT ![c] = None]
        /\ \A p \in Questions :
             /\ row'[p] = IF lock[p] = c THEN work[p] ELSE row[p]
             /\ lock'[p] = IF lock[p] = c THEN None ELSE lock[p]
             /\ work'[p] = IF lock[p] = c THEN None ELSE work[p]
    BY <1>3 DEF CommitCreate, Finish, Step, Written, Release
  <2>2. options' = [options EXCEPT ![c] = {c}] /\ at[c] = "inserted" /\ keys' = keys
    BY <1>3 DEF CommitCreate, Finish, Step
  <2>3. \A u \in Updates : at[u] = "updated" => arg[u].q # c
    BY <2>2 DEF CreateInv
  <2>. QED
    BY <2>1, <2>2, <2>3, UnderWay DEF Lists
<1>4. ASSUME NEW u \in Updates, StartUpdate(u) PROVE ListInv'
  BY <1>4 DEF StartUpdate, Open
<1>5. ASSUME NEW u \in Updates, Rewrites(u) PROVE ListInv'
  BY <1>5 DEF Rewrites, Step, Write, Coalesce
<1>6. ASSUME NEW u \in Updates, DeleteAnswerOptions(u) PROVE ListInv'
  <2>1. arg[u] \in UpdateArg
    BY <1>6, UnderWay DEF DeleteAnswerOptions, Step
  <2>2. arg'[u].erased = options[arg[u].q] /\ arg'[u].q = arg[u].q
    BY <1>6, <2>1 DEF DeleteAnswerOptions, Step, UpdateArg, RequestInv
  <2>. QED
    BY <1>6, <2>2 DEF DeleteAnswerOptions, Step, RequestInv
<1>7. ASSUME NEW u \in Updates, CommitUpdate(u) PROVE ListInv'
  BY <1>7 DEF CommitUpdate, Finish, Step, Written, Release, Edit
<1>8. ASSUME NEW d \in Deletes, StartDelete(d) PROVE ListInv'
  BY <1>8 DEF StartDelete, Open
<1>9. ASSUME NEW d \in Deletes, DeleteQuestion(d) PROVE ListInv'
  BY <1>9 DEF DeleteQuestion, Finish, Step, Edit
<1>10. ASSUME NEW r \in Reorders, StartReorder(r) PROVE ListInv'
  BY <1>10 DEF StartReorder, Open
<1>11. ASSUME NEW r \in Reorders, StartShift(r) PROVE ListInv'
  BY <1>11 DEF StartShift, Step
<1>12. ASSUME NEW r \in Reorders, NEW q \in Questions, Shifts(r, q) PROVE ListInv'
  BY <1>12 DEF Shifts, ToShift, Moves, NewPosition, Step, Write, Mine
<1>13. ASSUME NEW r \in Reorders, EndShift(r) PROVE ListInv'
  BY <1>13 DEF EndShift, Step, ToShift, Mine
<1>14. ASSUME NEW r \in Reorders, NEW q \in Questions, Sets(r, q) PROVE ListInv'
  BY <1>14 DEF Sets, ToPlace, Moves, NewPosition, Step, Write, Mine
<1>15. ASSUME NEW r \in Reorders, CommitReorder(r) PROVE ListInv'
  BY <1>15 DEF CommitReorder, ToPlace, Mine, Finish, Step, Written, Release
<1>16. ASSUME NEW p \in Publishes \cup Copies, ReadQuestions(p) PROVE ListInv'
  BY <1>16 DEF ReadQuestions, Open
<1>17. ASSUME NEW p \in Publishes \cup Copies, ReadOptions(p) PROVE ListInv'
  <2>1. arg[p] \in ReadArg
    BY <1>17 DEF ReadOptions, Step, RequestInv, Suits, HasRead
  <2>2. arg'[p].options = options
    BY <1>17, <2>1 DEF ReadOptions, Step, RequestInv, ReadArg
  <2>. QED
    BY <1>17, <2>2 DEF ReadOptions, Step, RequestInv
<1>18. ASSUME NEW p \in Publishes, SetPublished(p) PROVE ListInv'
  BY <1>18 DEF SetPublished, Finish, Step
<1>19. ASSUME Unpublish PROVE ListInv'
  BY <1>19 DEF Unpublish
<1>20. ASSUME NEW c \in Copies, InsertCopy(c) PROVE ListInv'
  BY <1>20 DEF InsertCopy, Step
<1>21. ASSUME NEW r \in Creates \cup Updates \cup Reorders, Aborts(r) PROVE ListInv'
  BY <1>21 DEF Aborts, Abort, Finish, Step, Rollback, Release
<1>. QED
  BY <1>1, <1>2, <1>3, <1>4, <1>5, <1>6, <1>7, <1>8, <1>9, <1>10, <1>11, <1>12, <1>13,
     <1>14, <1>15, <1>16, <1>17, <1>18, <1>19, <1>20, <1>21 DEF StepOf

\* Every step keeps the order of the last reorder.
LEMMA LastStep ==
  ASSUME BaseInv, ReorderInv, StepOf
  PROVE  LastReorderHolds'
<1>. USE Kinds DEF BaseInv, TableTypes, LockTypes, LockInv, Ended, Requests, Free,
     tableVars, lockVars, ReorderInv, LastReorderHolds, Existing
<1>1. ASSUME NEW c \in Creates, CommitCreate(c) PROVE LastReorderHolds'
  <2>1. /\ at' = [at EXCEPT ![c] = "done"] /\ arg' = [arg EXCEPT ![c] = None]
        /\ \A p \in Questions :
             /\ row'[p] = IF lock[p] = c THEN work[p] ELSE row[p]
             /\ lock'[p] = IF lock[p] = c THEN None ELSE lock[p]
             /\ work'[p] = IF lock[p] = c THEN None ELSE work[p]
    BY <1>1 DEF CommitCreate, Finish, Step, Written, Release
  <2>. QED
    BY <1>1, <2>1 DEF CommitCreate, Finish, Step, NamedInv, CreateInv
<1>2. ASSUME NEW u \in Updates, CommitUpdate(u) PROVE LastReorderHolds'
  <2>1. /\ at' = [at EXCEPT ![u] = "done"] /\ arg' = [arg EXCEPT ![u] = None]
        /\ \A p \in Questions :
             /\ row'[p] = IF lock[p] = u THEN work[p] ELSE row[p]
             /\ lock'[p] = IF lock[p] = u THEN None ELSE lock[p]
             /\ work'[p] = IF lock[p] = u THEN None ELSE work[p]
    BY <1>2 DEF CommitUpdate, Finish, Step, Written, Release
  <2>2. \A q \in Questions : lock[q] = u =>
          /\ q = arg[u].q /\ row[q] \in Row /\ work[q] = Coalesce(u)
    BY <1>2 DEF CommitUpdate, Finish, Step, UpdateInv, VersionInv
  <2>3. \A q \in Questions : lock[q] = u =>
          /\ work[q].idx = row[q].idx
          /\ work[q].type = IF arg[u].type = None THEN row[q].type ELSE arg[u].type
    BY <2>2 DEF Coalesce, Row
  <2>. QED
    BY <2>1, <2>2, <2>3, <1>2 DEF CommitUpdate, Finish, Step
<1>3. ASSUME NEW d \in Deletes, DeleteQuestion(d) PROVE LastReorderHolds'
  BY <1>3 DEF DeleteQuestion, Finish, Step, Edit
<1>4. ASSUME NEW r \in Reorders, CommitReorder(r) PROVE LastReorderHolds'
  <2>1. /\ at' = [at EXCEPT ![r] = "done"] /\ arg' = [arg EXCEPT ![r] = None]
        /\ \A p \in Questions :
             /\ row'[p] = IF lock[p] = r THEN work[p] ELSE row[p]
             /\ lock'[p] = IF lock[p] = r THEN None ELSE lock[p]
             /\ work'[p] = IF lock[p] = r THEN None ELSE work[p]
    BY <1>4 DEF CommitReorder, Finish, Step, Written, Release
  <2>. QED
    BY <1>4, <2>1 DEF CommitReorder, Finish, Step, HeldInv, ToPlace, Mine
<1>5. CASE UNCHANGED <<row, lastOrder>>
  BY <1>5
<1>. QED
  BY <1>1, <1>2, <1>3, <1>4, <1>5 DEF StepOf, StartCreate, Open, Inserts, Moves,
     NewPosition, Step, Write, Mine, StartUpdate, Rewrites, Coalesce,
     DeleteAnswerOptions, StartDelete, StartReorder, StartShift, Shifts, ToShift,
     EndShift, Sets, ToPlace, ReadQuestions, ReadOptions, SetPublished, Finish,
     Unpublish, InsertCopy, Aborts, Abort, Rollback, Release

\* Every step keeps what reorders name.
LEMMA NamedStep ==
  ASSUME BaseInv, NamedInv, StepOf
  PROVE  NamedInv'
<1>. USE Kinds, UnderWay DEF BaseInv, TableTypes, LockTypes, LockInv, Ended, Requests,
     Free, tableVars, lockVars, NamedInv, CreateInv
<1>1. ASSUME NEW c \in Creates, StartCreate(c) PROVE NamedInv'
  BY <1>1 DEF StartCreate, Open
<1>2. ASSUME NEW c \in Creates, Inserts(c) PROVE NamedInv'
  BY <1>2 DEF Inserts, Moves, NewPosition, Step, Write, Mine
<1>3. ASSUME NEW c \in Creates, CommitCreate(c) PROVE NamedInv'
  BY <1>3 DEF CommitCreate, Finish, Step, Written, Release, Edit
<1>4. ASSUME NEW u \in Updates, StartUpdate(u) PROVE NamedInv'
  BY <1>4 DEF StartUpdate, Open
<1>5. ASSUME NEW u \in Updates, Rewrites(u) PROVE NamedInv'
  BY <1>5 DEF Rewrites, Step, Write, Coalesce
<1>6. ASSUME NEW u \in Updates, DeleteAnswerOptions(u) PROVE NamedInv'
  BY <1>6 DEF DeleteAnswerOptions, Step
<1>7. ASSUME NEW u \in Updates, CommitUpdate(u) PROVE NamedInv'
  BY <1>7 DEF CommitUpdate, Finish, Step, Written, Release, Edit
<1>8. ASSUME NEW d \in Deletes, StartDelete(d) PROVE NamedInv'
  BY <1>8 DEF StartDelete, Open
<1>9. ASSUME NEW d \in Deletes, DeleteQuestion(d) PROVE NamedInv'
  BY <1>9 DEF DeleteQuestion, Finish, Step, Edit
<1>10. ASSUME NEW r \in Reorders, StartReorder(r) PROVE NamedInv'
  <2>1. PICK f \in Bijection(Existing, 0 .. Cardinality(Existing) - 1) :
          Open(r, "shift",
               [order |-> [q \in Questions |-> IF q \in Existing THEN f[q] ELSE None],
                scan |-> {}])
    BY <1>10 DEF StartReorder
  <2>. QED
    BY <2>1 DEF Open, Existing, RequestInv
<1>11. ASSUME NEW r \in Reorders, StartShift(r) PROVE NamedInv'
  BY <1>11 DEF StartShift, Step, Existing, ReorderArg
<1>12. ASSUME NEW r \in Reorders, NEW q \in Questions, Shifts(r, q) PROVE NamedInv'
  BY <1>12 DEF Shifts, ToShift, Moves, NewPosition, Step, Write, Mine
<1>13. ASSUME NEW r \in Reorders, EndShift(r) PROVE NamedInv'
  BY <1>13 DEF EndShift, Step, ToShift, Mine
<1>14. ASSUME NEW r \in Reorders, NEW q \in Questions, Sets(r, q) PROVE NamedInv'
  BY <1>14 DEF Sets, ToPlace, Moves, NewPosition, Step, Write, Mine
<1>15. ASSUME NEW r \in Reorders, CommitReorder(r) PROVE NamedInv'
  BY <1>15 DEF CommitReorder, ToPlace, Mine, Finish, Step, Written, Release
<1>16. ASSUME NEW p \in Publishes \cup Copies, ReadQuestions(p) PROVE NamedInv'
  BY <1>16 DEF ReadQuestions, Open
<1>17. ASSUME NEW p \in Publishes \cup Copies, ReadOptions(p) PROVE NamedInv'
  BY <1>17 DEF ReadOptions, Step
<1>18. ASSUME NEW p \in Publishes, SetPublished(p) PROVE NamedInv'
  BY <1>18 DEF SetPublished, Finish, Step
<1>19. ASSUME Unpublish PROVE NamedInv'
  BY <1>19 DEF Unpublish
<1>20. ASSUME NEW c \in Copies, InsertCopy(c) PROVE NamedInv'
  BY <1>20 DEF InsertCopy, Step
<1>21. ASSUME NEW r \in Creates \cup Updates \cup Reorders, Aborts(r) PROVE NamedInv'
  BY <1>21 DEF Aborts, Abort, Finish, Step, Rollback, Release
<1>. QED
  BY <1>1, <1>2, <1>3, <1>4, <1>5, <1>6, <1>7, <1>8, <1>9, <1>10, <1>11, <1>12, <1>13,
     <1>14, <1>15, <1>16, <1>17, <1>18, <1>19, <1>20, <1>21 DEF StepOf

\* Every step keeps the questions that a reorder holds.
LEMMA HeldStep ==
  ASSUME BaseInv, NamedInv, HeldInv, StepOf
  PROVE  HeldInv'
<1>. USE Kinds, UnderWay DEF BaseInv, TableTypes, LockTypes, LockInv, Ended, Requests,
     Free, tableVars, lockVars, HeldInv
<1>1. ASSUME NEW c \in Creates, StartCreate(c) PROVE HeldInv'
  BY <1>1 DEF StartCreate, Open
<1>2. ASSUME NEW c \in Creates, Inserts(c) PROVE HeldInv'
  <2>1. /\ at[c] = "insert"
        /\ at' = [at EXCEPT ![c] = "inserted"]
        /\ arg' = [arg EXCEPT ![c] = None]
        /\ lock' = [lock EXCEPT ![c] = c] /\ row' = row
        /\ work' = [work EXCEPT ![c] = [idx |-> arg[c].idx, type |-> arg[c].type]]
    BY <1>2 DEF Inserts, Moves, Step, Write
  <2>. QED
    BY <1>2, <2>1 DEF Inserts, CreateInv, ToShift, ToPlace, Mine
<1>3. ASSUME NEW c \in Creates, CommitCreate(c) PROVE HeldInv'
  <2>1. /\ at' = [at EXCEPT ![c] = "done"] /\ arg' = [arg EXCEPT ![c] = None]
        /\ \A p \in Questions :
             /\ row'[p] = IF lock[p] = c THEN work[p] ELSE row[p]
             /\ lock'[p] = IF lock[p] = c THEN None ELSE lock[p]
             /\ work'[p] = IF lock[p] = c THEN None ELSE work[p]
    BY <1>3 DEF CommitCreate, Finish, Step, Written, Release
  <2>. QED
    BY <1>3, <2>1 DEF CommitCreate, Finish, Step, NamedInv, VersionInv, CreateInv
<1>4. ASSUME NEW u \in Updates, StartUpdate(u) PROVE HeldInv'
  BY <1>4 DEF StartUpdate, Open
<1>5. ASSUME NEW u \in Updates, Rewrites(u) PROVE HeldInv'
  <2>1. /\ at[u] = "update"
        /\ at' = [at EXCEPT ![u] = IF keys[u] = None THEN "updated" ELSE "options"]
        /\ arg' = [arg EXCEPT ![u] = arg[u]]
        /\ lock' = [lock EXCEPT ![arg[u].q] = u] /\ row' = row
        /\ work' = [work EXCEPT ![arg[u].q] = Coalesce(u)]
    BY <1>5 DEF Rewrites, Step, Write
  <2>. QED
    BY <1>5, <2>1 DEF Rewrites, CreateInv, ToShift, ToPlace, Mine
<1>6. ASSUME NEW u \in Updates, DeleteAnswerOptions(u) PROVE HeldInv'
  BY <1>6 DEF DeleteAnswerOptions, Step
<1>7. ASSUME NEW u \in Updates, CommitUpdate(u) PROVE HeldInv'
  <2>1. /\ at' = [at EXCEPT ![u] = "done"] /\ arg' = [arg EXCEPT ![u] = None]
        /\ \A p \in Questions :
             /\ row'[p] = IF lock[p] = u THEN work[p] ELSE row[p]
             /\ lock'[p] = IF lock[p] = u THEN None ELSE lock[p]
             /\ work'[p] = IF lock[p] = u THEN None ELSE work[p]
    BY <1>7 DEF CommitUpdate, Finish, Step, Written, Release
  <2>. QED
    BY <1>7, <2>1 DEF CommitUpdate, Finish, Step, NamedInv, VersionInv, CreateInv
<1>8. ASSUME NEW d \in Deletes, StartDelete(d) PROVE HeldInv'
  BY <1>8 DEF StartDelete, Open
<1>9. ASSUME NEW d \in Deletes, DeleteQuestion(d) PROVE HeldInv'
  BY <1>9 DEF DeleteQuestion, Finish, Step, Edit
<1>10. ASSUME NEW r \in Reorders, StartReorder(r) PROVE HeldInv'
  BY <1>10 DEF StartReorder, Open
<1>11. ASSUME NEW r \in Reorders, StartShift(r) PROVE HeldInv'
  BY <1>11 DEF StartShift, Step, Existing, ReorderArg, RequestInv
<1>12. ASSUME NEW r \in Reorders, NEW q \in Questions, Shifts(r, q) PROVE HeldInv'
  <2>1. /\ at[r] = "shifting"
        /\ at' = [at EXCEPT ![r] = "shifting"]
        /\ arg' = [arg EXCEPT ![r] = arg[r]]
        /\ lock' = [lock EXCEPT ![q] = r] /\ row' = row
        /\ work' = [work EXCEPT ![q] = [idx |-> row[q].idx + Shift, type |-> row[q].type]]
    BY <1>12 DEF Shifts, Moves, Step, Write
  <2>. QED
    BY <1>12, <2>1 DEF Shifts, CreateInv, ToShift, ToPlace, Mine
<1>13. ASSUME NEW r \in Reorders, EndShift(r) PROVE HeldInv'
  BY <1>13 DEF EndShift, Step, ToShift, Mine, Existing
<1>14. ASSUME NEW r \in Reorders, NEW q \in Questions, Sets(r, q) PROVE HeldInv'
  <2>1. /\ at[r] = "setting"
        /\ at' = [at EXCEPT ![r] = "setting"]
        /\ arg' = [arg EXCEPT ![r] = arg[r]]
        /\ lock' = [lock EXCEPT ![q] = r] /\ row' = row
        /\ work' = [work EXCEPT ![q] = [idx |-> arg[r].order[q], type |-> work[q].type]]
    BY <1>14 DEF Sets, Moves, Step, Write
  <2>. QED
    BY <1>14, <2>1 DEF Sets, CreateInv, ToShift, ToPlace, Mine
<1>15. ASSUME NEW r \in Reorders, CommitReorder(r) PROVE HeldInv'
  <2>1. /\ at' = [at EXCEPT ![r] = "done"] /\ arg' = [arg EXCEPT ![r] = None]
        /\ \A p \in Questions :
             /\ row'[p] = IF lock[p] = r THEN work[p] ELSE row[p]
             /\ lock'[p] = IF lock[p] = r THEN None ELSE lock[p]
             /\ work'[p] = IF lock[p] = r THEN None ELSE work[p]
    BY <1>15 DEF CommitReorder, Finish, Step, Written, Release
  <2>. QED
    BY <1>15, <2>1 DEF CommitReorder, Finish, Step, NamedInv, VersionInv, CreateInv
<1>16. ASSUME NEW p \in Publishes \cup Copies, ReadQuestions(p) PROVE HeldInv'
  BY <1>16 DEF ReadQuestions, Open
<1>17. ASSUME NEW p \in Publishes \cup Copies, ReadOptions(p) PROVE HeldInv'
  BY <1>17 DEF ReadOptions, Step
<1>18. ASSUME NEW p \in Publishes, SetPublished(p) PROVE HeldInv'
  BY <1>18 DEF SetPublished, Finish, Step
<1>19. ASSUME Unpublish PROVE HeldInv'
  BY <1>19 DEF Unpublish
<1>20. ASSUME NEW c \in Copies, InsertCopy(c) PROVE HeldInv'
  BY <1>20 DEF InsertCopy, Step
<1>21. ASSUME NEW r \in Creates \cup Updates \cup Reorders, Aborts(r) PROVE HeldInv'
  <2>1. /\ at' = [at EXCEPT ![r] = "failed"] /\ arg' = [arg EXCEPT ![r] = None]
        /\ \A p \in Questions :
             /\ row'[p] = row[p]
             /\ lock'[p] = IF lock[p] = r THEN None ELSE lock[p]
             /\ work'[p] = IF lock[p] = r THEN None ELSE work[p]
    BY <1>21 DEF Aborts, Abort, Finish, Step, Rollback, Release
  <2>. QED
    BY <1>21, <2>1 DEF Aborts
<1>. QED
  BY <1>1, <1>2, <1>3, <1>4, <1>5, <1>6, <1>7, <1>8, <1>9, <1>10, <1>11, <1>12, <1>13,
     <1>14, <1>15, <1>16, <1>17, <1>18, <1>19, <1>20, <1>21 DEF StepOf

\* Every step keeps one correct option for each single-choice question.
LEMMA SingleStep ==
  ASSUME BaseInv, ListInv, WholeInv, StepOf
  PROVE  SingleHasOneCorrect'
<1>. USE Kinds, UnderWay DEF BaseInv, TableTypes, LockTypes, LockInv, Ended, Requests,
     Free, tableVars, lockVars, WholeInv, SingleHasOneCorrect, Existing, ListInv, Lists
<1>1. ASSUME NEW c \in Creates, StartCreate(c) PROVE SingleHasOneCorrect'
  BY <1>1 DEF StartCreate, Open, Writers
<1>2. ASSUME NEW c \in Creates, CommitCreate(c) PROVE SingleHasOneCorrect'
  <2>1. /\ at' = [at EXCEPT ![c] = "done"] /\ arg' = [arg EXCEPT ![c] = None]
        /\ \A p \in Questions :
             /\ row'[p] = IF lock[p] = c THEN work[p] ELSE row[p]
             /\ lock'[p] = IF lock[p] = c THEN None ELSE lock[p]
             /\ work'[p] = IF lock[p] = c THEN None ELSE work[p]
    BY <1>2 DEF CommitCreate, Finish, Step, Written, Release
  <2>. QED
    BY <1>2, <2>1 DEF CommitCreate, Finish, Step, CheckedInv, ValidDraft, CreateInv
<1>3. ASSUME NEW u \in Updates, StartUpdate(u) PROVE SingleHasOneCorrect'
  BY <1>3 DEF StartUpdate, Open, Writers
<1>4. ASSUME NEW u \in Updates, CommitUpdate(u) PROVE SingleHasOneCorrect'
  <2>1. /\ at' = [at EXCEPT ![u] = "done"] /\ arg' = [arg EXCEPT ![u] = None]
        /\ \A p \in Questions :
             /\ row'[p] = IF lock[p] = u THEN work[p] ELSE row[p]
             /\ lock'[p] = IF lock[p] = u THEN None ELSE lock[p]
             /\ work'[p] = IF lock[p] = u THEN None ELSE work[p]
    BY <1>4 DEF CommitUpdate, Finish, Step, Written, Release
  <2>2. \A q \in Questions : lock[q] = u =>
          /\ q = arg[u].q /\ row[q] \in Row /\ work[q] = Coalesce(u)
    BY <1>4 DEF CommitUpdate, Finish, Step, UpdateInv, VersionInv
  <2>3. \A q \in Questions : lock[q] = u =>
          /\ work[q].idx = row[q].idx
          /\ work[q].type = IF arg[u].type = None THEN row[q].type ELSE arg[u].type
    BY <2>2 DEF Coalesce, Row
  <2>4. keys[u] # None /\ arg[u].q \in Questions => options'[arg[u].q] = {u}
    BY <1>4 DEF CommitUpdate, Finish, Step
  <2>5. wholeForms => keys[u] # None /\ (arg[u].type = "single" => keys[u] <= 1)
                      /\ arg[u].type # None
    BY <1>4 DEF CommitUpdate, Finish, Step, CheckedInv, ValidDraft
  <2>6. /\ keys' = keys /\ wholeForms' = wholeForms
        /\ \A q \in Questions : options'[q] # options[q] => q = arg[u].q
    BY <1>4 DEF CommitUpdate, Finish, Step
  <2>7. lock[arg[u].q] = u /\ arg[u].q \in Questions
    BY <1>4 DEF CommitUpdate, Finish, Step, UpdateInv
  <2>8. ASSUME wholeForms, NEW q \in Questions, row'[q] # None, row'[q].type = "single",
               NEW w \in options'[q]
        PROVE  keys[w] <= 1
    <3>1. CASE q = arg[u].q
      <4>1. w = u /\ arg[u].type = "single"
        BY <2>1, <2>2, <2>3, <2>4, <2>5, <2>7, <2>8, <3>1
      <4>. QED
        BY <2>5, <2>8, <4>1
    <3>2. CASE q # arg[u].q
      <4>1. row'[q] = row[q] /\ options'[q] = options[q]
        BY <2>1, <2>2, <2>6, <3>2
      <4>. QED
        BY <2>8, <4>1 DEF SingleHasOneCorrect, Existing
    <3>. QED
      BY <3>1, <3>2
  <2>. QED
    BY <2>6, <2>8 DEF SingleHasOneCorrect, Existing
<1>5. ASSUME NEW d \in Deletes, DeleteQuestion(d) PROVE SingleHasOneCorrect'
  BY <1>5 DEF DeleteQuestion, Finish, Step, Edit
<1>6. ASSUME NEW r \in Reorders, CommitReorder(r) PROVE SingleHasOneCorrect'
  <2>1. /\ at' = [at EXCEPT ![r] = "done"] /\ arg' = [arg EXCEPT ![r] = None]
        /\ \A p \in Questions :
             /\ row'[p] = IF lock[p] = r THEN work[p] ELSE row[p]
             /\ lock'[p] = IF lock[p] = r THEN None ELSE lock[p]
             /\ work'[p] = IF lock[p] = r THEN None ELSE work[p]
    BY <1>6 DEF CommitReorder, Finish, Step, Written, Release
  <2>. QED
    BY <1>6, <2>1 DEF CommitReorder, Finish, Step, ShiftInv, VersionInv
<1>7. CASE UNCHANGED <<row, options, keys, wholeForms>>
  BY <1>7
<1>. QED
  BY <1>1, <1>2, <1>3, <1>4, <1>5, <1>6, <1>7 DEF StepOf, Inserts, Moves, NewPosition,
     Step, Write, Mine, Rewrites, Coalesce, DeleteAnswerOptions, StartDelete, Open,
     StartReorder, StartShift, Shifts, ToShift, EndShift, Sets, ToPlace, ReadQuestions,
     ReadOptions, SetPublished, Finish, Unpublish, InsertCopy, Aborts, Abort, Rollback,
     Release

\* Every step keeps what was checked.
LEMMA CheckedStep ==
  ASSUME BaseInv, CheckedInv, StepOf
  PROVE  CheckedInv'
<1>. USE Kinds, UnderWay DEF BaseInv, TableTypes, LockTypes, LockInv, Ended, Requests,
     Free, tableVars, lockVars, CheckedInv
<1>1. ASSUME NEW c \in Creates, StartCreate(c) PROVE CheckedInv'
  <2>1. PICK f \in Forms \cap WholeForm, x \in Candidates :
          /\ ValidDraft(f.type, f.keys) /\ Open(c, "insert", [idx |-> x, type |-> f.type])
          /\ keys' = [keys EXCEPT ![c] = f.keys]
    BY <1>1 DEF StartCreate
  <2>. QED
    BY <2>1 DEF Open, Writers, RequestInv
<1>2. ASSUME NEW c \in Creates, Inserts(c) PROVE CheckedInv'
  <2>1. /\ at[c] = "insert"
        /\ at' = [at EXCEPT ![c] = "inserted"]
        /\ arg' = [arg EXCEPT ![c] = None]
        /\ lock' = [lock EXCEPT ![c] = c] /\ row' = row
        /\ work' = [work EXCEPT ![c] = [idx |-> arg[c].idx, type |-> arg[c].type]]
    BY <1>2 DEF Inserts, Moves, Step, Write
  <2>. QED
    BY <1>2, <2>1 DEF Inserts, CreateInv, Step, Moves, VersionInv, ToPlace, Mine
<1>3. ASSUME NEW c \in Creates, CommitCreate(c) PROVE CheckedInv'
  <2>1. /\ at' = [at EXCEPT ![c] = "done"] /\ arg' = [arg EXCEPT ![c] = None]
        /\ \A p \in Questions :
             /\ row'[p] = IF lock[p] = c THEN work[p] ELSE row[p]
             /\ lock'[p] = IF lock[p] = c THEN None ELSE lock[p]
             /\ work'[p] = IF lock[p] = c THEN None ELSE work[p]
    BY <1>3 DEF CommitCreate, Finish, Step, Written, Release
  <2>. QED
    BY <1>3, <2>1 DEF CommitCreate, Finish, Step, CreateInv
<1>4. ASSUME NEW u \in Updates, StartUpdate(u) PROVE CheckedInv'
  <2>1. PICK q \in Existing, f \in Forms :
          /\ wholeForms => f \in WholeForm
          /\ ValidDraft(EffectiveType(q, f), f.keys)
          /\ Open(u, "update", [q |-> q, type |-> f.type, erased |-> {}])
          /\ keys' = [keys EXCEPT ![u] = f.keys]
    BY <1>4 DEF StartUpdate
  <2>2. wholeForms => f.type # None /\ f.keys # None /\ ValidDraft(f.type, f.keys)
    BY <2>1 DEF EffectiveType, WholeForm, Keys
  <2>. QED
    BY <2>1, <2>2 DEF Open, Writers, RequestInv
<1>5. ASSUME NEW u \in Updates, Rewrites(u) PROVE CheckedInv'
  <2>1. /\ at[u] = "update"
        /\ at' = [at EXCEPT ![u] = IF keys[u] = None THEN "updated" ELSE "options"]
        /\ arg' = [arg EXCEPT ![u] = arg[u]]
        /\ lock' = [lock EXCEPT ![arg[u].q] = u] /\ row' = row
        /\ work' = [work EXCEPT ![arg[u].q] = Coalesce(u)]
    BY <1>5 DEF Rewrites, Step, Write
  <2>. QED
    BY <1>5, <2>1 DEF Rewrites, CreateInv, Step, Moves, VersionInv, ToPlace, Mine
<1>6. ASSUME NEW u \in Updates, DeleteAnswerOptions(u) PROVE CheckedInv'
  BY <1>6 DEF DeleteAnswerOptions, Step, UpdateArg, RequestInv
<1>7. ASSUME NEW u \in Updates, CommitUpdate(u) PROVE CheckedInv'
  <2>1. /\ at' = [at EXCEPT ![u] = "done"] /\ arg' = [arg EXCEPT ![u] = None]
        /\ \A p \in Questions :
             /\ row'[p] = IF lock[p] = u THEN work[p] ELSE row[p]
             /\ lock'[p] = IF lock[p] = u THEN None ELSE lock[p]
             /\ work'[p] = IF lock[p] = u THEN None ELSE work[p]
    BY <1>7 DEF CommitUpdate, Finish, Step, Written, Release
  <2>. QED
    BY <1>7, <2>1 DEF CommitUpdate, Finish, Step, CreateInv
<1>8. ASSUME NEW d \in Deletes, StartDelete(d) PROVE CheckedInv'
  BY <1>8 DEF StartDelete, Open, UpdateArg, RequestInv
<1>9. ASSUME NEW d \in Deletes, DeleteQuestion(d) PROVE CheckedInv'
  BY <1>9 DEF DeleteQuestion, Finish, Step, Edit, UpdateArg, RequestInv
<1>10. ASSUME NEW r \in Reorders, StartReorder(r) PROVE CheckedInv'
  BY <1>10 DEF StartReorder, Open, UpdateArg, RequestInv
<1>11. ASSUME NEW r \in Reorders, StartShift(r) PROVE CheckedInv'
  BY <1>11 DEF StartShift, Step, UpdateArg, RequestInv
<1>12. ASSUME NEW r \in Reorders, NEW q \in Questions, Shifts(r, q) PROVE CheckedInv'
  <2>1. /\ at[r] = "shifting"
        /\ at' = [at EXCEPT ![r] = "shifting"]
        /\ arg' = [arg EXCEPT ![r] = arg[r]]
        /\ lock' = [lock EXCEPT ![q] = r] /\ row' = row
        /\ work' = [work EXCEPT ![q] = [idx |-> row[q].idx + Shift, type |-> row[q].type]]
    BY <1>12 DEF Shifts, Moves, Step, Write
  <2>. QED
    BY <1>12, <2>1 DEF Shifts, CreateInv, Step, Moves, VersionInv, ToPlace, Mine
<1>13. ASSUME NEW r \in Reorders, EndShift(r) PROVE CheckedInv'
  BY <1>13 DEF EndShift, Step, ToShift, Mine, UpdateArg, RequestInv
<1>14. ASSUME NEW r \in Reorders, NEW q \in Questions, Sets(r, q) PROVE CheckedInv'
  <2>1. /\ at[r] = "setting"
        /\ at' = [at EXCEPT ![r] = "setting"]
        /\ arg' = [arg EXCEPT ![r] = arg[r]]
        /\ lock' = [lock EXCEPT ![q] = r] /\ row' = row
        /\ work' = [work EXCEPT ![q] = [idx |-> arg[r].order[q], type |-> work[q].type]]
    BY <1>14 DEF Sets, Moves, Step, Write
  <2>. QED
    BY <1>14, <2>1 DEF Sets, CreateInv, Step, Moves, VersionInv, ToPlace, Mine
<1>15. ASSUME NEW r \in Reorders, CommitReorder(r) PROVE CheckedInv'
  <2>1. /\ at' = [at EXCEPT ![r] = "done"] /\ arg' = [arg EXCEPT ![r] = None]
        /\ \A p \in Questions :
             /\ row'[p] = IF lock[p] = r THEN work[p] ELSE row[p]
             /\ lock'[p] = IF lock[p] = r THEN None ELSE lock[p]
             /\ work'[p] = IF lock[p] = r THEN None ELSE work[p]
    BY <1>15 DEF CommitReorder, Finish, Step, Written, Release
  <2>. QED
    BY <1>15, <2>1 DEF CommitReorder, Finish, Step, CreateInv
<1>16. ASSUME NEW p \in Publishes \cup Copies, ReadQuestions(p) PROVE CheckedInv'
  BY <1>16 DEF ReadQuestions, Open, UpdateArg, RequestInv
<1>17. ASSUME NEW p \in Publishes \cup Copies, ReadOptions(p) PROVE CheckedInv'
  BY <1>17 DEF ReadOptions, Step, UpdateArg, RequestInv
<1>18. ASSUME NEW p \in Publishes, SetPublished(p) PROVE CheckedInv'
  BY <1>18 DEF SetPublished, Finish, Step, UpdateArg, RequestInv
<1>19. ASSUME Unpublish PROVE CheckedInv'
  BY <1>19 DEF Unpublish, UpdateArg, RequestInv
<1>20. ASSUME NEW c \in Copies, InsertCopy(c) PROVE CheckedInv'
  BY <1>20 DEF InsertCopy, Step, UpdateArg, RequestInv
<1>21. ASSUME NEW r \in Creates \cup Updates \cup Reorders, Aborts(r) PROVE CheckedInv'
  <2>1. /\ at' = [at EXCEPT ![r] = "failed"] /\ arg' = [arg EXCEPT ![r] = None]
        /\ \A p \in Questions :
             /\ row'[p] = row[p]
             /\ lock'[p] = IF lock[p] = r THEN None ELSE lock[p]
             /\ work'[p] = IF lock[p] = r THEN None ELSE work[p]
    BY <1>21 DEF Aborts, Abort, Finish, Step, Rollback, Release
  <2>. QED
    BY <1>21, <2>1 DEF Aborts, Abort, Finish, Step, CreateInv
<1>. QED
  BY <1>1, <1>2, <1>3, <1>4, <1>5, <1>6, <1>7, <1>8, <1>9, <1>10, <1>11, <1>12, <1>13,
     <1>14, <1>15, <1>16, <1>17, <1>18, <1>19, <1>20, <1>21 DEF StepOf

\* Every step keeps what a publication has read.
LEMMA PublishStep ==
  ASSUME BaseInv, ListInv, PublishInv, StepOf
  PROVE  PublishInv'
<1>. USE Kinds DEF BaseInv, TableTypes, LockTypes, LockInv, Ended, Requests, Free,
     tableVars, lockVars, PublishInv, PublishedIsPlayable, AsRead, Existing
<1>1. ASSUME NEW c \in Creates, StartCreate(c) PROVE PublishInv'
  BY <1>1 DEF StartCreate, Open, ListInv, Lists, Writers
<1>2. ASSUME NEW c \in Creates, Inserts(c) PROVE PublishInv'
  BY <1>2 DEF Inserts, Moves, NewPosition, Step, Write, Mine
<1>3. ASSUME NEW c \in Creates, CommitCreate(c) PROVE PublishInv'
  BY <1>3 DEF CommitCreate, Finish, Step, Written, Release, Edit
<1>4. ASSUME NEW u \in Updates, StartUpdate(u) PROVE PublishInv'
  BY <1>4 DEF StartUpdate, Open, ListInv, Lists, Writers
<1>5. ASSUME NEW u \in Updates, Rewrites(u) PROVE PublishInv'
  BY <1>5 DEF Rewrites, Step, Write, Coalesce
<1>6. ASSUME NEW u \in Updates, DeleteAnswerOptions(u) PROVE PublishInv'
  BY <1>6 DEF DeleteAnswerOptions, Step
<1>7. ASSUME NEW u \in Updates, CommitUpdate(u) PROVE PublishInv'
  BY <1>7 DEF CommitUpdate, Finish, Step, Written, Release, Edit
<1>8. ASSUME NEW d \in Deletes, StartDelete(d) PROVE PublishInv'
  BY <1>8 DEF StartDelete, Open
<1>9. ASSUME NEW d \in Deletes, DeleteQuestion(d) PROVE PublishInv'
  BY <1>9 DEF DeleteQuestion, Finish, Step, Edit
<1>10. ASSUME NEW r \in Reorders, StartReorder(r) PROVE PublishInv'
  BY <1>10 DEF StartReorder, Open
<1>11. ASSUME NEW r \in Reorders, StartShift(r) PROVE PublishInv'
  BY <1>11 DEF StartShift, Step
<1>12. ASSUME NEW r \in Reorders, NEW q \in Questions, Shifts(r, q) PROVE PublishInv'
  BY <1>12 DEF Shifts, ToShift, Moves, NewPosition, Step, Write, Mine
<1>13. ASSUME NEW r \in Reorders, EndShift(r) PROVE PublishInv'
  BY <1>13 DEF EndShift, Step, ToShift, Mine
<1>14. ASSUME NEW r \in Reorders, NEW q \in Questions, Sets(r, q) PROVE PublishInv'
  BY <1>14 DEF Sets, ToPlace, Moves, NewPosition, Step, Write, Mine
<1>15. ASSUME NEW r \in Reorders, CommitReorder(r) PROVE PublishInv'
  <2>1. /\ at' = [at EXCEPT ![r] = "done"] /\ arg' = [arg EXCEPT ![r] = None]
        /\ \A p \in Questions :
             /\ row'[p] = IF lock[p] = r THEN work[p] ELSE row[p]
             /\ lock'[p] = IF lock[p] = r THEN None ELSE lock[p]
             /\ work'[p] = IF lock[p] = r THEN None ELSE work[p]
    BY <1>15 DEF CommitReorder, Finish, Step, Written, Release
  <2>. QED
    BY <1>15, <2>1 DEF CommitReorder, Finish, Step, ShiftInv, VersionInv
<1>16. ASSUME NEW p \in Publishes \cup Copies, ReadQuestions(p) PROVE PublishInv'
  BY <1>16 DEF ReadQuestions, Open, RequestInv
<1>17. ASSUME NEW p \in Publishes \cup Copies, ReadOptions(p) PROVE PublishInv'
  BY <1>17 DEF ReadOptions, Step, RequestInv, Suits, HasRead, ReadArg
<1>18. ASSUME NEW p \in Publishes, SetPublished(p) PROVE PublishInv'
  BY <1>18 DEF SetPublished, Finish, Step, QuizPlayable, Playable
<1>19. ASSUME Unpublish PROVE PublishInv'
  BY <1>19 DEF Unpublish
<1>20. ASSUME NEW c \in Copies, InsertCopy(c) PROVE PublishInv'
  BY <1>20 DEF InsertCopy, Step
<1>21. ASSUME NEW r \in Creates \cup Updates \cup Reorders, Aborts(r) PROVE PublishInv'
  BY <1>21 DEF Aborts, Abort, Finish, Step, Rollback, Release
<1>. QED
  BY <1>1, <1>2, <1>3, <1>4, <1>5, <1>6, <1>7, <1>8, <1>9, <1>10, <1>11, <1>12, <1>13,
     <1>14, <1>15, <1>16, <1>17, <1>18, <1>19, <1>20, <1>21 DEF StepOf

-----------------------------------------------------------------------------
(***************************************************************************)
(* Theorems.                                                               *)
(***************************************************************************)
LEMMA InitInv == Init => IInv
<1>. SUFFICES ASSUME Init PROVE IInv
  OBVIOUS
<1>. USE QuizAssumption, Kinds DEF Init
<1>1. \A q \in Questions : row[q] # None => q \in DOMAIN Earlier /\ row[q].idx = Earlier[q]
  BY DEF Creates
<1>2. \A q \in DOMAIN Earlier : Earlier[q] \in Nat
  BY DEF Range
<1>3. TableTypes
  BY <1>1, <1>2 DEF TableTypes, Row, Types, Lists, Writers, Keys, Unordered, Order,
     Creates
<1>4. LockTypes /\ RequestInv /\ LockInv
  BY DEF LockTypes, RequestInv, Suits, LockInv, VersionInv, CreateInv, UpdateInv,
     ShiftInv,
         Free, Ended, Requests, Row, Creates
<1>5. PositionInv
  BY <1>1, <1>2 DEF PositionInv, Free, IsInjective
<1>6. ListInv
  BY DEF ListInv, OptionsAreOneList, Writers, Requests, Creates, Keys, UpdateInv
<1>7. ReorderInv /\ PublishInv
  <2>1. ReorderInv
    BY DEF ReorderInv, LastReorderHolds, NamedInv, HeldInv, Unordered, Requests, Ended,
       Existing
  <2>2. PublishInv
    BY DEF PublishInv, PublishedIsPlayable, Requests, Ended
  <2>. QED
    BY <2>1, <2>2
<1>8. WholeInv
  BY DEF WholeInv, SingleHasOneCorrect, CheckedInv, Writers, Existing, Requests, Ended,
     Creates
<1>. QED
  BY <1>3, <1>4, <1>5, <1>6, <1>7, <1>8 DEF IInv, BaseInv

\* Every step keeps the inductive invariant.
LEMMA NextInv ==
  ASSUME IInv, [Next]_vars
  PROVE  IInv'
<1>1. CASE StepOf
  <2>1. BaseInv'
    BY <1>1, TableTypesStep, LockTypesStep, RequestStep, VersionStep, CreateStep,
       UpdateStep,
       ShiftStep DEF IInv, BaseInv, LockInv
  <2>2. PositionInv' /\ ListInv'
    BY <1>1, PositionStep, ListStep DEF IInv
  <2>3. ReorderInv'
    BY <1>1, LastStep, NamedStep, HeldStep DEF IInv, ReorderInv
  <2>4. WholeInv' /\ PublishInv'
    BY <1>1, SingleStep, CheckedStep, PublishStep DEF IInv, WholeInv
  <2>. QED
    BY <2>1, <2>2, <2>3, <2>4 DEF IInv
<1>2. CASE UNCHANGED vars
  <2>. USE <1>2 DEF IInv, vars, tableVars, lockVars
  <2>1. BaseInv'
    BY DEF BaseInv, TableTypes, LockTypes, RequestInv, LockInv, VersionInv, CreateInv,
           UpdateInv, ShiftInv, Free, Coalesce
  <2>2. PositionInv' /\ ListInv'
    BY DEF PositionInv, ListInv, OptionsAreOneList, Free
  <2>3. ReorderInv' /\ WholeInv'
    BY DEF ReorderInv, LastReorderHolds, NamedInv, HeldInv, WholeInv,
       SingleHasOneCorrect,
           CheckedInv, Existing
  <2>4. PublishInv'
    BY DEF PublishInv, PublishedIsPlayable, AsRead, Existing
  <2>. QED
    BY <2>1, <2>2, <2>3, <2>4
<1>. QED
  BY <1>1, <1>2, NextSteps DEF IInv

\* The inductive invariant holds in every reachable state.
LEMMA Invariance == Spec => []IInv
  BY InitInv, NextInv, PTL DEF Spec

\* Every variable has its type, and no two questions share a position.
THEOREM TypeCorrect == Spec => []TypeOK
<1>1. IInv => TypeOK
  BY ArgsAreTyped DEF IInv, BaseInv, TypeOK, PositionInv, Existing
<1>. QED
  BY <1>1, Invariance, PTL

\* However updates overlap, the options of a question are one request's list.
THEOREM OptionsAreSafe == Spec => []OptionsAreOneList
<1>1. IInv => OptionsAreOneList
  BY DEF IInv, ListInv
<1>. QED
  BY <1>1, Invariance, PTL

\* However reorders overlap with each other and with the other requests, the last one
\* that committed holds.
THEOREM ReorderIsSafe == Spec => []LastReorderHolds
<1>1. IInv => LastReorderHolds
  BY DEF IInv, ReorderInv
<1>. QED
  BY <1>1, Invariance, PTL

\* With the builder's updates, a single-choice question has one correct option at most.
THEOREM SingleIsSafe == Spec => []SingleHasOneCorrect
<1>1. IInv => SingleHasOneCorrect
  BY DEF IInv, WholeInv
<1>. QED
  BY <1>1, Invariance, PTL

\* A published quiz that was not edited since the request first read it can be played.
THEOREM PublishIsSafe == Spec => []PublishedIsPlayable
<1>1. IInv => PublishedIsPlayable
  BY DEF IInv, PublishInv
<1>. QED
  BY <1>1, Invariance, PTL

\* However requests overlap, the questions stay whole.
THEOREM QuestionsAreSafe == Spec => []QuestionsStayWhole
  BY OptionsAreSafe, SingleIsSafe, PublishIsSafe, PTL DEF QuestionsStayWhole

\* Every step changes only what its request was sent.
LEMMA EditsStep ==
  ASSUME IInv, StepOf
  PROVE  \A q \in Existing : row'[q] # None =>
    /\ row'[q].type # row[q].type =>
         \E u \in Updates : Commits(u) /\ arg[u].q = q /\ arg[u].type = row'[q].type
    /\ row'[q].idx # row[q].idx => \E r \in Reorders :
         Commits(r) /\ row'[q].idx = IF arg[r].order[q] = None THEN row[q].idx + Shift
                                                              ELSE arg[r].order[q]
    /\ options'[q] # options[q] => \E u \in Updates : Commits(u) /\ options'[q] = {u}
<1>. SUFFICES ASSUME NEW k \in Existing, row'[k] # None
              PROVE  /\ row'[k].type # row[k].type => \E u \in Updates :
                          Commits(u) /\ arg[u].q = k /\ arg[u].type = row'[k].type
                     /\ row'[k].idx # row[k].idx => \E r \in Reorders :
                          /\ Commits(r)
                          /\ row'[k].idx = IF arg[r].order[k] = None THEN row[k].idx + Shift
                                                                    ELSE arg[r].order[k]
                     /\ options'[k] # options[k] => \E u \in Updates :
                          Commits(u) /\ options'[k] = {u}
  OBVIOUS
<1>. USE Kinds, UnderWay DEF IInv, BaseInv, TableTypes, LockTypes, LockInv, Existing, Requests
<1>. k \in Questions /\ row[k] # None /\ row[k] \in Row
  BY DEF Existing

<1>1. ASSUME NEW c \in Creates, CommitCreate(c)
      PROVE  row'[k] = row[k] /\ options'[k] = options[k]
  <2>1. lock[k] # c /\ k # c
    BY <1>1 DEF CommitCreate, Finish, Step, CreateInv, Ended
  <2>. QED
    BY <1>1, <2>1 DEF CommitCreate, Written, Lists
<1>2. ASSUME NEW u \in Updates, CommitUpdate(u)
      PROVE  /\ Commits(u) /\ row'[k].idx = row[k].idx
             /\ row'[k].type # row[k].type => arg[u].q = k /\ arg[u].type = row'[k].type
             /\ options'[k] # options[k] => options'[k] = {u}
  <2>1. /\ at' = [at EXCEPT ![u] = "done"] /\ arg' = [arg EXCEPT ![u] = None]
        /\ \A p \in Questions :
             /\ row'[p] = IF lock[p] = u THEN work[p] ELSE row[p]
             /\ lock'[p] = IF lock[p] = u THEN None ELSE lock[p]
             /\ work'[p] = IF lock[p] = u THEN None ELSE work[p]
    BY <1>2 DEF CommitUpdate, Finish, Step, Written, Release
  <2>2. \A q \in Questions : lock[q] = u =>
          /\ q = arg[u].q /\ row[q] \in Row /\ work[q] = Coalesce(u)
    BY <1>2 DEF CommitUpdate, Finish, Step, UpdateInv, VersionInv
  <2>3. \A q \in Questions : lock[q] = u =>
          /\ work[q].idx = row[q].idx
          /\ work[q].type = IF arg[u].type = None THEN row[q].type ELSE arg[u].type
    BY <2>2 DEF Coalesce, Row
  <2>4. Commits(u)
    BY <1>2 DEF Commits, CommitUpdate, Finish, Step, Ended
  <2>5. /\ row'[k].idx = row[k].idx
        /\ row'[k].type # row[k].type => arg[u].q = k /\ arg[u].type = row'[k].type
    <3>1. CASE lock[k] = u
      <4>1. row'[k] = work[k] /\ arg[u].q = k
        BY <2>1, <2>2, <3>1
      <4>2. /\ work[k].idx = row[k].idx
            /\ work[k].type = IF arg[u].type = None THEN row[k].type ELSE arg[u].type
        BY <2>3, <3>1
      <4>. QED
        BY <4>1, <4>2
    <3>2. CASE lock[k] # u
      BY <2>1, <3>2
    <3>. QED
      BY <3>1, <3>2
  <2>6. options'[k] # options[k] => options'[k] = {u}
    BY <1>2 DEF CommitUpdate, Finish, Step, ListInv, Ended, Lists
  <2>. QED
    BY <2>4, <2>5, <2>6
<1>3. ASSUME NEW d \in Deletes, DeleteQuestion(d)
      PROVE  row'[k] = row[k] /\ options'[k] = options[k]
  BY <1>3 DEF DeleteQuestion, Finish, Step, Ended, Lists
<1>4. ASSUME NEW r \in Reorders, CommitReorder(r)
      PROVE  /\ Commits(r) /\ row'[k].type = row[k].type /\ options'[k] = options[k]
             /\ row'[k].idx # row[k].idx =>
                  row'[k].idx = IF arg[r].order[k] = None THEN row[k].idx + Shift
                                                          ELSE arg[r].order[k]
  <2>1. Commits(r)
    BY <1>4 DEF Commits, CommitReorder, Finish, Step, Ended
  <2>2. CASE lock[k] = r
    BY <1>4, <2>1, <2>2 DEF CommitReorder, Finish, Step, Written, ShiftInv, ToPlace,
       Mine, Ended
  <2>3. CASE lock[k] # r
    BY <1>4, <2>1, <2>3 DEF CommitReorder, Written
  <2>. QED
    BY <2>2, <2>3
<1>5. CASE UNCHANGED <<row, options>>
  BY <1>5
<1>. QED
  BY <1>1, <1>2, <1>3, <1>4, <1>5 DEF StepOf, tableVars, StartCreate, Open, Inserts,
     Moves, Step, Write, StartUpdate, Rewrites, Coalesce, DeleteAnswerOptions,
     StartDelete, StartReorder, StartShift, Shifts, EndShift, Sets, ReadQuestions,
     ReadOptions, SetPublished, Finish, Unpublish, InsertCopy, Aborts, Abort, Rollback,
     Release

\* Nobody undoes another request's edit.
THEOREM EditsAreSafe == Spec => EditsKeepToTheirFields
<1>. DEFINE A ==
  \A q \in Existing : row'[q] # None =>
    /\ row'[q].type # row[q].type =>
         \E u \in Updates : Commits(u) /\ arg[u].q = q /\ arg[u].type = row'[q].type
    /\ row'[q].idx # row[q].idx => \E r \in Reorders :
         Commits(r) /\ row'[q].idx = IF arg[r].order[q] = None THEN row[q].idx + Shift
                                                              ELSE arg[r].order[q]
    /\ options'[q] # options[q] => \E u \in Updates : Commits(u) /\ options'[q] = {u}
<1>1. IInv /\ [Next]_vars => [A]_vars
  BY NextSteps, EditsStep DEF IInv
<1>. QED
  BY <1>1, Invariance, PTL DEF Spec, EditsKeepToTheirFields

=============================================================================
