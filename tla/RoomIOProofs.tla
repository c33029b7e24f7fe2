---------------------------- MODULE RoomIOProofs ----------------------------
(***************************************************************************)
(* Proofs of RoomIO's safety properties, for every capacity of the         *)
(* channels, every set of clients and message types and every number of    *)
(* messages; and that the room behind these channels implements Room.      *)
(***************************************************************************)
EXTENDS RoomIO, TLAPS, SequenceTheorems

LOCAL INSTANCE SequencesExt

\* Room once more, with what is proved of it.
RP == INSTANCE RoomProofs WITH
  opened        <- At({"reading", "pushing", "leaving", "done"}),
  registering   <- ToSet(register),
  unregistering <- ToSet(unregister),
  ended         <- At({"done"})

-----------------------------------------------------------------------------
(***************************************************************************)
(* The room of RoomIO is the room of RoomProofs: what is proved of one is  *)
(* proved of the other.  Both are Room under the same substitution, so     *)
(* each lemma says that two copies of a definition agree.                  *)
(***************************************************************************)

\* Counting is counting.
LEMMA SameCardinality == \A S : R!Cardinality(S) = RP!Cardinality(S)
  BY SMT DEF R!Cardinality, RP!Cardinality

\* So both copies end a question on the same answers.
LEMMA SameFinish == \A ans : R!EveryoneAnswered(ans) <=> RP!EveryoneAnswered(ans)
<1>1. R!Present = RP!Present /\ \A ans : R!Answered(ans) = RP!Answered(ans)
  BY DEF R!Present, RP!Present, R!Answered, RP!Answered
<1>. QED
  BY <1>1, SameCardinality DEF R!EveryoneAnswered, RP!EveryoneAnswered

\* The two copies of each step of Room agree.
LEMMA SameSteps ==
  /\ \A c : /\ R!Connect(c) <=> RP!Connect(c)
            /\ R!Disconnect(c) <=> RP!Disconnect(c)
            /\ R!HandleJoin(c) <=> RP!HandleJoin(c)
            /\ R!HandleLeave(c) <=> RP!HandleLeave(c)
            /\ R!HandleMessage(c) <=> RP!HandleMessage(c)
  /\ \A i : R!TimerExpire(i) <=> RP!TimerExpire(i)
  /\ R!HandleTimer <=> RP!HandleTimer
<1> USE DEF R!NoTimer, RP!NoTimer, R!Blank, RP!Blank, R!Indices, RP!Indices, R!connVars,
       RP!connVars, R!peerVars, RP!peerVars, R!timerVars, RP!timerVars, R!playVars,
       RP!playVars, R!dbVars, RP!dbVars, R!gameVars, RP!gameVars, R!Answered,
       RP!Answered, R!Present, RP!Present, R!SendTo, RP!SendTo, R!Refuse, RP!Refuse,
       R!QuestionOpen, RP!QuestionOpen, R!Receive, RP!Receive, R!CancelTimer,
       RP!CancelTimer, R!CloseQuestion, RP!CloseQuestion, R!Award, RP!Award, R!Credit,
       RP!Credit, R!InsertRow, RP!InsertRow, R!Failures, RP!Failures, R!ScoreQuestion,
       RP!ScoreQuestion, R!StartQuestion, RP!StartQuestion
<1>1. ASSUME NEW c PROVE R!Connect(c) <=> RP!Connect(c)
  BY DEF R!Connect, RP!Connect
<1>2. ASSUME NEW c PROVE R!Disconnect(c) <=> RP!Disconnect(c)
  BY DEF R!Disconnect, RP!Disconnect
<1>3. ASSUME NEW c PROVE R!HandleJoin(c) <=> RP!HandleJoin(c)
  BY DEF R!HandleJoin, RP!HandleJoin
<1>4. ASSUME NEW c PROVE R!HandleLeave(c) <=> RP!HandleLeave(c)
  BY DEF R!HandleLeave, RP!HandleLeave, R!RemoveClient, RP!RemoveClient
<1>5. ASSUME NEW c PROVE R!HandleParticipantReady(c) <=> RP!HandleParticipantReady(c)
  BY DEF R!HandleParticipantReady, RP!HandleParticipantReady
<1>6. ASSUME NEW c PROVE R!HandlePowerupUse(c) <=> RP!HandlePowerupUse(c)
  BY DEF R!HandlePowerupUse, RP!HandlePowerupUse, R!MayUsePowerup, RP!MayUsePowerup
<1>7. ASSUME NEW c PROVE R!HandleHostStartGame(c) <=> RP!HandleHostStartGame(c)
  BY DEF R!HandleHostStartGame, RP!HandleHostStartGame, R!MayStart, RP!MayStart,
         R!Granted, RP!Granted
<1>8. ASSUME NEW c PROVE R!HandleHostAdvance(c) <=> RP!HandleHostAdvance(c)
  BY DEF R!HandleHostAdvance, RP!HandleHostAdvance, R!MayAdvance, RP!MayAdvance,
         R!ScoreOnAdvance, RP!ScoreOnAdvance, R!AdvanceOrFinish, RP!AdvanceOrFinish,
         R!FinishGame, RP!FinishGame
<1>9. ASSUME NEW c PROVE R!HandleHostEndGame(c) <=> RP!HandleHostEndGame(c)
  BY DEF R!HandleHostEndGame, RP!HandleHostEndGame, R!FinishGame, RP!FinishGame
<1>10. ASSUME NEW c PROVE R!HandleAnswerSubmit(c) <=> RP!HandleAnswerSubmit(c)
  BY SameFinish DEF R!HandleAnswerSubmit, RP!HandleAnswerSubmit, R!MayAnswer, RP!MayAnswer
<1>11. \A i : R!TimerExpire(i) <=> RP!TimerExpire(i)
  BY DEF R!TimerExpire, RP!TimerExpire
<1>12. R!HandleTimer <=> RP!HandleTimer
  BY DEF R!HandleTimer, RP!HandleTimer
<1>13. ASSUME NEW c PROVE R!HandleMessage(c) <=> RP!HandleMessage(c)
  BY <1>5, <1>6, <1>7, <1>8, <1>9, <1>10 DEF R!HandleMessage, RP!HandleMessage
<1>. QED
  BY <1>1, <1>2, <1>3, <1>4, <1>11, <1>12, <1>13

\* And so do the two copies of the specification.
LEMMA SameSpec == R!Spec <=> RP!Spec
<1>1. R!Init <=> RP!Init
  BY DEF R!Init, RP!Init, R!Blank, RP!Blank, R!Indices, RP!Indices, R!NoTimer, RP!NoTimer
<1>2. R!Indices = RP!Indices /\ R!Clients = RP!Clients
  BY DEF R!Indices, RP!Indices, R!Clients, RP!Clients
<1>3. R!Next <=> RP!Next
  BY <1>2, SameSteps DEF R!Next, RP!Next
<1>4. R!vars = RP!vars /\ R!vars' = RP!vars'
  BY DEF R!vars, RP!vars, R!connVars, RP!connVars, R!peerVars, RP!peerVars, R!gameVars,
         RP!gameVars, R!playVars, RP!playVars, R!timerVars, RP!timerVars, R!dbVars,
         RP!dbVars
<1>5. [R!Next]_(R!vars) <=> [RP!Next]_(RP!vars)
  BY <1>3, <1>4
<1>. QED
  BY <1>1, <1>5, PTL DEF R!Spec, RP!Spec

\* What Room assumes of its constants.
LEMMA RoomFinite == /\ RP!IsFiniteSet(Players)
                    /\ Players \cap Hosts = {}
                    /\ NoHost \notin Hosts
  BY ClientsAssumption DEF IsFiniteSet, RP!IsFiniteSet

LEMMA RoomQuizzes == Quizzes \subseteq Seq(RP!Kinds)
  BY QuizzesAssumption DEF RP!Kinds

\* RoomProofs' TypeCorrect, for this room.
LEMMA RoomTypeCorrect == RP!Spec => []RP!TypeOK
  BY RoomFinite, RoomQuizzes, AwardsAssumption, FailureAssumption, RP!TypeCorrect, PTL

\* RoomProofs' TimerSafety, BroadcastSafety and LedgerIsSafe, for this room.
LEMMA RoomTimers == RP!Spec => []RP!TimerFollowsQuestion
  BY RoomFinite, RoomQuizzes, AwardsAssumption, FailureAssumption, RP!TimerSafety, PTL

LEMMA RoomBroadcasts == RP!Spec => []RP!NoClosedReceivers
  BY RoomFinite, RoomQuizzes, AwardsAssumption, FailureAssumption, RP!BroadcastSafety, PTL

LEMMA RoomLedger == RP!Spec => []RP!LedgerIsExact
  BY RoomFinite, RoomQuizzes, AwardsAssumption, FailureAssumption, RP!LedgerIsSafe, PTL

LEMMA RoomSums == RP!Spec => []RP!RowsExplainScores
  BY RoomFinite, RoomQuizzes, AwardsAssumption, FailureAssumption, RP!SumsAreExact, PTL

\* The room's variables keep their types (RoomProofs' TypeCorrect).
LEMMA RoomTypes == R!Spec => []R!TypeOK
<1>1. R!TypeOK <=> RP!TypeOK
  BY DEF R!TypeOK, RP!TypeOK, R!ConnTypeOK, RP!ConnTypeOK, R!PlayTypeOK, RP!PlayTypeOK,
         R!LedgerTypeOK, RP!LedgerTypeOK, R!Indices, RP!Indices, R!NoTimer, RP!NoTimer,
         R!Clients, RP!Clients
<1>. QED
  BY <1>1, RoomTypeCorrect, SameSpec, PTL

-----------------------------------------------------------------------------
(***************************************************************************)
(* Sequences as channels.                                                  *)
(***************************************************************************)

\* Receiving from a channel of pairwise distinct elements takes exactly its head out of
\* the set of what waits.
LEMMA TailRemovesHead ==
  ASSUME NEW S, NEW s \in Seq(S), s # <<>>,
         \A i, j \in DOMAIN s : s[i] = s[j] => i = j
  PROVE  /\ Head(s) \in ToSet(s)
         /\ ToSet(Tail(s)) = ToSet(s) \ {Head(s)}
<1>1. /\ Head(s) = s[1] /\ Len(s) \in Nat \ {0} /\ DOMAIN s = 1 .. Len(s)
      /\ DOMAIN Tail(s) = 1 .. Len(s) - 1
      /\ \A i \in 1 .. Len(s) - 1 : Tail(s)[i] = s[i + 1]
  BY HeadTailProperties, EmptySeq, LenProperties
<1>2. Head(s) \in ToSet(s)
  BY <1>1 DEF ToSet
<1>3. ASSUME NEW x \in ToSet(Tail(s)) PROVE x \in ToSet(s) \ {Head(s)}
  BY <1>1, <1>3 DEF ToSet
<1>4. ASSUME NEW x \in ToSet(s) \ {Head(s)} PROVE x \in ToSet(Tail(s))
  <2>1. PICK i \in 1 .. Len(s) : s[i] = x
    BY <1>1 DEF ToSet
  <2>2. i - 1 \in 1 .. Len(s) - 1 /\ Tail(s)[i - 1] = x
    BY <1>1, <2>1
  <2>. QED
    BY <1>1, <2>2 DEF ToSet
<1>. QED
  BY <1>2, <1>3, <1>4

\* Sending adds to it what is sent.
LEMMA AppendAdds ==
  ASSUME NEW S, NEW s \in Seq(S), NEW x \in S
  PROVE  ToSet(Append(s, x)) = ToSet(s) \cup {x}
<1>1. /\ Len(s) \in Nat /\ DOMAIN s = 1 .. Len(s)
      /\ DOMAIN Append(s, x) = 1 .. Len(s) + 1
      /\ \A i \in 1 .. Len(s) : Append(s, x)[i] = s[i]
      /\ Append(s, x)[Len(s) + 1] = x
  BY AppendProperties, LenProperties
<1>. QED
  BY <1>1 DEF ToSet

-----------------------------------------------------------------------------
(***************************************************************************)
(* The inductive invariant.                                                *)
(***************************************************************************)
Distinct(s) == \A i, j \in DOMAIN s : s[i] = s[j] => i = j

\* A client waits at most once in a channel, and only where its connection has got to:
\* its registration and its messages were sent by a connection that is open, its
\* departure by a readPump that has ended.
RegisterInv ==
  /\ Distinct(register)
  /\ \A i \in DOMAIN register : reader[register[i]] \notin {"none", "registering"}

UnregisterInv ==
  /\ Distinct(unregister)
  /\ \A i \in DOMAIN unregister : reader[unregister[i]] = "done"

InboundInv ==
  \A i \in DOMAIN inbound : reader[inbound[i].client] \notin {"none", "registering"}

WaitersInv == RegisterInv /\ UnregisterInv /\ InboundInv

\* readPump holds a message exactly while it is pushing it.
HandInv ==
  \A c \in Clients : reader[c] = "pushing" => inHand[c] \in Types /\ sent[c] > 0

IInv == PumpTypeOK /\ WaitersInv /\ HandInv /\ MessagesInOrder

LEMMA InitInv == Init => IInv
<1> SUFFICES ASSUME Init PROVE IInv
  OBVIOUS
<1>1. PumpTypeOK
  BY CapsAssumption, EmptySeq DEF Init, PumpTypeOK, Places
<1>2. WaitersInv /\ HandInv
  BY DEF Init, WaitersInv, RegisterInv, UnregisterInv, InboundInv, Distinct, HandInv
<1>3. MessagesInOrder
  BY DEF Init, MessagesInOrder
<1>. QED
  BY <1>1, <1>2, <1>3 DEF IInv

\* A step that leaves the channels, the counts and what is being pushed alone keeps the
\* order of the messages.
LEMMA OrderFrame ==
  ASSUME MessagesInOrder, UNCHANGED <<inbound, sent, handled>>,
         \A c \in Clients : reader'[c] = "pushing" <=> reader[c] = "pushing"
  PROVE  MessagesInOrder'
  BY DEF MessagesInOrder

\* What waits in the channels has its type.
LEMMA WaitersAreClients ==
  ASSUME PumpTypeOK
  PROVE  /\ DOMAIN register = 1 .. Len(register)
         /\ DOMAIN unregister = 1 .. Len(unregister)
         /\ DOMAIN inbound = 1 .. Len(inbound)
         /\ Len(register) \in Nat /\ Len(unregister) \in Nat /\ Len(inbound) \in Nat
         /\ \A i \in DOMAIN register : register[i] \in Clients
         /\ \A i \in DOMAIN unregister : unregister[i] \in Clients
         /\ \A i \in DOMAIN inbound : /\ inbound[i].client \in Clients
                                     /\ inbound[i].seq \in 1 .. MaxSent
<1> DEFINE Messages == [client : Clients, type : Types, seq : 1 .. MaxSent]
<1>1. register \in Seq(Clients) /\ unregister \in Seq(Clients) /\ inbound \in Seq(Messages)
  BY DEF PumpTypeOK
<1>2. \A m \in Messages : m.client \in Clients /\ m.seq \in 1 .. MaxSent
  OBVIOUS
<1> HIDE DEF Messages
<1>3. \A i \in 1 .. Len(inbound) : inbound[i] \in Messages
  BY <1>1, ElementOfSeq
<1>. QED
  BY <1>1, <1>2, <1>3, LenProperties, ElementOfSeq

\* A connection never goes back.
Onward ==
  \A d \in Clients :
    /\ reader[d] \notin {"none", "registering"} => reader'[d] \notin {"none", "registering"}
    /\ reader[d] = "done" => reader'[d] = "done"

\* So nothing that waits loses its place.
LEMMA WaitersFrame ==
  ASSUME PumpTypeOK, WaitersInv, Onward
  PROVE  /\ register' = register => RegisterInv'
         /\ unregister' = unregister => UnregisterInv'
         /\ inbound' = inbound => InboundInv'
  BY WaitersAreClients
     DEF WaitersInv, RegisterInv, UnregisterInv, InboundInv, Distinct, Onward

\* A step of readPump that only moves it keeps the invariant.
LEMMA MoveStep ==
  ASSUME IInv, NEW c \in Clients, NEW from \in Places, NEW to \in Places \ {"pushing"},
         MoveReader(c, from, to), from # "pushing", from # "done",
         from \in {"none", "registering"} \/ to \notin {"none", "registering"},
         UNCHANGED <<inbound, inHand, sent, handled>>
  PROVE  Onward /\ reader' \in [Clients -> Places] /\ HandInv' /\ MessagesInOrder'
<1>1. reader \in [Clients -> Places]
  BY DEF IInv, PumpTypeOK
<1>2. /\ \A d \in Clients : reader'[d] = IF d = c THEN to ELSE reader[d]
      /\ reader' \in [Clients -> Places]
  BY <1>1 DEF MoveReader
<1>3. Onward
  BY <1>2 DEF MoveReader, Onward
<1>4. \A d \in Clients : reader'[d] = "pushing" <=> reader[d] = "pushing"
  BY <1>2 DEF MoveReader
<1>. QED
  BY <1>2, <1>3, <1>4, OrderFrame DEF IInv, HandInv

LEMMA AcceptStep ==
  ASSUME IInv, NEW c \in Clients, Accept(c)
  PROVE  IInv'
<1>1. Onward /\ reader' \in [Clients -> Places] /\ HandInv' /\ MessagesInOrder'
  BY MoveStep DEF Accept, chanVars, Places
<1>2. PumpTypeOK'
  BY <1>1 DEF IInv, PumpTypeOK, Accept, chanVars
<1>3. WaitersInv'
  BY <1>1, WaitersFrame DEF IInv, WaitersInv, Accept, chanVars
<1>. QED
  BY <1>1, <1>2, <1>3 DEF IInv

LEMMA RegisterStep ==
  ASSUME IInv, NEW c \in Clients, Register(c)
  PROVE  IInv'
<1>1. /\ PumpTypeOK /\ WaitersInv /\ HandInv /\ MessagesInOrder
      /\ Len(register) < RegisterCap
      /\ reader[c] = "registering" /\ reader' = [reader EXCEPT ![c] = "reading"]
      /\ register' = Append(register, c)
      /\ writer' = [writer EXCEPT ![c] = "running"]
      /\ UNCHANGED <<unregister, inbound, inHand, open, sent, handled>>
  BY DEF IInv, Register, MoveReader
<1>2. /\ Len(register) \in Nat /\ DOMAIN register = 1 .. Len(register)
      /\ register' \in Seq(Clients) /\ Len(register') = Len(register) + 1
      /\ DOMAIN register' = 1 .. Len(register) + 1
      /\ \A i \in 1 .. Len(register) : register'[i] = register[i]
      /\ register'[Len(register) + 1] = c
  BY <1>1, AppendProperties, LenProperties DEF PumpTypeOK
<1>3. PumpTypeOK'
  <2>1. Len(register') <= RegisterCap
    BY <1>1, <1>2, CapsAssumption
  <2>2. reader' \in [Clients -> Places] /\ writer' \in [Clients -> {"none", "running", "done"}]
    BY <1>1 DEF PumpTypeOK, Places
  <2>. QED
    BY <1>1, <1>2, <2>1, <2>2 DEF PumpTypeOK
<1>4. Onward /\ HandInv' /\ MessagesInOrder'
  BY MoveStep DEF Register, Places
<1>5. \A i \in DOMAIN register : register[i] \in Clients /\ register[i] # c
  BY <1>1, WaitersAreClients DEF WaitersInv, RegisterInv
<1>6. Distinct(register')
  BY <1>1, <1>2, <1>5 DEF WaitersInv, RegisterInv, Distinct
<1>7. \A d \in Clients : reader'[d] = IF d = c THEN "reading" ELSE reader[d]
  BY <1>1 DEF PumpTypeOK
<1>8. \A i \in DOMAIN register' : reader'[register'[i]] \notin {"none", "registering"}
  BY <1>1, <1>2, <1>5, <1>7 DEF WaitersInv, RegisterInv
<1>9. WaitersInv'
  BY <1>1, <1>4, <1>6, <1>8, WaitersFrame DEF WaitersInv, RegisterInv
<1>. QED
  BY <1>3, <1>4, <1>9 DEF IInv

LEMMA ReadStep ==
  ASSUME IInv, NEW c \in Clients, Read(c)
  PROVE  IInv'
<1>1. /\ PumpTypeOK /\ WaitersInv /\ HandInv /\ MessagesInOrder
      /\ sent[c] < MaxSent
      /\ reader[c] = "reading" /\ reader' = [reader EXCEPT ![c] = "pushing"]
      /\ sent' = [sent EXCEPT ![c] = sent[c] + 1]
      /\ UNCHANGED <<register, unregister, inbound, writer, open, handled>>
  BY DEF IInv, Read, MoveReader, chanVars
<1>2. PICK t \in Types : inHand' = [inHand EXCEPT ![c] = t]
  BY DEF Read
<1>3. sent[c] \in Nat /\ sent[c] + 1 \in 0 .. MaxSent
  BY <1>1, CapsAssumption DEF PumpTypeOK
<1>4. PumpTypeOK'
  BY <1>1, <1>2, <1>3 DEF PumpTypeOK, Places
<1>5. \A d \in Clients : /\ reader'[d] = IF d = c THEN "pushing" ELSE reader[d]
                         /\ sent'[d] = IF d = c THEN sent[c] + 1 ELSE sent[d]
                         /\ inHand'[d] = IF d = c THEN t ELSE inHand[d]
  BY <1>1, <1>2 DEF PumpTypeOK
<1>6. Onward
  BY <1>1, <1>5 DEF Onward
<1>7. WaitersInv'
  BY <1>1, <1>6, WaitersFrame DEF WaitersInv
<1>8. HandInv'
  BY <1>1, <1>3, <1>5 DEF HandInv
<1>9. \A d \in Clients : sent'[d] - (IF reader'[d] = "pushing" THEN 1 ELSE 0)
                         = sent[d] - (IF reader[d] = "pushing" THEN 1 ELSE 0)
  BY <1>1, <1>3, <1>5
<1>10. MessagesInOrder'
  BY <1>1, <1>9 DEF MessagesInOrder
<1>. QED
  BY <1>4, <1>7, <1>8, <1>10 DEF IInv

LEMMA PushStep ==
  ASSUME IInv, NEW c \in Clients, Push(c)
  PROVE  IInv'
<1> DEFINE m == [client |-> c, type |-> inHand[c], seq |-> sent[c]]
           Messages == [client : Clients, type : Types, seq : 1 .. MaxSent]
<1>1. /\ PumpTypeOK /\ WaitersInv /\ HandInv /\ MessagesInOrder
      /\ Len(inbound) < InboundCap
      /\ reader[c] = "pushing" /\ reader' = [reader EXCEPT ![c] = "reading"]
      /\ inbound' = Append(inbound, m)
      /\ inHand' = [inHand EXCEPT ![c] = "none"]
      /\ UNCHANGED <<register, unregister, writer, open, sent, handled>>
  BY DEF IInv, Push, MoveReader
<1>2. m \in Messages /\ m.client = c /\ m.seq = sent[c]
  BY <1>1, CapsAssumption DEF PumpTypeOK, HandInv
<1>3. inbound \in Seq(Messages)
  BY <1>1 DEF PumpTypeOK
<1> HIDE DEF m, Messages
<1>4. /\ Len(inbound) \in Nat /\ DOMAIN inbound = 1 .. Len(inbound)
      /\ inbound' \in Seq(Messages) /\ Len(inbound') = Len(inbound) + 1
      /\ DOMAIN inbound' = 1 .. Len(inbound) + 1
      /\ \A i \in 1 .. Len(inbound) : inbound'[i] = inbound[i]
      /\ inbound'[Len(inbound) + 1] = m
  BY <1>1, <1>2, <1>3, AppendProperties, LenProperties
<1>5. PumpTypeOK'
  <2>1. Len(inbound') <= InboundCap
    BY <1>1, <1>4, CapsAssumption
  <2>2. reader' \in [Clients -> Places] /\ inHand' \in [Clients -> Types \cup {"none"}]
    BY <1>1 DEF PumpTypeOK, Places
  <2>. QED
    BY <1>1, <1>4, <2>1, <2>2 DEF PumpTypeOK, Messages
<1>6. \A d \in Clients : reader'[d] = IF d = c THEN "reading" ELSE reader[d]
  BY <1>1 DEF PumpTypeOK
<1>7. Onward
  BY <1>1, <1>6 DEF Onward
<1>8. InboundInv'
  BY <1>1, <1>2, <1>4, <1>6, WaitersAreClients DEF WaitersInv, InboundInv
<1>9. WaitersInv'
  BY <1>1, <1>7, <1>8, WaitersFrame DEF WaitersInv
<1>10. HandInv'
  BY <1>1, <1>6 DEF HandInv, PumpTypeOK
<1>11. ASSUME NEW d \in Clients
       PROVE  LET waiting == {i \in DOMAIN inbound' : inbound'[i].client = d}
                  pushed  == sent'[d] - (IF reader'[d] = "pushing" THEN 1 ELSE 0)
              IN  /\ handled'[d] <= pushed
                  /\ {inbound'[i].seq : i \in waiting} = (handled'[d] + 1) .. pushed
                  /\ \A i, j \in waiting : i < j => inbound'[i].seq < inbound'[j].seq
  <2> DEFINE old == {i \in DOMAIN inbound : inbound[i].client = d}
             new == {i \in DOMAIN inbound' : inbound'[i].client = d}
             before == sent[d] - (IF reader[d] = "pushing" THEN 1 ELSE 0)
             after == sent'[d] - (IF reader'[d] = "pushing" THEN 1 ELSE 0)
  <2>1. /\ handled[d] <= before
        /\ {inbound[i].seq : i \in old} = (handled[d] + 1) .. before
        /\ \A i, j \in old : i < j => inbound[i].seq < inbound[j].seq
    BY <1>1 DEF MessagesInOrder
  <2>2. /\ sent[d] \in Nat /\ handled[d] \in Nat
        /\ sent'[d] = sent[d] /\ handled'[d] = handled[d]
    BY <1>1, CapsAssumption DEF PumpTypeOK
  <2>3. \A i \in old : inbound'[i] = inbound[i] /\ i \in Nat /\ i <= Len(inbound)
    BY <1>4
  <2>4. CASE d = c
    <3>1. new = old \cup {Len(inbound) + 1}
      BY <1>2, <1>4, <2>4
    <3>2. before = sent[d] - 1 /\ after = sent[d]
      BY <1>1, <1>6, <2>2, <2>4
    <3>3. inbound'[Len(inbound) + 1].seq = sent[d]
      BY <1>2, <1>4, <2>4
    <3>4. \A i \in old : inbound[i].seq < sent[d]
      <4>1. \A i \in old : inbound[i].seq \in (handled[d] + 1) .. before
        BY <2>1
      <4>2. \A x \in (handled[d] + 1) .. before : x < sent[d]
        BY <2>2, <3>2
      <4>. QED
        BY <4>1, <4>2
    <3> HIDE DEF old, new, before, after
    <3>5. {inbound'[i].seq : i \in new} = {inbound[i].seq : i \in old} \cup {sent[d]}
      BY <3>1, <3>3, <2>3
    <3>6. ((handled[d] + 1) .. before) \cup {sent[d]} = (handled[d] + 1) .. after
      BY <2>1, <2>2, <3>2
    <3>7. \A i, j \in new : i < j => inbound'[i].seq < inbound'[j].seq
      <4> SUFFICES ASSUME NEW i \in new, NEW j \in new, i < j
                   PROVE  inbound'[i].seq < inbound'[j].seq
        OBVIOUS
      <4>1. CASE i \in old /\ j \in old
        BY <4>1, <2>1, <2>3
      <4>2. CASE i \in old /\ j = Len(inbound) + 1
        BY <4>2, <2>3, <3>3, <3>4
      <4>3. i # Len(inbound) + 1
        BY <1>4, <2>3, <3>1
      <4>. QED
        BY <3>1, <4>1, <4>2, <4>3
    <3>8. handled'[d] <= after
      BY <2>1, <2>2, <3>2
    <3>. QED
      BY <2>1, <2>2, <3>5, <3>6, <3>7, <3>8 DEF new, after
  <2>5. CASE d # c
    <3>1. new = old /\ before = after
      BY <1>2, <1>4, <1>6, <2>2, <2>5
    <3> HIDE DEF old, new, before, after
    <3>2. {inbound'[i].seq : i \in new} = {inbound[i].seq : i \in old}
      BY <3>1, <2>3
    <3>3. \A i, j \in new : i < j => inbound'[i].seq < inbound'[j].seq
      BY <2>1, <2>3, <3>1
    <3>. QED
      BY <2>1, <2>2, <3>1, <3>2, <3>3 DEF new, after
  <2>. QED
    BY <2>4, <2>5
<1>12. MessagesInOrder'
  BY <1>11 DEF MessagesInOrder
<1>. QED
  BY <1>5, <1>9, <1>10, <1>12 DEF IInv

LEMMA ReadFailsStep ==
  ASSUME IInv, NEW c \in Clients, ReadFails(c)
  PROVE  IInv'
<1>1. Onward /\ reader' \in [Clients -> Places] /\ HandInv' /\ MessagesInOrder'
  BY MoveStep DEF ReadFails, chanVars, Places
<1>2. PumpTypeOK'
  BY <1>1 DEF IInv, PumpTypeOK, ReadFails, chanVars
<1>3. WaitersInv'
  BY <1>1, WaitersFrame DEF IInv, WaitersInv, ReadFails, chanVars
<1>. QED
  BY <1>1, <1>2, <1>3 DEF IInv

LEMMA UnregisterStep ==
  ASSUME IInv, NEW c \in Clients, Unregister(c)
  PROVE  IInv'
<1>1. /\ PumpTypeOK /\ WaitersInv /\ HandInv /\ MessagesInOrder
      /\ Len(unregister) < RegisterCap
      /\ reader[c] = "leaving" /\ reader' = [reader EXCEPT ![c] = "done"]
      /\ unregister' = Append(unregister, c)
      /\ open' = open \ {c}
      /\ UNCHANGED <<register, inbound, writer, inHand, sent, handled>>
  BY DEF IInv, Unregister, MoveReader
<1>2. /\ Len(unregister) \in Nat /\ DOMAIN unregister = 1 .. Len(unregister)
      /\ unregister' \in Seq(Clients) /\ Len(unregister') = Len(unregister) + 1
      /\ DOMAIN unregister' = 1 .. Len(unregister) + 1
      /\ \A i \in 1 .. Len(unregister) : unregister'[i] = unregister[i]
      /\ unregister'[Len(unregister) + 1] = c
  BY <1>1, AppendProperties, LenProperties DEF PumpTypeOK
<1>3. Onward /\ reader' \in [Clients -> Places] /\ HandInv' /\ MessagesInOrder'
  BY MoveStep DEF Unregister, Places
<1>4. Len(unregister') <= RegisterCap
  BY <1>1, <1>2, CapsAssumption
<1>5. PumpTypeOK'
  BY <1>1, <1>2, <1>3, <1>4 DEF PumpTypeOK
<1>6. \A i \in DOMAIN unregister : unregister[i] \in Clients /\ unregister[i] # c
  BY <1>1, WaitersAreClients DEF WaitersInv, UnregisterInv
<1>7. Distinct(unregister')
  BY <1>1, <1>2, <1>6 DEF WaitersInv, UnregisterInv, Distinct
<1>8. \A d \in Clients : reader'[d] = IF d = c THEN "done" ELSE reader[d]
  BY <1>1 DEF PumpTypeOK
<1>9. \A i \in DOMAIN unregister' : reader'[unregister'[i]] = "done"
  BY <1>1, <1>2, <1>6, <1>8 DEF WaitersInv, UnregisterInv
<1>10. WaitersInv'
  BY <1>1, <1>3, <1>7, <1>9, WaitersFrame DEF WaitersInv, UnregisterInv
<1>. QED
  BY <1>3, <1>5, <1>10 DEF IInv

LEMMA WriterEndsStep ==
  ASSUME IInv, NEW c \in Clients, WriterEnds(c)
  PROVE  IInv'
<1>1. PumpTypeOK'
  BY DEF IInv, PumpTypeOK, WriterEnds, chanVars
<1>2. Onward
  BY DEF WriterEnds, Onward
<1>3. WaitersInv'
  BY <1>2, WaitersFrame DEF IInv, WaitersInv, WriterEnds, chanVars
<1>4. HandInv' /\ MessagesInOrder'
  BY OrderFrame DEF IInv, WriterEnds, chanVars, HandInv
<1>. QED
  BY <1>1, <1>3, <1>4 DEF IInv

\* What is left of a channel when its head is received.
LEMMA TailOfChannel ==
  ASSUME NEW S, NEW s \in Seq(S), s # <<>>
  PROVE  /\ Tail(s) \in Seq(S) /\ Len(Tail(s)) = Len(s) - 1 /\ Len(s) \in Nat \ {0}
         /\ DOMAIN Tail(s) = 1 .. Len(s) - 1 /\ DOMAIN s = 1 .. Len(s)
         /\ \A i \in 1 .. Len(s) - 1 : Tail(s)[i] = s[i + 1]
         /\ Head(s) = s[1]
  BY HeadTailProperties, EmptySeq, LenProperties

LEMMA ReceiveRegisterStep ==
  ASSUME IInv, ReceiveRegister
  PROVE  IInv'
<1>1. /\ PumpTypeOK /\ WaitersInv /\ HandInv /\ MessagesInOrder
      /\ register # <<>> /\ register' = Tail(register)
      /\ UNCHANGED <<unregister, inbound, reader, writer, inHand, open, sent, handled>>
  BY DEF IInv, ReceiveRegister, pumpVars
<1>2. /\ register \in Seq(Clients) /\ register' \in Seq(Clients)
      /\ Len(register) \in Nat \ {0} /\ Len(register') = Len(register) - 1
      /\ DOMAIN register' = 1 .. Len(register) - 1 /\ DOMAIN register = 1 .. Len(register)
      /\ \A i \in 1 .. Len(register) - 1 : register'[i] = register[i + 1]
  BY <1>1, TailOfChannel DEF PumpTypeOK
<1>3. Len(register') <= RegisterCap
  BY <1>1, <1>2, CapsAssumption DEF PumpTypeOK
<1>4. PumpTypeOK'
  BY <1>1, <1>2, <1>3 DEF PumpTypeOK
<1>5. \A i \in 1 .. Len(register) - 1 : i + 1 \in 1 .. Len(register)
  BY <1>2
<1>6. Distinct(register')
  BY <1>1, <1>2, <1>5 DEF WaitersInv, RegisterInv, Distinct
<1>7. RegisterInv'
  BY <1>1, <1>2, <1>5, <1>6 DEF WaitersInv, RegisterInv
<1>8. WaitersInv'
  BY <1>1, <1>7, WaitersFrame DEF WaitersInv, Onward
<1>9. HandInv' /\ MessagesInOrder'
  BY <1>1, OrderFrame DEF HandInv
<1>. QED
  BY <1>4, <1>8, <1>9 DEF IInv

LEMMA ReceiveUnregisterStep ==
  ASSUME IInv, ReceiveUnregister
  PROVE  IInv'
<1>1. /\ PumpTypeOK /\ WaitersInv /\ HandInv /\ MessagesInOrder
      /\ unregister # <<>> /\ unregister' = Tail(unregister)
      /\ UNCHANGED <<register, inbound, reader, writer, inHand, open, sent, handled>>
  BY DEF IInv, ReceiveUnregister, pumpVars
<1>2. /\ unregister \in Seq(Clients) /\ unregister' \in Seq(Clients)
      /\ Len(unregister) \in Nat \ {0} /\ Len(unregister') = Len(unregister) - 1
      /\ DOMAIN unregister' = 1 .. Len(unregister) - 1
      /\ DOMAIN unregister = 1 .. Len(unregister)
      /\ \A i \in 1 .. Len(unregister) - 1 : unregister'[i] = unregister[i + 1]
  BY <1>1, TailOfChannel DEF PumpTypeOK
<1>3. Len(unregister') <= RegisterCap
  BY <1>1, <1>2, CapsAssumption DEF PumpTypeOK
<1>4. PumpTypeOK'
  BY <1>1, <1>2, <1>3 DEF PumpTypeOK
<1>5. \A i \in 1 .. Len(unregister) - 1 : i + 1 \in 1 .. Len(unregister)
  BY <1>2
<1>6. Distinct(unregister')
  BY <1>1, <1>2, <1>5 DEF WaitersInv, UnregisterInv, Distinct
<1>7. UnregisterInv'
  BY <1>1, <1>2, <1>5, <1>6 DEF WaitersInv, UnregisterInv
<1>8. WaitersInv'
  BY <1>1, <1>7, WaitersFrame DEF WaitersInv, Onward
<1>9. HandInv' /\ MessagesInOrder'
  BY <1>1, OrderFrame DEF HandInv
<1>. QED
  BY <1>4, <1>8, <1>9 DEF IInv

\* The message received is the one its client sent first of those not yet received.
LEMMA ReceiveInboundStep ==
  ASSUME IInv, ReceiveInbound
  PROVE  IInv'
<1> DEFINE Messages == [client : Clients, type : Types, seq : 1 .. MaxSent]
           c == Head(inbound).client
<1>1. /\ PumpTypeOK /\ WaitersInv /\ HandInv /\ MessagesInOrder
      /\ inbound # <<>> /\ inbound' = Tail(inbound)
      /\ handled' = [handled EXCEPT ![c] = handled[c] + 1]
      /\ UNCHANGED <<register, unregister, reader, writer, inHand, open, sent>>
  BY DEF IInv, ReceiveInbound, pumpVars
<1>2. inbound \in Seq(Messages)
  BY <1>1 DEF PumpTypeOK
<1> HIDE DEF Messages, c
<1>3. /\ inbound' \in Seq(Messages)
      /\ Len(inbound) \in Nat \ {0} /\ Len(inbound') = Len(inbound) - 1
      /\ DOMAIN inbound' = 1 .. Len(inbound) - 1 /\ DOMAIN inbound = 1 .. Len(inbound)
      /\ \A i \in 1 .. Len(inbound) - 1 : inbound'[i] = inbound[i + 1]
      /\ Head(inbound) = inbound[1]
  BY <1>1, <1>2, TailOfChannel
<1>4. c = inbound[1].client /\ c \in Clients /\ 1 \in DOMAIN inbound
  BY <1>1, <1>3, WaitersAreClients DEF c
<1>5. \A d \in Clients : /\ handled'[d] = IF d = c THEN handled[c] + 1 ELSE handled[d]
                         /\ handled[d] \in Nat /\ sent[d] \in 0 .. MaxSent
  BY <1>1, <1>4, CapsAssumption DEF PumpTypeOK
<1>6. \A i \in 1 .. Len(inbound) - 1 : i + 1 \in 1 .. Len(inbound)
  BY <1>3
<1>7. \A i \in 2 .. Len(inbound) : i - 1 \in 1 .. Len(inbound) - 1 /\ inbound'[i - 1] = inbound[i]
  BY <1>3
<1>8. ASSUME NEW d \in Clients
      PROVE  LET waiting == {i \in DOMAIN inbound' : inbound'[i].client = d}
                 pushed  == sent'[d] - (IF reader'[d] = "pushing" THEN 1 ELSE 0)
             IN  /\ handled'[d] <= pushed
                 /\ {inbound'[i].seq : i \in waiting} = (handled'[d] + 1) .. pushed
                 /\ \A i, j \in waiting : i < j => inbound'[i].seq < inbound'[j].seq
  <2> DEFINE old == {i \in DOMAIN inbound : inbound[i].client = d}
             new == {i \in DOMAIN inbound' : inbound'[i].client = d}
             pushed == sent[d] - (IF reader[d] = "pushing" THEN 1 ELSE 0)
  <2>1. /\ handled[d] <= pushed
        /\ {inbound[i].seq : i \in old} = (handled[d] + 1) .. pushed
        /\ \A i, j \in old : i < j => inbound[i].seq < inbound[j].seq
    BY <1>1 DEF MessagesInOrder
  <2>2. pushed \in Int /\ pushed = sent'[d] - (IF reader'[d] = "pushing" THEN 1 ELSE 0)
    BY <1>1, <1>5
  <2>3. /\ \A i \in new : i + 1 \in old /\ inbound'[i] = inbound[i + 1] /\ i \in Nat /\ i > 0
        /\ \A i \in old : i # 1 => i - 1 \in new /\ inbound'[i - 1] = inbound[i]
    BY <1>3, <1>6, <1>7
  <2>4. \A i, j \in new : i < j => inbound'[i].seq < inbound'[j].seq
    BY <2>1, <2>3
  <2>5. {inbound'[i].seq : i \in new} = {inbound[i].seq : i \in old \ {1}}
    <3> HIDE DEF old, new
    <3>1. \A i \in new : i + 1 \in old \ {1} /\ inbound'[i].seq = inbound[i + 1].seq
      BY <2>3
    <3>2. \A i \in old \ {1} : i - 1 \in new /\ inbound'[i - 1].seq = inbound[i].seq
      BY <2>3
    <3>. QED
      BY <3>1, <3>2
  <2>6. CASE d = c
    <3>1. 1 \in old /\ \A i \in old \ {1} : i \in Nat /\ i > 1
      BY <1>3, <1>4, <2>6
    <3>2. \A i \in old : inbound[i].seq \in (handled[d] + 1) .. pushed
      BY <2>1
    <3> HIDE DEF old, new, pushed
    <3>3. \A i \in old \ {1} : inbound[1].seq < inbound[i].seq
      BY <2>1, <3>1
    <3>4. handled[d] + 1 \in (handled[d] + 1) .. pushed
      BY <1>5, <2>2, <3>1, <3>2
    <3>5. PICK k \in old : inbound[k].seq = handled[d] + 1
      BY <2>1, <3>4
    <3>6. inbound[1].seq = handled[d] + 1
      BY <1>5, <2>2, <3>1, <3>2, <3>3, <3>5
    <3>7. {inbound[i].seq : i \in old \ {1}} = ((handled[d] + 1) .. pushed) \ {handled[d] + 1}
      BY <2>1, <3>1, <3>2, <3>3, <3>6, <1>5
    <3>8. ((handled[d] + 1) .. pushed) \ {handled[d] + 1} = (handled'[d] + 1) .. pushed
      BY <1>5, <2>2, <2>6
    <3>9. handled'[d] <= pushed
      BY <1>5, <2>2, <2>6, <3>4
    <3>. QED
      BY <2>2, <2>4, <2>5, <3>7, <3>8, <3>9 DEF new, pushed
  <2>7. CASE d # c
    <3>1. 1 \notin old
      BY <1>4, <2>7
    <3>2. {inbound[i].seq : i \in old \ {1}} = {inbound[i].seq : i \in old}
      BY <3>1
    <3> HIDE DEF old, new, pushed
    <3>. QED
      BY <1>5, <2>1, <2>2, <2>4, <2>5, <2>7, <3>2 DEF new, pushed
  <2>. QED
    BY <2>6, <2>7
<1>9. MessagesInOrder'
  BY <1>8 DEF MessagesInOrder
<1>10. handled' \in [Clients -> 0 .. MaxSent]
  <2>1. handled'[c] <= sent'[c] - (IF reader'[c] = "pushing" THEN 1 ELSE 0)
    BY <1>4, <1>8
  <2>2. handled'[c] \in 0 .. MaxSent
    BY <1>1, <1>4, <1>5, <2>1, CapsAssumption
  <2>. QED
    BY <1>1, <1>4, <1>5, <2>2 DEF PumpTypeOK
<1>11. Len(inbound') <= InboundCap
  BY <1>1, <1>3, CapsAssumption DEF PumpTypeOK
<1>12. PumpTypeOK'
  BY <1>1, <1>3, <1>10, <1>11 DEF PumpTypeOK, Messages
<1>13. InboundInv'
  BY <1>1, <1>3, <1>6 DEF WaitersInv, InboundInv
<1>14. WaitersInv'
  BY <1>1, <1>13, WaitersFrame DEF WaitersInv, Onward
<1>15. HandInv'
  BY <1>1 DEF HandInv
<1>. QED
  BY <1>9, <1>12, <1>14, <1>15 DEF IInv

LEMMA NextInv == IInv /\ [Next]_vars => IInv'
<1> SUFFICES ASSUME IInv, [Next]_vars PROVE IInv'
  OBVIOUS
<1>1. ASSUME UNCHANGED <<chanVars, pumpVars, handled>> PROVE IInv'
  BY <1>1 DEF IInv, PumpTypeOK, WaitersInv, RegisterInv, UnregisterInv, InboundInv, Distinct,
              HandInv, MessagesInOrder, chanVars, pumpVars
<1>2. CASE ReceiveTimer \/ TimerExpires
  BY <1>1, <1>2 DEF ReceiveTimer, TimerExpires
<1>3. CASE UNCHANGED vars
  BY <1>1, <1>3 DEF vars
<1>4. CASE \E c \in Clients : \/ Accept(c) \/ Register(c) \/ Read(c) \/ Push(c)
                              \/ ReadFails(c) \/ Unregister(c) \/ WriterEnds(c)
  BY <1>4, AcceptStep, RegisterStep, ReadStep, PushStep, ReadFailsStep, UnregisterStep,
     WriterEndsStep
<1>. QED
  BY <1>2, <1>3, <1>4, ReceiveRegisterStep, ReceiveUnregisterStep, ReceiveInboundStep DEF Next

LEMMA Invariance == Spec => []IInv
  BY InitInv, NextInv, PTL DEF Spec

-----------------------------------------------------------------------------
(***************************************************************************)
(* The theorems.                                                           *)
(***************************************************************************)

\* The messages of a connection reach the room each once and in the order sent.
THEOREM MessagesKeepOrder == Spec => []MessagesInOrder
<1>1. IInv => MessagesInOrder
  BY DEF IInv
<1>. QED
  BY <1>1, Invariance, PTL

\* What the room's select may receive: the set of what waits loses exactly the head,
\* and whoever's message it is, his connection has reached the room.
ReceivesWhatWaits ==
  /\ register # <<>> =>
       /\ Head(register) \in Clients
       /\ ToSet(Tail(register)) = ToSet(register) \ {Head(register)}
  /\ unregister # <<>> =>
       /\ Head(unregister) \in At({"done"})
       /\ ToSet(Tail(unregister)) = ToSet(unregister) \ {Head(unregister)}
  /\ inbound # <<>> => Head(inbound).client \in At({"reading", "pushing", "leaving", "done"})

\* Room's sets are what waits in these channels: no receive of run() is held back by the
\* mapping, because a client waits at most once in register and in unregister, and no
\* message arrives before its connection was handed over.
THEOREM ChannelsAreSets == Spec => []ReceivesWhatWaits
<1>1. IInv => ReceivesWhatWaits
  <2> SUFFICES ASSUME IInv PROVE ReceivesWhatWaits
    OBVIOUS
  <2>1. ASSUME register # <<>>
        PROVE  /\ Head(register) \in Clients
               /\ ToSet(Tail(register)) = ToSet(register) \ {Head(register)}
    <3>1. register \in Seq(Clients)
      BY DEF IInv, PumpTypeOK
    <3>. QED
      BY <2>1, <3>1, TailRemovesHead, HeadTailProperties
         DEF IInv, WaitersInv, RegisterInv, Distinct
  <2>2. ASSUME unregister # <<>>
        PROVE  /\ Head(unregister) \in At({"done"})
               /\ ToSet(Tail(unregister)) = ToSet(unregister) \ {Head(unregister)}
    <3>1. unregister \in Seq(Clients)
      BY DEF IInv, PumpTypeOK
    <3>2. Head(unregister) = unregister[1] /\ 1 \in DOMAIN unregister
      BY <2>2, <3>1, TailOfChannel
    <3>3. Head(unregister) \in Clients /\ reader[Head(unregister)] = "done"
      BY <3>2, WaitersAreClients DEF IInv, WaitersInv, UnregisterInv
    <3>. QED
      BY <2>2, <3>1, <3>3, TailRemovesHead DEF IInv, WaitersInv, UnregisterInv, Distinct, At
  <2>3. ASSUME inbound # <<>>
        PROVE  Head(inbound).client \in At({"reading", "pushing", "leaving", "done"})
    <3>1. Head(inbound) = inbound[1] /\ 1 \in DOMAIN inbound
      BY <2>3, TailOfChannel DEF IInv, PumpTypeOK
    <3>2. inbound[1].client \in Clients
      BY <3>1, WaitersAreClients DEF IInv
    <3>3. reader[inbound[1].client] \in Places \ {"none", "registering"}
      BY <3>1, <3>2 DEF IInv, PumpTypeOK, WaitersInv, InboundInv
    <3>. QED
      BY <3>1, <3>2, <3>3 DEF At, Places
  <2>. QED
    BY <2>1, <2>2, <2>3 DEF ReceivesWhatWaits
<1>. QED
  BY <1>1, Invariance, PTL

\* Room's variables without those of the connections.
LEMMA RoomFrame ==
  UNCHANGED roomVars => UNCHANGED <<R!peerVars, R!gameVars, up>>
  BY DEF roomVars, R!peerVars, R!gameVars, R!playVars, R!timerVars, R!dbVars

\* Where a move of one reader leaves the others.
LEMMA AtAfterMove ==
  ASSUME PumpTypeOK, NEW c \in Clients, NEW from, NEW to, MoveReader(c, from, to), NEW places
  PROVE  {d \in Clients : reader'[d] \in places}
           = IF to \in places THEN At(places) \cup {c} ELSE At(places) \ {c}
<1>1. \A d \in Clients : reader'[d] = IF d = c THEN to ELSE reader[d]
  BY DEF PumpTypeOK, MoveReader
<1>. QED
  BY <1>1 DEF At

\* A step of a pump or a handler is a step of Room or leaves its variables alone.
LEMMA StepRefines == IInv /\ [Next]_vars => [R!Next]_(R!vars)
<1> SUFFICES ASSUME IInv, [Next]_vars PROVE R!Next \/ UNCHANGED R!vars
  OBVIOUS
<1> DEFINE Reached == At({"reading", "pushing", "leaving", "done"})
           Gone == At({"done"})
<1>0. PumpTypeOK
  BY DEF IInv
<1>1. ASSUME UNCHANGED <<Reached, Gone, register, unregister, roomVars>> PROVE UNCHANGED R!vars
  BY <1>1, RoomFrame DEF R!vars, R!connVars, ToSet
<1>2. ASSUME NEW c \in Clients, Accept(c) PROVE UNCHANGED R!vars
  <2>1. MoveReader(c, "none", "registering") /\ UNCHANGED <<register, unregister, roomVars>>
    BY <1>2 DEF Accept, chanVars
  <2>2. UNCHANGED <<Reached, Gone>>
    BY <1>0, <2>1, AtAfterMove DEF At, MoveReader
  <2>. QED
    BY <1>1, <2>1, <2>2
<1>3. ASSUME NEW c \in Clients, Register(c) PROVE R!Connect(c)
  <2>1. /\ MoveReader(c, "registering", "reading") /\ up
        /\ register' = Append(register, c) /\ UNCHANGED <<unregister, roomVars>>
    BY <1>3 DEF Register
  <2>2. c \notin Reached /\ Reached' = Reached \cup {c} /\ Gone' = Gone
    <3>1. /\ reader[c] = "registering"
          /\ \A d \in Clients : reader'[d] = IF d = c THEN "reading" ELSE reader[d]
      BY <1>0, <2>1 DEF PumpTypeOK, MoveReader
    <3>. QED
      BY <3>1 DEF At
  <2>3. ToSet(register)' = ToSet(register) \cup {c} /\ ToSet(unregister)' = ToSet(unregister)
    BY <1>0, <2>1, AppendAdds DEF PumpTypeOK
  <2>. QED
    BY <2>1, <2>2, <2>3, RoomFrame DEF R!Connect
<1>4. ASSUME NEW c \in Clients, Read(c) PROVE UNCHANGED R!vars
  <2>1. MoveReader(c, "reading", "pushing") /\ UNCHANGED <<register, unregister, roomVars>>
    BY <1>4 DEF Read, chanVars
  <2>2. UNCHANGED <<Reached, Gone>>
    BY <1>0, <2>1, AtAfterMove DEF At, MoveReader
  <2>. QED
    BY <1>1, <2>1, <2>2
<1>5. ASSUME NEW c \in Clients, Push(c) PROVE UNCHANGED R!vars
  <2>1. MoveReader(c, "pushing", "reading") /\ UNCHANGED <<register, unregister, roomVars>>
    BY <1>5 DEF Push
  <2>2. UNCHANGED <<Reached, Gone>>
    BY <1>0, <2>1, AtAfterMove DEF At, MoveReader
  <2>. QED
    BY <1>1, <2>1, <2>2
<1>6. ASSUME NEW c \in Clients, ReadFails(c) PROVE UNCHANGED R!vars
  <2>1. MoveReader(c, "reading", "leaving") /\ UNCHANGED <<register, unregister, roomVars>>
    BY <1>6 DEF ReadFails, chanVars
  <2>2. UNCHANGED <<Reached, Gone>>
    BY <1>0, <2>1, AtAfterMove DEF At, MoveReader
  <2>. QED
    BY <1>1, <2>1, <2>2
<1>7. ASSUME NEW c \in Clients, Unregister(c) PROVE R!Disconnect(c)
  <2>1. /\ MoveReader(c, "leaving", "done") /\ up
        /\ unregister' = Append(unregister, c) /\ UNCHANGED <<register, roomVars>>
    BY <1>7 DEF Unregister
  <2>2. c \in Reached \ Gone /\ Reached' = Reached /\ Gone' = Gone \cup {c}
    <3>1. /\ reader[c] = "leaving"
          /\ \A d \in Clients : reader'[d] = IF d = c THEN "done" ELSE reader[d]
      BY <1>0, <2>1 DEF PumpTypeOK, MoveReader
    <3>. QED
      BY <3>1 DEF At
  <2>3. ToSet(unregister)' = ToSet(unregister) \cup {c} /\ ToSet(register)' = ToSet(register)
    BY <1>0, <2>1, AppendAdds DEF PumpTypeOK
  <2>. QED
    BY <2>1, <2>2, <2>3, RoomFrame DEF R!Disconnect
<1>8. ASSUME NEW c \in Clients, WriterEnds(c) PROVE UNCHANGED R!vars
  BY <1>1, <1>8 DEF WriterEnds, chanVars, At
<1>9. R!Clients = Clients
  BY DEF R!Clients, Clients
<1>10. CASE \E c \in Clients : \/ Accept(c) \/ Register(c) \/ Read(c) \/ Push(c)
                               \/ ReadFails(c) \/ Unregister(c) \/ WriterEnds(c)
  BY <1>2, <1>3, <1>4, <1>5, <1>6, <1>7, <1>8, <1>9, <1>10 DEF R!Next
<1>11. CASE ReceiveRegister
  <2>1. Head(register) \in Clients
    BY <1>0, <1>11, HeadTailProperties DEF ReceiveRegister, PumpTypeOK
  <2>. QED
    BY <1>9, <1>11, <2>1 DEF ReceiveRegister, R!Next
<1>12. CASE ReceiveUnregister
  <2>1. Head(unregister) \in Clients
    BY <1>0, <1>12, HeadTailProperties DEF ReceiveUnregister, PumpTypeOK
  <2>. QED
    BY <1>9, <1>12, <2>1 DEF ReceiveUnregister, R!Next
<1>13. CASE ReceiveInbound
  <2>1. Head(inbound).client \in Clients
    <3>1. Head(inbound) = inbound[1] /\ 1 \in DOMAIN inbound
      BY <1>0, <1>13, TailOfChannel DEF ReceiveInbound, PumpTypeOK
    <3>. QED
      BY <1>0, <3>1, WaitersAreClients
  <2>2. R!HandleMessage(Head(inbound).client)
    BY <1>13 DEF ReceiveInbound, Dispatch, R!HandleMessage
  <2>. QED
    BY <1>9, <2>1, <2>2 DEF R!Next
<1>14. CASE ReceiveTimer \/ TimerExpires
  BY <1>14 DEF ReceiveTimer, TimerExpires, R!Next
<1>15. CASE UNCHANGED vars
  BY <1>1, <1>15 DEF vars, chanVars, pumpVars, At
<1>. QED
  BY <1>10, <1>11, <1>12, <1>13, <1>14, <1>15 DEF Next

\* With its bounded channels and blocking senders the room behaves as Room says it does
\* with unordered sets: every execution of the pumps and of run() is one of Room's.
THEOREM RefinesRoom == Spec => ImplementsRoom
<1>1. Init => R!Init
  BY DEF Init
<1>. QED
  BY <1>1, StepRefines, Invariance, PTL DEF Spec, ImplementsRoom, R!Spec

\* Every variable keeps its type and no channel exceeds its capacity: the room's types
\* come from Room through the refinement.
THEOREM TypeCorrect == Spec => []TypeOK
<1>1. IInv => PumpTypeOK
  BY DEF IInv
<1>. QED
  BY <1>1, Invariance, RefinesRoom, RoomTypes, PTL DEF TypeOK, ImplementsRoom

\* So what is proved of Room holds of the room behind its channels: its timers follow its
\* questions, no broadcast meets a closed channel, its ledger is exact and its rows add up.
THEOREM RoomStaysSafe ==
  Spec => [](/\ RP!TimerFollowsQuestion /\ RP!NoClosedReceivers
             /\ RP!LedgerIsExact /\ RP!RowsExplainScores)
<1>1. Spec => RP!Spec
  BY RefinesRoom, SameSpec, PTL DEF ImplementsRoom
<1>. QED
  BY <1>1, RoomTimers, RoomBroadcasts, RoomLedger, RoomSums, PTL

=============================================================================
