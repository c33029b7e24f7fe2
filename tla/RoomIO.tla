------------------------------- MODULE RoomIO -------------------------------
(***************************************************************************)
(* The goroutines around a room: for each connection ServeWS, which turns  *)
(* into readPump, and writePump; and the room's channels with their        *)
(* capacities, from which run() receives.                                  *)
(*                                                                         *)
(* What the room does with what it receives is Room's; this module gives   *)
(* the channels their order and their bounds, lets a full channel block    *)
(* its sender, and is shown to implement Room.  A client's send channel is *)
(* only open or closed here: the room never waits for it, whether a        *)
(* message fits in it or is dropped.                                       *)
(***************************************************************************)
EXTENDS Integers, Sequences, FiniteSets

LOCAL INSTANCE SequencesExt

CONSTANTS Players, Hosts, NoHost, Quizzes, Awards, NoAnswer, DBMayFail,
          RegisterCap,     \* capacity of register and of unregister
          InboundCap,      \* capacity of inbound
          Types,           \* the message types clients send
          MaxSent          \* bound: messages a connection sends

ASSUME CapsAssumption == {RegisterCap, InboundCap} \subseteq Nat \ {0} /\ MaxSent \in Nat

\* Room's assumptions on its constants.
ASSUME ClientsAssumption == /\ IsFiniteSet(Players)
                            /\ Players \cap Hosts = {}
                            /\ NoHost \notin Hosts
ASSUME QuizzesAssumption == Quizzes \subseteq Seq({"single", "multiple"})
ASSUME AwardsAssumption  == Awards \subseteq Nat /\ NoAnswer \notin Awards
ASSUME FailureAssumption == DBMayFail \in BOOLEAN

Clients == Players \cup Hosts

VARIABLES
  \* the room, as in Room
  clients, host, closedSend, status, questions, currentIdx, questionActive,
  answers, scores, powerupsLeft, powerupUsed, questionFired, running, fired, up,
  dbStatus, rows, dbScore,
  \* the channels
  register, unregister,    \* sequences of clients
  inbound,                 \* sequence of messages [client, type, seq]
  \* the connections
  reader,                  \* where ServeWS, then readPump, is
  writer,                  \* where writePump is
  inHand,                  \* the type of the message readPump has read
  open,                    \* connections not closed by the server
  sent,                    \* messages readPump has read
  handled                  \* messages the room has received

chanVars == <<register, unregister, inbound>>
pumpVars == <<reader, writer, inHand, open, sent>>
roomVars == <<clients, host, closedSend, status, questions, currentIdx,
              questionActive, answers, scores, powerupsLeft, powerupUsed,
              questionFired, running, fired, up, dbStatus, rows, dbScore>>
vars     == <<roomVars, chanVars, pumpVars, handled>>

At(places) == {c \in Clients : reader[c] \in places}

\* The room of Room, whose channels are the sets of what waits in these.
R == INSTANCE Room WITH
  opened        <- At({"reading", "pushing", "leaving", "done"}),
  registering   <- ToSet(register),
  unregistering <- ToSet(unregister),
  ended         <- At({"done"})

Init ==
  /\ register = <<>> /\ unregister = <<>> /\ inbound = <<>>
  /\ reader = [c \in Clients |-> "none"]
  /\ writer = [c \in Clients |-> "none"]
  /\ inHand = [c \in Clients |-> "none"]
  /\ open = {}
  /\ sent = [c \in Clients |-> 0]
  /\ handled = [c \in Clients |-> 0]
  /\ R!Init

-----------------------------------------------------------------------------
(***************************************************************************)
(* The connection's goroutines.                                            *)
(***************************************************************************)
MoveReader(c, from, to) == reader[c] = from /\ reader' = [reader EXCEPT ![c] = to]

\* ServeWS has redeemed the ticket and upgraded the connection.
Accept(c) ==
  /\ up
  /\ MoveReader(c, "none", "registering")
  /\ open' = open \cup {c}
  /\ UNCHANGED <<roomVars, chanVars, writer, inHand, sent, handled>>

\* room.register <- c, then go writePump() and readPump().
Register(c) ==
  /\ up /\ Len(register) < RegisterCap
  /\ MoveReader(c, "registering", "reading")
  /\ register' = Append(register, c)
  /\ writer' = [writer EXCEPT ![c] = "running"]
  /\ UNCHANGED <<roomVars, unregister, inbound, inHand, open, sent, handled>>

\* ReadMessage returns a message.
Read(c) ==
  /\ up /\ c \in open /\ sent[c] < MaxSent
  /\ MoveReader(c, "reading", "pushing")
  /\ \E t \in Types : inHand' = [inHand EXCEPT ![c] = t]
  /\ sent' = [sent EXCEPT ![c] = @ + 1]
  /\ UNCHANGED <<roomVars, chanVars, writer, open, handled>>

\* Mutant: a message that finds the channel full is dropped.
PushOrDrop(c) ==
  /\ up
  /\ MoveReader(c, "pushing", "reading")
  /\ inbound' = IF Len(inbound) < InboundCap
                THEN Append(inbound, [client |-> c, type |-> inHand[c], seq |-> sent[c]])
                ELSE inbound
  /\ inHand' = [inHand EXCEPT ![c] = "none"]
  /\ UNCHANGED <<roomVars, register, unregister, writer, open, sent, handled>>

\* Mutant: the channel is taken for an unbounded queue.
PushAlways(c) ==
  /\ up
  /\ MoveReader(c, "pushing", "reading")
  /\ inbound' = Append(inbound, [client |-> c, type |-> inHand[c], seq |-> sent[c]])
  /\ inHand' = [inHand EXCEPT ![c] = "none"]
  /\ UNCHANGED <<roomVars, register, unregister, writer, open, sent, handled>>

\* room.inbound <- message; waits while the channel is full.
Push(c) ==
  /\ up /\ Len(inbound) < InboundCap
  /\ MoveReader(c, "pushing", "reading")
  /\ inbound' = Append(inbound, [client |-> c, type |-> inHand[c], seq |-> sent[c]])
  /\ inHand' = [inHand EXCEPT ![c] = "none"]
  /\ UNCHANGED <<roomVars, register, unregister, writer, open, sent, handled>>

\* ReadMessage fails: the peer is gone, silent for pongWait, or closed by writePump.
ReadFails(c) ==
  /\ up
  /\ MoveReader(c, "reading", "leaving")
  /\ UNCHANGED <<roomVars, chanVars, writer, inHand, open, sent, handled>>

\* Mutant: the deferred function does not close the connection.
UnregisterOnly(c) ==
  /\ up /\ Len(unregister) < RegisterCap
  /\ MoveReader(c, "leaving", "done")
  /\ unregister' = Append(unregister, c)
  /\ UNCHANGED <<roomVars, register, inbound, writer, inHand, open, sent, handled>>

\* The deferred room.unregister <- c and conn.Close().
Unregister(c) ==
  /\ up /\ Len(unregister) < RegisterCap
  /\ MoveReader(c, "leaving", "done")
  /\ unregister' = Append(unregister, c)
  /\ open' = open \ {c}
  /\ UNCHANGED <<roomVars, register, inbound, writer, inHand, sent, handled>>

\* Mutant: writePump unregisters its client as well.
WriterEndsAndUnregisters(c) ==
  /\ up /\ writer[c] = "running" /\ Len(unregister) < RegisterCap
  /\ writer' = [writer EXCEPT ![c] = "done"]
  /\ open' = open \ {c}
  /\ unregister' = Append(unregister, c)
  /\ UNCHANGED <<roomVars, register, inbound, reader, inHand, sent, handled>>

\* writePump ends and closes the connection: a write or a ping failed, or the send
\* channel was closed.
WriterEnds(c) ==
  /\ up /\ writer[c] = "running"
  /\ writer' = [writer EXCEPT ![c] = "done"]
  /\ open' = open \ {c}
  /\ UNCHANGED <<roomVars, chanVars, reader, inHand, sent, handled>>

-----------------------------------------------------------------------------
(***************************************************************************)
(* run(): one receive of the select.                                       *)
(***************************************************************************)
ReceiveRegister ==
  /\ register # <<>>
  /\ register' = Tail(register)
  /\ UNCHANGED <<unregister, inbound, pumpVars, handled>>
  /\ R!HandleJoin(Head(register))

ReceiveUnregister ==
  /\ unregister # <<>>
  /\ unregister' = Tail(unregister)
  /\ UNCHANGED <<register, inbound, pumpVars, handled>>
  /\ R!HandleLeave(Head(unregister))

Dispatch(m) ==
  \/ m.type = "participant.ready"  /\ R!HandleParticipantReady(m.client)
  \/ m.type = "answer.submit"      /\ R!HandleAnswerSubmit(m.client)
  \/ m.type = "powerup.use"        /\ R!HandlePowerupUse(m.client)
  \/ m.type = "host.start_game"    /\ R!HandleHostStartGame(m.client)
  \/ m.type = "host.next_question" /\ R!HandleHostAdvance(m.client)
  \/ m.type = "host.end_game"      /\ R!HandleHostEndGame(m.client)

ReceiveInbound ==
  /\ inbound # <<>>
  /\ inbound' = Tail(inbound)
  /\ handled' = [handled EXCEPT ![Head(inbound).client] = @ + 1]
  /\ UNCHANGED <<register, unregister, pumpVars>>
  /\ Dispatch(Head(inbound))

ReceiveTimer ==
  /\ UNCHANGED <<chanVars, pumpVars, handled>>
  /\ R!HandleTimer

TimerExpires ==
  /\ UNCHANGED <<chanVars, pumpVars, handled>>
  /\ \E i \in R!Indices : R!TimerExpire(i)

Next ==
  \/ \E c \in Clients : \/ Accept(c) \/ Register(c)
                        \/ Read(c) \/ Push(c) \/ ReadFails(c) \/ Unregister(c)
                        \/ WriterEnds(c)
  \/ ReceiveRegister \/ ReceiveUnregister \/ ReceiveInbound \/ ReceiveTimer
  \/ TimerExpires

Spec == Init /\ [][Next]_vars

(***************************************************************************)
(* Fairness.  A goroutine that can proceed does; a closed connection makes *)
(* the pending read and the next ping fail, and a closed send channel ends *)
(* writePump.  The room's select picks at random among ready channels and  *)
(* so serves each.  Nobody has to connect, to send or to fail.             *)
(***************************************************************************)
ReadFailsOnClosed(c) == c \notin open /\ ReadFails(c)
WriterMustEnd(c)     == (c \notin open \/ c \in closedSend) /\ WriterEnds(c)

Fairness ==
  /\ \A c \in Clients : /\ SF_vars(Register(c)) /\ SF_vars(Push(c)) /\ SF_vars(Unregister(c))
                        /\ WF_vars(ReadFailsOnClosed(c)) /\ WF_vars(WriterMustEnd(c))
  /\ WF_vars(ReceiveRegister) /\ WF_vars(ReceiveUnregister)
  /\ WF_vars(ReceiveInbound) /\ WF_vars(ReceiveTimer) /\ WF_vars(TimerExpires)

FairSpec == Spec /\ Fairness

-----------------------------------------------------------------------------
(***************************************************************************)
(* What the channels and pumps promise.                                    *)
(***************************************************************************)
Places == {"none", "registering", "reading", "pushing", "leaving", "done"}

PumpTypeOK ==
  /\ register \in Seq(Clients) /\ Len(register) <= RegisterCap
  /\ unregister \in Seq(Clients) /\ Len(unregister) <= RegisterCap
  /\ inbound \in Seq([client : Clients, type : Types, seq : 1 .. MaxSent])
  /\ Len(inbound) <= InboundCap
  /\ reader \in [Clients -> Places]
  /\ writer \in [Clients -> {"none", "running", "done"}]
  /\ inHand \in [Clients -> Types \cup {"none"}]
  /\ open \subseteq Clients
  /\ sent \in [Clients -> 0 .. MaxSent] /\ handled \in [Clients -> 0 .. MaxSent]

\* Every variable has its type, and no channel exceeds its capacity.
TypeOK == R!TypeOK /\ PumpTypeOK

\* The messages of a connection reach the room each once and in the order they were
\* sent: what the room has received, what waits in inbound and what readPump holds
\* are consecutive.
MessagesInOrder ==
  \A c \in Clients :
    LET waiting == {i \in DOMAIN inbound : inbound[i].client = c}
        pushed  == sent[c] - (IF reader[c] = "pushing" THEN 1 ELSE 0)
    IN  /\ handled[c] <= pushed
        /\ {inbound[i].seq : i \in waiting} = (handled[c] + 1) .. pushed
        /\ \A i, j \in waiting : i < j => inbound[i].seq < inbound[j].seq

\* With its bounded channels and blocking senders the room behaves as Room says it
\* does with unordered ones.
ImplementsRoom == R!Spec

\* No reader waits for ever: what it has read reaches the room, unless a panic ends
\* the process.
EveryMessageHandled ==
  \A c \in Clients : \A n \in 1 .. MaxSent : (sent[c] = n) ~> (handled[c] >= n \/ ~up)

\* Both goroutines of a connection that failed end, whichever noticed first, even
\* those of a client that the room keeps in its map.
GoroutinesEnd ==
  \A c \in Clients :
    (reader[c] = "leaving" \/ writer[c] = "done") ~>
      ((reader[c] = "done" /\ writer[c] = "done") \/ ~up)

\* Nothing hangs on a full channel or a dead peer: no reader with a message, and neither
\* goroutine of a failed connection.
NothingHangs == EveryMessageHandled /\ GoroutinesEnd

\* Every question ends although its room also serves channels that are never empty:
\* its timer fires and the room receives it.
QuestionEnds == R!QuestionEnds
=============================================================================
