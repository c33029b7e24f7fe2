---------------------------- MODULE SessionLife ----------------------------
(***************************************************************************)
(* What a row of game_sessions promises to those who read it: a session is *)
(* opened as a lobby under a code no other active session has, is started  *)
(* and finished, and never comes back.                                     *)
(***************************************************************************)
CONSTANTS Sessions, Codes, NoCode

VARIABLES status, code

vars == <<status, code>>

Statuses == {"none", "lobby", "in_progress", "finished"}
Active   == {"lobby", "in_progress"}

CodeIsFree(k) == \A s \in Sessions : code[s] = k => status[s] \notin Active

Init ==
  /\ status = [s \in Sessions |-> "none"]
  /\ code = [s \in Sessions |-> NoCode]

Open(s, k) ==
  /\ status[s] = "none" /\ CodeIsFree(k)
  /\ status' = [status EXCEPT ![s] = "lobby"]
  /\ code' = [code EXCEPT ![s] = k]

Start(s) ==
  /\ status[s] = "lobby"
  /\ status' = [status EXCEPT ![s] = "in_progress"]
  /\ UNCHANGED code

Finish(s) ==
  /\ status[s] \in Active
  /\ status' = [status EXCEPT ![s] = "finished"]
  /\ UNCHANGED code

Next == \E s \in Sessions : (\E k \in Codes : Open(s, k)) \/ Start(s) \/ Finish(s)

Spec == Init /\ [][Next]_vars
=============================================================================
