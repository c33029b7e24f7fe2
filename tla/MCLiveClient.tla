---------------------------- MODULE MCLiveClient ----------------------------
(***************************************************************************)
(* Instances of LiveClient for TLC.                                        *)
(***************************************************************************)
EXTENDS LiveClient

CONSTANTS b

Everyone == {b} \cup 1 .. MaxTickets

\* A player among others, a player who joins twice, a host who may resume.
AllTabs == { [role |-> "player", tickets |-> 1, others |-> {b}, questions |-> 2],
             [role |-> "player", tickets |-> 2, others |-> {},  questions |-> 1],
             [role |-> "host",   tickets |-> 2, others |-> {b}, questions |-> 2] }

HostTab == { [role |-> "host", tickets |-> 2, others |-> {b}, questions |-> 2] }
=============================================================================
