------------------------------ MODULE MCRoomIO ------------------------------
(***************************************************************************)
(* Instances of RoomIO for TLC.                                            *)
(***************************************************************************)
EXTENDS RoomIO

OneQuestion == {<<"single">>}

AllTypes == {"participant.ready", "answer.submit", "powerup.use",
             "host.start_game", "host.next_question", "host.end_game"}
=============================================================================
