------------------------------ MODULE MCPlayers ------------------------------
(***************************************************************************)
(* Two devices, one of which may hold two connections, and two commands: a *)
(* pause of whatever plays, and a transfer to one of the devices.          *)
(***************************************************************************)
EXTENDS Players

CONSTANTS phone, desk, pause, move, here

MCDevice == {phone, desk}

MCCommand == {pause, move}

MCContent ==
    [id \in MCCommand |->
        IF id = pause THEN [type |-> "transport", device |-> NoDevice, play |-> FALSE]
        ELSE [type |-> "transfer", device |-> desk, play |-> TRUE]]

MCLeavers == {phone}

MCPlace == {here}

MCReports ==
    {[status |-> "playing", place |-> here, start |-> TRUE],
     [status |-> "paused", place |-> here, start |-> FALSE],
     [status |-> "stopped", place |-> here, start |-> FALSE]}
=============================================================================
