--------------------------- MODULE MCRoomClosing ---------------------------
(* A small instance of RoomClosing: two players, two questions, host and the *)
(* licence sweep who both close the room, and the abandoned-room sweep.       *)
EXTENDS RoomClosing, TLC

CONSTANTS host, license

MCClosers == {host, license}
MCReason == host :> "" @@ license :> "license_expired"
MCSymmetry == Permutations(Players)
=============================================================================
