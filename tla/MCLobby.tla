------------------------------ MODULE MCLobby ------------------------------
(* A small instance of Lobby: one player-paced room, one player in it under   *)
(* the plan and two while the gates are off, two joins at a time and three    *)
(* seats to take.                                                             *)
EXTENDS Lobby, TLC

MCSymmetry == Permutations(Seats) \cup Permutations(Joins) \cup Permutations(Nicknames)
=============================================================================
