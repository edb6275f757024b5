-------------------------- MODULE MCHostPacedGame --------------------------
(* A small instance of HostPacedGame: one player, two questions, two submits  *)
(* and two requests of the host in flight.                                    *)
EXTENDS HostPacedGame, TLC

MCSymmetry == Permutations(Requests) \cup Permutations(HostRequests)
=============================================================================
