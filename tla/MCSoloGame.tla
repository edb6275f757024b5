----------------------------- MODULE MCSoloGame -----------------------------
(* A small instance of SoloGame: two players, two questions, two submits and *)
(* one page load in flight.                                                  *)
EXTENDS SoloGame, TLC

MCSymmetry == Permutations(Players) \cup Permutations(Requests)
=============================================================================
