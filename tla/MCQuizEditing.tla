--------------------------- MODULE MCQuizEditing ---------------------------
(* A small instance of QuizEditing: the owner and two guests of whom one may *)
(* be invited, three question ids, two invitations at a time, two saves.       *)
EXTENDS QuizEditing, TLC

MCSymmetry == Permutations(Guests) \cup Permutations(Questions)
=============================================================================
