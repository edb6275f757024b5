----------------------------- MODULE MCAccounts -----------------------------
(* A small instance of Accounts: two requests at a time, two sessions and    *)
(* two reset links.                                                          *)
EXTENDS Accounts, TLC

MCSymmetry == Permutations(Requests) \cup Permutations(Tokens) \cup Permutations(Links)
=============================================================================
