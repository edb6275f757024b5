----------------------------- MODULE MCLicences -----------------------------
(***************************************************************************)
(* A small instance of Licences: two users, two codes of one plan, each    *)
(* for one account and one day, and an admin who assigns terms of one day, *)
(* of a higher plan too.                                                   *)
(***************************************************************************)
EXTENDS Licences, TLC

CONSTANTS free, pro, business

MCRank == [p \in Plans |-> CASE p = free -> 0 [] p = pro -> 1 [] OTHER -> 2]
MCPlanOf == [c \in Codes |-> pro]
MCTermOf == [c \in Codes |-> 1]
MCMaxUses == [c \in Codes |-> 1]
MCShelfLife == [c \in Codes |-> 0]
MCSymmetry == Permutations(Codes)
=============================================================================
