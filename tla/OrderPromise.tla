---------------------------- MODULE OrderPromise ----------------------------
(***************************************************************************)
(* What the checkout promises about one order, with no transfer, request   *)
(* or ledger in sight (the statement that opens settle and MarkPaidTx):    *)
(* an order is sold at most once and a sale is final; money sells only an  *)
(* order that is still open; an order that was called off or put under     *)
(* review is only sold by an admin, and never opens again.                 *)
(***************************************************************************)
CONSTANT Orders

VARIABLES
    phase,    \* absent, awaiting money, in_review, called_off or sold
    seller    \* who sold it: a payment, an admin or nobody

Init ==
    /\ phase = [o \in Orders |-> "absent"]
    /\ seller = [o \in Orders |-> "nobody"]

\* New orders are opened, and the same step may call off the one they replace.
Open(o, S) ==
    /\ phase[o] = "absent"
    /\ \A p \in S : phase[p] = "awaiting"
    /\ phase' = [p \in Orders |-> IF p = o THEN "awaiting"
                                  ELSE IF p \in S THEN "called_off" ELSE phase[p]]
    /\ UNCHANGED seller

Move(o, to) ==
    /\ phase' = [phase EXCEPT ![o] = to]
    /\ UNCHANGED seller

CallOff(o) == phase[o] \in {"awaiting", "in_review"} /\ Move(o, "called_off")

QuestionMoney(o) == phase[o] \in {"awaiting", "called_off"} /\ Move(o, "in_review")

Sell(o, who) ==
    /\ phase[o] \in IF who = "payment" THEN {"awaiting"}
                    ELSE {"awaiting", "in_review", "called_off"}
    /\ phase' = [phase EXCEPT ![o] = "sold"]
    /\ seller' = [seller EXCEPT ![o] = who]

Next ==
    \/ \E o \in Orders, S \in SUBSET Orders : Open(o, S)
    \/ \E o \in Orders : CallOff(o) \/ QuestionMoney(o)
    \/ \E o \in Orders, who \in {"payment", "admin"} : Sell(o, who)

Spec == Init /\ [][Next]_<<phase, seller>>
=============================================================================
