--------------------------- MODULE MCBankTransfers ---------------------------
(* Two small instances of BankTransfers.  One buyer and one item, two order   *)
(* codes and two transfers, one of which SePay lists under another id.  And   *)
(* two items, one transfer and two checkouts of the buyer side by side.       *)
EXTENDS BankTransfers, TLC

CONSTANTS u1, cheap, dear, t1, t2

MCUsers == {u1}
MCItems == {cheap}
MCPrice == [i \in MCItems |-> 1]
MCTwoItems == {cheap, dear}
MCTwoPrices == [i \in MCTwoItems |-> IF i = cheap THEN 1 ELSE 2]
MCTransfers == {t1, t2}
MCSplitId == {t1}
MCQuoted == t1 :> Orders \cup {None, Elsewhere} @@ t2 :> Orders
MCSymmetry == Permutations(Orders)
MCRows == MCTransfers \X {"webhook", "list"}
MCOneTransfer == {t1}
MCQuotedOne == t1 :> Orders \cup {None}
MCRowsOne == MCOneTransfer \X {"webhook", "list"}
=============================================================================
