-------------------------- MODULE MCGatewayPayments --------------------------
(* A small instance of GatewayPayments: one buyer and one stranger, one item, *)
(* two order codes and one payment.                                           *)
EXTENDS GatewayPayments

CONSTANTS u1, stranger, cheap

MCUsers == {u1}
MCPayers == {u1, stranger}
MCItems == {cheap}
MCPrice == [i \in MCItems |-> 1]
MCRows == (Payments \X {"ipn", "void"}) \cup (Orders \X {"reconcile"})
MCPage(o, amount, payer) == [invoice |-> o, amount |-> amount, payer |-> payer]
MCFirst == CHOOSE o \in Orders : TRUE
MCPages == [p \in Payments |->
    {MCPage(o, 1, u1) : o \in Orders \cup {None}}
        \cup {MCPage(MCFirst, 2, u1), MCPage(MCFirst, 1, stranger)}]
=============================================================================
