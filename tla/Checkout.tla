------------------------------ MODULE Checkout ------------------------------
(***************************************************************************)
(* The order tables of the checkout (package payment): payment_orders, and *)
(* bank_transactions, the ledger of every transfer the providers report.   *)
(* This module holds what both payment channels share: the buyer's and the *)
(* admin's operations on an order, the expiry sweep, and `settle', which   *)
(* decides what a recorded transfer does to the order it names.  The bank  *)
(* channel (BankTransfers) and the hosted gateway (GatewayPayments) extend *)
(* it with the way their notifications reach settle.                       *)
(*                                                                         *)
(* An operation on one order is a transaction that locks that order's row  *)
(* (SELECT ... FOR UPDATE) before it reads it, so it is one action, which  *)
(* waits while another transaction holds the row.  A checkout is not: it   *)
(* locks the buyer's pending rows, and when the buyer has none it locks    *)
(* nothing, so two of one buyer may go on together until the unique index  *)
(* uq_payment_orders_one_pending lets one insert pass.  A refusal (an      *)
(* error return) changes nothing: the action is simply not enabled.        *)
(***************************************************************************)
EXTENDS Integers, FiniteSets, FiniteSetsExt

CONSTANTS
    Users,    \* buyers
    Items,    \* a product at a price: what CreateOrder compares
    Price,    \* the amount an item asks for
    Amounts,  \* the amounts a transfer or an admin may state
    Orders,   \* order codes that may be drawn
    Carts,    \* checkouts in their transaction at the same time (bound)
    Rows,     \* (provider, provider_txn_id), the key of a ledger row
    Admin,    \* external_ref of an order settled by an admin's word
    None

ASSUME PriceAssumption == /\ Price \in [Items -> Nat \ {0}]
                          /\ Amounts \subseteq Nat \ {0}
ASSUME SentinelAssumption == /\ None \notin Users \cup Items \cup Orders \cup Rows
                             /\ Admin \notin Rows \cup {None}

VARIABLES
    orders,   \* payment_orders by order code
    ledger,   \* bank_transactions by provider id
    carts     \* the checkouts whose transaction has read and not yet ended

OrderStatus == {"absent", "pending", "paid", "expired", "cancelled", "needs_review"}
ReviewReason == {"", "late_payment", "amount_mismatch", "customer_mismatch"}
TxnStatus == {"matched", "unmatched", "amount_mismatch", "duplicate_payment",
              "needs_review", "ignored", "dismissed", "attached"}

\* `live' is expires_at >= now; `ref' is external_ref, which names the money that
\* paid the order; `codes' counts the activation codes minted for the order.
Order == [status: OrderStatus, user: Users \cup {None}, item: Items \cup {None},
          live: BOOLEAN, reason: ReviewReason, paid: Nat,
          ref: Rows \cup {Admin, None}, codes: Nat]

\* `note' keeps the two notes that set a row apart from one settle reviewed.
Row == [status: TxnStatus \cup {"absent"}, order: Orders \cup {None}, amount: Nat,
        note: {"", "void", "customer_mismatch"}]

NoSuchOrder == [status |-> "absent", user |-> None, item |-> None, live |-> FALSE,
                reason |-> "", paid |-> 0, ref |-> None, codes |-> 0]
NoSuchRow == [status |-> "absent", order |-> None, amount |-> 0, note |-> ""]

\* `open' is what createOrderOnce read of the buyer's pending orders, and holds locked.
Cart == [busy: BOOLEAN, user: Users \cup {None}, item: Items \cup {None}, open: SUBSET Orders]
NoCart == [busy |-> FALSE, user |-> None, item |-> None, open |-> {}]

CheckoutInit ==
    /\ orders = [o \in Orders |-> NoSuchOrder]
    /\ ledger = [r \in Rows |-> NoSuchRow]
    /\ carts = [c \in Carts |-> NoCart]

Exists(o) == orders[o].status # "absent"
Recorded(r) == ledger[r].status # "absent"
Asked(o) == Price[orders[o].item]
PendingOf(u) == {o \in Orders : orders[o].status = "pending" /\ orders[o].user = u}

\* Mutant: the other transactions read an order without locking its row.
HeldByNone(o) == FALSE

\* A checkout holds the row of o: whoever else wants to lock it waits.
Held(o) == \E c \in Carts : o \in carts[c].open

-----------------------------------------------------------------------------
(* Settling money.                                                         *)

\* MarkPaidTx: paid, and one activation code minted, in the same transaction.
MarkPaid(order, amount, ref) ==
    [order EXCEPT !.status = "paid", !.reason = "", !.paid = amount,
                  !.ref = ref, !.codes = @ + 1]

\* Mutant: the money of this transfer replaces what had arrived before.
ReviewOverwrites(order, amount, reason) ==
    [order EXCEPT !.status = "needs_review", !.reason = reason, !.paid = amount]

\* review: the order goes to a human and the money is added to what arrived.
Review(order, amount, reason) ==
    [order EXCEPT !.status = "needs_review", !.reason = reason, !.paid = @ + amount]

\* setTxn on the row being applied.
SetTxnNoted(r, status, o, amount, note) ==
    ledger' = [ledger EXCEPT ![r] = [status |-> status, order |-> o,
                                     amount |-> amount, note |-> note]]
SetTxn(r, status, o, amount) == SetTxnNoted(r, status, o, amount, "")

\* The row status review leaves: only amount_mismatch has one of its own.
ReviewStatus(reason) ==
    IF reason = "amount_mismatch" THEN "amount_mismatch" ELSE "needs_review"

SendToReview(r, o, amount, reason) ==
    /\ orders' = [orders EXCEPT ![o] = Review(@, amount, reason)]
    /\ SetTxn(r, ReviewStatus(reason), o, amount)

\* Mutant: a paid order is not told apart from an open one.
SettlePaidAgain(r, o, amount, grant) ==
    IF orders[o].status \in {"pending", "expired", "paid"} /\ amount = Asked(o)
      THEN /\ orders' = [orders EXCEPT ![o] = MarkPaid(@, amount, r)]
           /\ SetTxn(r, grant, o, amount)
      ELSE SendToReview(r, o, amount, "late_payment")

\* Mutant: the amount is not compared with the price.
SettleAnyAmount(r, o, amount, grant) ==
    IF orders[o].status \in {"pending", "expired"}
      THEN /\ orders' = [orders EXCEPT ![o] = MarkPaid(@, amount, r)]
           /\ SetTxn(r, grant, o, amount)
      ELSE SendToReview(r, o, amount, "late_payment")

\* Mutant: money for an expired order is recorded and the order is left behind.
SettleIgnoresExpired(r, o, amount, grant) ==
    IF orders[o].status = "pending" /\ amount = Asked(o)
      THEN /\ orders' = [orders EXCEPT ![o] = MarkPaid(@, amount, r)]
           /\ SetTxn(r, grant, o, amount)
      ELSE SetTxn(r, "needs_review", o, amount) /\ UNCHANGED orders

\* Mutant: an order its buyer called off still takes money by itself.
SettleCalledOff(r, o, amount, grant) ==
    IF orders[o].status \in {"pending", "expired", "cancelled"} /\ amount = Asked(o)
      THEN /\ orders' = [orders EXCEPT ![o] = MarkPaid(@, amount, r)]
           /\ SetTxn(r, grant, o, amount)
      ELSE SetTxn(r, "duplicate_payment", o, amount) /\ UNCHANGED orders

\* settle: what row r, carrying `amount', does to order o.  `grant' is the row's
\* status when it pays: "matched" by itself, "attached" when an admin placed it.
Settle(r, o, amount, grant) ==
    \/ /\ orders[o].status = "paid"
       /\ SetTxn(r, "duplicate_payment", o, amount)
       /\ UNCHANGED orders
    \/ /\ orders[o].status = "needs_review"
       /\ SendToReview(r, o, amount, orders[o].reason)
    \/ /\ orders[o].status = "cancelled"
       /\ SendToReview(r, o, amount, "late_payment")
    \/ /\ orders[o].status \in {"pending", "expired"}
       /\ amount # Asked(o)
       /\ SendToReview(r, o, amount, "amount_mismatch")
    \/ /\ orders[o].status \in {"pending", "expired"}
       /\ amount = Asked(o)
       /\ orders' = [orders EXCEPT ![o] = MarkPaid(@, amount, r)]
       /\ SetTxn(r, grant, o, amount)

-----------------------------------------------------------------------------
(* The buyer.                                                              *)

\* createOrderOnce, its read: the buyer's pending orders, locked.  A statement that
\* waited for a row misses whatever was inserted after it began, so S may be less than
\* what is pending when the lock comes.
BeginCheckout(c, u, i, S) ==
    /\ ~carts[c].busy
    /\ S \subseteq PendingOf(u)
    /\ \A o \in S : ~Held(o)
    /\ carts' = [carts EXCEPT ![c] = [busy |-> TRUE, user |-> u, item |-> i, open |-> S]]
    /\ UNCHANGED <<orders, ledger>>

\* What it does with the orders it read: past its TTL -> expired, otherwise
\* superseded -> cancelled.
CloseOpen(S) ==
    [o \in Orders |-> IF o \in S
                        THEN [orders[o] EXCEPT !.status =
                                IF orders[o].live THEN "cancelled" ELSE "expired"]
                        ELSE orders[o]]

\* Mutant: nothing but the locked rows stands between two checkouts (no unique index).
NoOtherPendingUnchecked(c) == TRUE

\* The unique index on the pending orders of a user, when the new one is inserted.
NoOtherPending(c) == PendingOf(carts[c].user) \subseteq carts[c].open

\* ... and its commit: the orders it read are closed and a new one is minted.  Not taken
\* when one of them is live and for the same item: that one is returned as it is.
CreateOrder(c, o) ==
    /\ carts[c].busy
    /\ ~Exists(o)
    /\ \A p \in carts[c].open : ~(orders[p].live /\ orders[p].item = carts[c].item)
    /\ NoOtherPending(c)
    /\ orders' = [CloseOpen(carts[c].open) EXCEPT ![o] =
                    [NoSuchOrder EXCEPT !.status = "pending", !.user = carts[c].user,
                                        !.item = carts[c].item, !.live = TRUE]]
    /\ carts' = [carts EXCEPT ![c] = NoCart]
    /\ UNCHANGED ledger

\* A checkout that leaves no new order: an open one is returned, the hourly cap or the
\* unique index refuses (CreateOrder begins again, up to three times), or it is rolled back.
EndCheckout(c) ==
    /\ carts[c].busy
    /\ carts' = [carts EXCEPT ![c] = NoCart]
    /\ UNCHANGED <<orders, ledger>>

\* CancelUserOrder: the buyer abandons a pending checkout of their own.
CancelUserOrder(o) ==
    /\ ~Held(o)
    /\ orders[o].status = "pending"
    /\ orders' = [orders EXCEPT ![o].status = "cancelled"]
    /\ UNCHANGED <<ledger, carts>>

-----------------------------------------------------------------------------
(* The clock and the sweep.                                                *)

\* Thirty minutes pass (OrderTTL): the stored status does not move by itself.  A checkout
\* looks at the clock once, when it has its rows, so for those it passes before or after.
TtlPasses(o) ==
    /\ ~Held(o)
    /\ orders[o].status = "pending"     \* expires_at is read of no other order
    /\ orders[o].live
    /\ orders' = [orders EXCEPT ![o].live = FALSE]
    /\ UNCHANGED <<ledger, carts>>

\* Mutant: the sweep does not look at the status.
StaleAnyStatus == {o \in Orders : Exists(o) /\ ~orders[o].live}

Stale == {o \in Orders : orders[o].status = "pending" /\ ~orders[o].live}

\* ExpireStale: one UPDATE over every pending order past its TTL.
ExpireStale ==
    /\ Stale # {}
    /\ \A o \in Stale : ~Held(o)
    /\ orders' = [o \in Orders |-> IF o \in Stale
                                     THEN [orders[o] EXCEPT !.status = "expired"]
                                     ELSE orders[o]]
    /\ UNCHANGED <<ledger, carts>>

-----------------------------------------------------------------------------
(* The admin.                                                              *)

\* AdminConfirm: any order that is not paid, on an admin's word for the amount.
AdminConfirm(o, amount) ==
    /\ ~Held(o)
    /\ Exists(o)
    /\ orders[o].status # "paid"
    /\ orders' = [orders EXCEPT ![o] = MarkPaid(@, amount, Admin)]
    /\ UNCHANGED <<ledger, carts>>

\* AdminCancel closes an order without granting anything.
AdminCancel(o) ==
    /\ ~Held(o)
    /\ orders[o].status \in {"pending", "needs_review", "expired"}
    /\ orders' = [orders EXCEPT ![o].status = "cancelled"]
    /\ UNCHANGED <<ledger, carts>>

\* AttachTransaction: an unmatched transfer is placed on an order by hand and
\* settled by the same rules.
AttachTransaction(r, o) ==
    /\ ledger[r].status = "unmatched"
    /\ Exists(o)
    /\ ~Held(o)
    /\ Settle(r, o, ledger[r].amount, "attached")
    /\ UNCHANGED carts

\* Mutant: a dismissed transfer is deleted.
DismissDeletes(r) ==
    /\ ledger[r].status \in {"unmatched", "duplicate_payment"}
    /\ ledger' = [ledger EXCEPT ![r] = NoSuchRow]
    /\ UNCHANGED <<orders, carts>>

\* DismissTransaction: not a checkout payment; the row stays.
DismissTransaction(r) ==
    /\ ledger[r].status \in {"unmatched", "duplicate_payment"}
    /\ ledger' = [ledger EXCEPT ![r].status = "dismissed"]
    /\ UNCHANGED <<orders, carts>>

CheckoutNext ==
    \/ \E c \in Carts, u \in Users, i \in Items, S \in SUBSET Orders : BeginCheckout(c, u, i, S)
    \/ \E c \in Carts, o \in Orders : CreateOrder(c, o)
    \/ \E c \in Carts : EndCheckout(c)
    \/ \E o \in Orders : CancelUserOrder(o)
    \/ \E o \in Orders : TtlPasses(o)
    \/ ExpireStale
    \/ \E o \in Orders, a \in Amounts : AdminConfirm(o, a)
    \/ \E o \in Orders : AdminCancel(o)
    \/ \E r \in Rows, o \in Orders : AttachTransaction(r, o)
    \/ \E r \in Rows : DismissTransaction(r)

\* What a set of ledger rows carries.
MoneyIn(book, S) == MapThenSumSet(LAMBDA r : book[r].amount, S)

CheckoutTypeOK ==
    /\ orders \in [Orders -> Order]
    /\ ledger \in [Rows -> Row]
=============================================================================
