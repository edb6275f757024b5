--------------------------- MODULE GatewayPayments ---------------------------
(***************************************************************************)
(* The hosted-gateway channel of the checkout (PAYMENT_PROVIDER=sepay_pg). *)
(* SePay notifies a payment by IPN, at least once and in any order, and    *)
(* ReconcileGateway polls SePay's order API for orders still unpaid.  Both *)
(* end in ApplyGatewayIPN, one database transaction.  The job works from   *)
(* the list of orders it read when it started (polled) and from what the   *)
(* API answered a moment ago (fetched), so both the order and the payment  *)
(* may have moved on when its transaction comes.                           *)
(***************************************************************************)
EXTENDS Checkout

CONSTANTS
    Payments,   \* transactions on SePay's payment page
    Payers,     \* customer ids SePay may echo back, None when it echoes none
    Pages       \* what each payment may turn out to be (bound)

\* What a payment page states: our order code, or one we do not hold.
Page == [invoice: Orders \cup {None}, amount: Nat, payer: Payers \cup {None}]

ASSUME GatewayAssumption ==
    /\ Rows = (Payments \X {"ipn", "void"}) \cup (Orders \X {"reconcile"})
    /\ None \notin Payments
    /\ Pages \in [Payments -> SUBSET Page]

VARIABLES
    gate,     \* SePay's side of each payment
    polled,   \* orders a running ReconcileGateway has still to look at
    fetched   \* the captured payment the API told it of, per order; None when none

vars == <<orders, ledger, carts, gate, polled, fetched>>

Payment == [state: {"none", "captured", "voided"}, invoice: Orders \cup {None},
            amount: Nat, payer: Payers \cup {None}]

Init ==
    /\ CheckoutInit
    /\ gate = [p \in Payments |-> [state |-> "none", invoice |-> None,
                                   amount |-> 0, payer |-> None]]
    /\ polled = {}
    /\ fetched = [o \in Orders |-> None]

IpnRow(p) == <<p, "ipn">>
VoidRow(p) == <<p, "void">>
ReconcileRow(o) == <<o, "reconcile">>

Made(p) == gate[p].state # "none"

-----------------------------------------------------------------------------
(* SePay's payment page.                                                   *)

\* A payment is captured for an invoice we issued, or one we do not hold.
Capture(p, page) ==
    /\ ~Made(p)
    /\ page.invoice \in Orders => Exists(page.invoice)
    /\ gate' = [gate EXCEPT ![p] = [state |-> "captured", invoice |-> page.invoice,
                                    amount |-> page.amount, payer |-> page.payer]]
    /\ UNCHANGED <<orders, ledger, carts, polled, fetched>>

Void(p) ==
    /\ gate[p].state = "captured"
    /\ gate' = [gate EXCEPT ![p].state = "voided"]
    /\ UNCHANGED <<orders, ledger, carts, polled, fetched>>

-----------------------------------------------------------------------------
(* ApplyGatewayIPN.                                                        *)

\* Mutant: the buyer the gateway names is not looked at.
ApplyPaidUnchecked(r, o, amount, payer) == Settle(r, o, amount, "matched")

\* A captured, approved payment for an order we hold: the buyer SePay names is
\* checked against the order's owner before settle.  The check comes first, so
\* it moves an order whatever its status is, a paid one included.
ApplyPaid(r, o, amount, payer) ==
    \/ /\ payer \notin {None, orders[o].user}
       /\ orders' = [orders EXCEPT ![o].status = "needs_review",
                                   ![o].reason = "customer_mismatch"]
       /\ SetTxnNoted(r, "needs_review", o, amount, "customer_mismatch")
    \/ /\ payer \in {None, orders[o].user}
       /\ Settle(r, o, amount, "matched")

\* A notification that is not a captured, approved VND payment (paidProblem), or
\* of a type we do not handle.  It is recorded under the transaction's own id.
IpnOther(p) ==
    /\ Made(p)
    /\ ~Recorded(IpnRow(p))
    /\ SetTxn(IpnRow(p), "ignored", None, gate[p].amount)
    /\ UNCHANGED <<orders, carts, gate, polled, fetched>>

\* ORDER_PAID.  A repeat finds its row and changes nothing.
IpnPaid(p) ==
    /\ Made(p)
    /\ ~Recorded(IpnRow(p))
    /\ \/ /\ gate[p].invoice = None
          /\ SetTxn(IpnRow(p), "unmatched", None, gate[p].amount)
          /\ UNCHANGED orders
       \/ /\ gate[p].invoice \in Orders
          /\ ~Held(gate[p].invoice)
          /\ ApplyPaid(IpnRow(p), gate[p].invoice, gate[p].amount, gate[p].payer)
    /\ UNCHANGED <<carts, gate, polled, fetched>>

\* TRANSACTION_VOID: a row of its own, next to the payment it reverses.
IpnVoid(p) ==
    /\ gate[p].state = "voided"
    /\ ~Recorded(VoidRow(p))
    /\ SetTxnNoted(VoidRow(p), "needs_review", gate[p].invoice, gate[p].amount, "void")
    /\ UNCHANGED <<orders, carts, gate, polled, fetched>>

-----------------------------------------------------------------------------
(* ReconcileGateway.                                                       *)

\* The unpaid orders of the window, read once (fresh ones are left to the IPN,
\* which only delays them).
Unpaid == {o \in Orders : orders[o].status \in {"pending", "expired"}}

PollStart ==
    /\ ~(Unpaid \subseteq polled)
    /\ polled' = polled \cup Unpaid
    /\ UNCHANGED <<orders, ledger, carts, gate, fetched>>

\* What the order API calls CAPTURED.
CapturedFor(o) == {p \in Payments : gate[p].state = "captured" /\ gate[p].invoice = o}

\* One order of the list is asked about; it is skipped when SePay has no money for it.
PollFetch(o) ==
    /\ o \in polled
    /\ fetched[o] = None
    /\ polled' = polled \ {o}
    /\ \/ /\ CapturedFor(o) = {}
          /\ UNCHANGED fetched
       \/ \E p \in CapturedFor(o) : fetched' = [fetched EXCEPT ![o] = p]
    /\ UNCHANGED <<orders, ledger, carts, gate>>

\* Mutant: a payment whose own notification is on record is not applied again.
PollSkipsSeenPayment(o) ==
    LET p == fetched[o]
    IN  /\ p # None
        /\ \/ /\ Recorded(ReconcileRow(o)) \/ Recorded(IpnRow(p))
              /\ UNCHANGED <<orders, ledger>>
           \/ /\ ~Recorded(ReconcileRow(o))
              /\ ~Recorded(IpnRow(p))
              /\ ~Held(o)
              /\ ApplyPaid(ReconcileRow(o), o, gate[p].amount, gate[p].payer)
        /\ fetched' = [fetched EXCEPT ![o] = None]
        /\ UNCHANGED <<carts, gate, polled>>

\* The answer is applied as a synthetic ORDER_PAID under the id "reconcile:<code>"
\* (ipnFromDetail); skipped when that id is on record.  It says what was true when it was
\* fetched: a payment voided since is still applied as paid.  An answer whose amount does
\* not parse, which would be recorded as `ignored', is not modelled.
PollApply(o) ==
    LET p == fetched[o]
    IN  /\ p # None
        /\ \/ /\ Recorded(ReconcileRow(o))
              /\ UNCHANGED <<orders, ledger>>
           \/ /\ ~Recorded(ReconcileRow(o))
              /\ ~Held(o)
              /\ ApplyPaid(ReconcileRow(o), o, gate[p].amount, gate[p].payer)
        /\ fetched' = [fetched EXCEPT ![o] = None]
        /\ UNCHANGED <<carts, gate, polled>>

\* A failed fetch or transaction, a timeout or a restart ends the whole run.
PollAborts ==
    /\ polled # {} \/ \E o \in Orders : fetched[o] # None
    /\ polled' = {}
    /\ fetched' = [o \in Orders |-> None]
    /\ UNCHANGED <<orders, ledger, carts, gate>>

GatewayNext ==
    \/ \E p \in Payments : \E page \in Pages[p] : Capture(p, page)
    \/ \E p \in Payments : Void(p)
    \/ \E p \in Payments : IpnOther(p)
    \/ \E p \in Payments : IpnPaid(p)
    \/ \E p \in Payments : IpnVoid(p)
    \/ PollStart
    \/ \E o \in Orders : PollFetch(o)
    \/ \E o \in Orders : PollApply(o)
    \/ PollAborts

Next == GatewayNext \/ (CheckoutNext /\ UNCHANGED <<gate, polled, fetched>>)

Spec == Init /\ [][Next]_vars

TypeOK ==
    /\ CheckoutTypeOK
    /\ gate \in [Payments -> Payment]
    /\ polled \subseteq Orders
    /\ fetched \in [Orders -> Payments \cup {None}]
    /\ carts \in [Carts -> Cart]

-----------------------------------------------------------------------------
(* Properties.                                                             *)

\* Whether the IPN, a repeat of it, the reconcile job or an attached row gets there
\* first, money grants an order at most once - also after a mismatch took the order
\* out of `paid' again (gateway_reconcile.go: "settle refuses to grant twice").
Pays(r) == ledger[r].status \in {"matched", "attached"}
MoneyGrantsOnce ==
    \A r, s \in Rows : (Pays(r) /\ Pays(s) /\ ledger[r].order = ledger[s].order) => r = s

\* An order still open to automatic settlement has not been granted yet, by anyone.
OpenOrdersAreUngranted ==
    \A o \in Orders : orders[o].status \in {"pending", "expired"} =>
        /\ orders[o].codes = 0
        /\ orders[o].paid = 0
        /\ \A r \in Rows : ~(Pays(r) /\ ledger[r].order = o)

\* A notification naming another buyer never mints by itself.
MisroutedNeverGrants ==
    \A p \in Payments : ledger[IpnRow(p)].status = "matched" =>
        gate[p].payer \in {None, orders[gate[p].invoice].user}

\* At most one live checkout per buyer, also while one replaces another and when two of
\* one buyer find nothing to lock (the unique index uq_payment_orders_one_pending).
OnePendingPerBuyer ==
    \A u \in Users : \A o, p \in PendingOf(u) : o = p

\* paid_amount_vnd is the sum of the rows that were credited to the order: those
\* that paid it or went to review with their money.  Voids and misrouted payments
\* are recorded on the order without adding to it.
Credited(o) ==
    {r \in Rows : /\ ledger[r].order = o
                  /\ ledger[r].note = ""
                  /\ \/ Pays(r)
                     \/ ledger[r].status \in {"amount_mismatch", "needs_review"}}
PaidAmountIsLedgerMoney ==
    \A o \in Orders : orders[o].ref # Admin => orders[o].paid = MoneyIn(ledger, Credited(o))

\* Not kept by the code (README, section 5), this and the next.
\* The order always leads to the code it bought: once minted, the code on the order
\* is never replaced by another (model/payment.go: "both the buyer and the admin can
\* always look it up here").
CodeStaysOnOrder ==
    [][\A o \in Orders : orders[o].codes >= 1 => orders'[o].codes = orders[o].codes]_vars

\* paid_amount_vnd is money that arrived (model/payment.go): no more of it than the
\* payments SePay captured for the order or an admin placed on it.
PaymentsFor(o) == {p \in Payments : gate[p].invoice = o \/ ledger[IpnRow(p)].order = o}
MoneyFor(o) == MapThenSumSet(LAMBDA p : gate[p].amount, PaymentsFor(o))
PaidAmountArrived ==
    \A o \in Orders : orders[o].ref # Admin => orders[o].paid <= MoneyFor(o)

-----------------------------------------------------------------------------
(* Liveness.  No IPN is assumed to arrive.  The reconcile job runs hourly, *)
(* and does not fail on the same order every time.  A checkout's           *)
(* transaction comes to an end, and the job does not always come to an     *)
(* order just while one holds its row.                                     *)

Fairness ==
    /\ SF_vars(PollStart /\ \A o \in Orders : ~Held(o))
    /\ \A o \in Orders : /\ SF_vars(PollFetch(o) /\ ~Held(o))
                         /\ SF_vars(PollApply(o))
    /\ \A c \in Carts : WF_carts(EndCheckout(c))

FairSpec == Spec /\ Fairness

\* A buyer whose payment of an open order is captured, exactly and under their own
\* name, and not voided, gets it paid unless the order is called off or put under
\* review - also when an earlier notification of another kind took the IPN's row.
CapturedMoneyActivates ==
    \A p \in Payments, o \in Orders :
        (/\ gate[p].state = "captured"
         /\ gate[p].invoice = o
         /\ orders[o].status \in {"pending", "expired"}) ~>
            \/ orders[o].status \in {"paid", "cancelled", "needs_review"}
            \/ gate[p].state = "voided"
=============================================================================
