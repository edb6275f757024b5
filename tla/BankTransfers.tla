---------------------------- MODULE BankTransfers ----------------------------
(***************************************************************************)
(* The bank channel of the checkout: SePay reports each transfer into the  *)
(* account by webhook, at least once, and the reconcile job pulls the same *)
(* transfers from SePay's list API.  Both go through ApplySePay, which is  *)
(* two steps against the database:                                         *)
(*   Receive: knownReference looks for the bank reference in the ledger,   *)
(*            OUTSIDE any transaction;                                     *)
(*   Apply:   the transaction inserts the row (ON CONFLICT DO NOTHING on   *)
(*            the provider id), finds the order and settles.               *)
(* A request that dies in between, or whose transaction fails, leaves      *)
(* nothing and is delivered again (Fail).                                  *)
(***************************************************************************)
EXTENDS Checkout

CONSTANTS
    Transfers,     \* the transfers buyers may make
    SplitId,       \* those SePay lists under another id than its webhook's
    HasReference,  \* those whose report carries a bank reference
    Quoted,        \* what the content of each transfer may turn out to name (bound)
    Elsewhere,     \* the target of a transfer out of, or not into, our account
    LookupFails,   \* whether the reference look-up may fail, which nobody notices
    MaxInFlight    \* concurrent requests for one report (bound)

ASSUME BankAssumption ==
    /\ SplitId \subseteq Transfers
    /\ HasReference \subseteq Transfers
    /\ Elsewhere \notin Orders \cup {None}
    /\ Quoted \in [Transfers -> SUBSET (Orders \cup {None, Elsewhere})]
    /\ LookupFails \in BOOLEAN
    /\ MaxInFlight \in Nat
    /\ Rows = Transfers \X {"webhook", "list"}

VARIABLES
    bank,      \* what SePay knows of each transfer
    inFlight   \* requests past knownReference and not yet in their transaction

vars == <<orders, ledger, carts, bank, inFlight>>

Channels == {"webhook", "list"}
Targets == Orders \cup {None, Elsewhere}

\* target: the order code the content yields, None when it yields none.
Transfer == [sent: BOOLEAN, target: Targets, amount: Nat]

\* The ledger key a report of t is recorded under.
RowOf(t, c) == <<t, IF t \in SplitId THEN c ELSE "webhook">>

Sent(t) == bank[t].sent

BankInit ==
    /\ bank = [t \in Transfers |-> [sent |-> FALSE, target |-> None, amount |-> 0]]
    /\ inFlight = [d \in Transfers \X Channels |-> 0]

Init == CheckoutInit /\ BankInit

-----------------------------------------------------------------------------
\* A transfer reaches the bank.  A buyer can only quote a code that was shown.
BuyerPays(t, target, amount) ==
    /\ ~Sent(t)
    /\ target \in Orders => Exists(target)
    /\ bank' = [bank EXCEPT ![t] = [sent |-> TRUE, target |-> target, amount |-> amount]]
    /\ UNCHANGED <<orders, ledger, carts, inFlight>>

\* The same bank reference is already in the ledger, under either id.
KnownReference(t) ==
    t \in HasReference /\ \E c \in Channels : Recorded(RowOf(t, c))

\* Mutant: the reconcile job lists only transfers that name an order.
ReportsMatchedOnly(t, c) ==
    Sent(t) /\ (c = "list" => bank[t].target \in Orders)

\* What the channel hands to ApplySePay: the webhook posts every transfer, and
\* posts it again until it is answered 200; Reconcile skips outgoing ones, and
\* recent ones (reconcileSettle), which only delays it.
Reports(t, c) ==
    \/ c = "webhook" /\ Sent(t)
    \/ c = "list" /\ Sent(t) /\ bank[t].target # Elsewhere

\* ApplySePay up to its transaction; a known reference answers Duplicate.  The error
\* of the look-up is dropped: it then reads as an unknown reference.
Receive(t, c) ==
    /\ Reports(t, c)
    /\ ~KnownReference(t) \/ LookupFails
    /\ inFlight[<<t, c>>] < MaxInFlight
    /\ inFlight' = [inFlight EXCEPT ![<<t, c>>] = @ + 1]
    /\ UNCHANGED <<orders, ledger, carts, bank>>

\* Mutant: the row of a transfer no order takes still names what its content quoted.
RecordQuoted(t, r, status) ==
    /\ SetTxn(r, status, bank[t].target, bank[t].amount)
    /\ UNCHANGED orders

\* The row the transaction inserts, for a transfer no order takes.
RecordAlone(t, r, status) ==
    /\ SetTxn(r, status, None, bank[t].amount)
    /\ UNCHANGED orders

\* ApplySePay's transaction.
Apply(t, c) ==
    LET r == RowOf(t, c)
        target == bank[t].target
    IN  /\ inFlight[<<t, c>>] > 0
        /\ inFlight' = [inFlight EXCEPT ![<<t, c>>] = @ - 1]
        /\ \/ /\ Recorded(r)                      \* ON CONFLICT DO NOTHING
              /\ UNCHANGED <<orders, ledger>>
           \/ /\ ~Recorded(r)
              /\ target = Elsewhere
              /\ RecordAlone(t, r, "ignored")
           \/ /\ ~Recorded(r)
              /\ target = None
              /\ RecordAlone(t, r, "unmatched")
           \/ /\ ~Recorded(r)
              /\ target \in Orders
              /\ ~Held(target)
              /\ Settle(r, target, bank[t].amount, "matched")
        /\ UNCHANGED <<carts, bank>>

\* The request dies or its transaction fails: rolled back, answered 5xx or never.
Fail(t, c) ==
    /\ inFlight[<<t, c>>] > 0
    /\ inFlight' = [inFlight EXCEPT ![<<t, c>>] = @ - 1]
    /\ UNCHANGED <<orders, ledger, carts, bank>>

BankNext ==
    \/ \E t \in Transfers, a \in Amounts : \E target \in Quoted[t] : BuyerPays(t, target, a)
    \/ \E t \in Transfers, c \in Channels : Receive(t, c)
    \/ \E t \in Transfers, c \in Channels : Apply(t, c)
    \/ \E t \in Transfers, c \in Channels : Fail(t, c)

Next == BankNext \/ (CheckoutNext /\ UNCHANGED <<bank, inFlight>>)

Spec == Init /\ [][Next]_vars

TypeOK ==
    /\ CheckoutTypeOK
    /\ carts \in [Carts -> Cart]
    /\ bank \in [Transfers -> Transfer]
    /\ inFlight \in [Transfers \X Channels -> 0 .. MaxInFlight]

-----------------------------------------------------------------------------
(* Properties.                                                             *)

\* Whoever gets there first - the webhook, a retry of it, the reconcile job, an
\* attached transfer or an admin's word - a paid order has exactly one activation
\* code and an order that is not paid has none (MarkPaidTx, GenerateCodesTx).
CodeIffPaid ==
    \A o \in Orders : orders[o].codes = IF orders[o].status = "paid" THEN 1 ELSE 0

\* The row that pays an order and the order it pays name each other, and the
\* transfer carried exactly the price: no order is granted on a partial or surplus
\* transfer, and no transfer pays two orders (settle).
Pays(r) == ledger[r].status \in {"matched", "attached"}
PaidByOneTransfer ==
    /\ \A r \in Rows : Pays(r) =>
          /\ ledger[r].order \in Orders
          /\ orders[ledger[r].order].status = "paid"
          /\ orders[ledger[r].order].ref = r
          /\ ledger[r].amount = Asked(ledger[r].order)
    /\ \A o \in Orders : orders[o].status = "paid" =>
          \/ orders[o].ref = Admin
          \/ /\ orders[o].ref \in Rows
             /\ Pays(orders[o].ref)
             /\ ledger[orders[o].ref].order = o

\* At most one live QR per buyer, also when two checkouts of a buyer without an order
\* run side by side and neither has a row to lock (createOrderOnce, the retry in
\* CreateOrder and the partial unique index uq_payment_orders_one_pending).
OnePendingPerBuyer ==
    \A u \in Users : \A o, p \in PendingOf(u) : o = p

\* paid_amount_vnd is the money the ledger holds for the order: the rows that paid
\* it or went to review with it, and neither a duplicate payment nor a dismissed
\* row, until an admin's own statement of the amount replaces it (review, MarkPaidTx).
Credited(o) == {r \in Rows : /\ ledger[r].order = o
                             /\ ledger[r].status \in {"matched", "attached",
                                                      "amount_mismatch", "needs_review"}}
PaidAmountIsLedgerMoney ==
    \A o \in Orders : orders[o].ref # Admin => orders[o].paid = MoneyIn(ledger, Credited(o))

\* Not kept by the code (README, section 5): one bank transfer is one row of the ledger,
\* however it was reported.
\* reconcile.go says an id mismatch between the webhook and the list API cannot
\* record one transfer twice.
OneRowPerTransfer ==
    \A t \in HasReference :
        Cardinality({r \in {RowOf(t, c) : c \in Channels} : Recorded(r)}) <= 1

\* The ledger remembers: a recorded row is never removed, its amount never changes,
\* and once placed on an order it stays on that order.
LedgerIsAppendOnly ==
    [][\A r \in Rows : Recorded(r) =>
          /\ ledger'[r].status # "absent"
          /\ ledger'[r].amount = ledger[r].amount
          /\ ledger[r].order # None => ledger'[r].order = ledger[r].order]_vars

\* What a buyer sees of an order: its phase, and who sold it.
PhaseOf(order) ==
    CASE order.status = "absent" -> "absent"
      [] order.status \in {"pending", "expired"} -> "awaiting"
      [] order.status = "needs_review" -> "in_review"
      [] order.status = "cancelled" -> "called_off"
      [] order.status = "paid" -> "sold"
SellerOf(order) ==
    IF order.status # "paid" THEN "nobody"
    ELSE IF order.ref = Admin THEN "admin" ELSE "payment"

Phase == [o \in Orders |-> PhaseOf(orders[o])]
Seller == [o \in Orders |-> SellerOf(orders[o])]

Promise == INSTANCE OrderPromise WITH phase <- Phase, seller <- Seller

\* The checkout with its requests, retries and races implements that promise.
KeepsPromise == Promise!Spec

-----------------------------------------------------------------------------
(* Liveness.  Nothing is assumed of the webhook, which SePay gives up on   *)
(* after seven attempts.  The reconcile job runs every hour over a 48 h    *)
(* window, so a transfer is listed again until it is on record,            *)
(* and its transaction does not fail every time.  A checkout's transaction *)
(* comes to an end, one way or another, and the job does not always come   *)
(* just while one holds the row.                                           *)

ReceiveUnheld(t) == Receive(t, "list") /\ ~Held(bank[t].target)

Fairness ==
    /\ \A t \in Transfers : /\ SF_vars(ReceiveUnheld(t))
                            /\ SF_vars(Apply(t, "list"))
    /\ \A c \in Carts : WF_carts(EndCheckout(c))

FairSpec == Spec /\ Fairness

OnRecord(t) == \E c \in Channels : Recorded(RowOf(t, c))

\* Money in our account always reaches the ledger, webhook or not.
MoneyReachesLedger ==
    \A t \in Transfers :
        (Sent(t) /\ bank[t].target # Elsewhere) ~> OnRecord(t)

\* A buyer who transfers the exact price of an open order, expired or not, gets it
\* paid, unless somebody calls the order off or sends it to review first.
ExactMoneyActivates ==
    \A t \in Transfers, o \in Orders :
        (/\ Sent(t)
         /\ bank[t].target = o
         /\ orders[o].status \in {"pending", "expired"}
         /\ bank[t].amount = Asked(o)
         /\ ~OnRecord(t)) ~> orders[o].status \in {"paid", "cancelled", "needs_review"}
=============================================================================
