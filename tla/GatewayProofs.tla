---------------------------- MODULE GatewayProofs ----------------------------
(***************************************************************************)
(* Safety of the hosted-gateway channel for any number of buyers, orders,  *)
(* payments and ledger rows.  Unlike in the bank channel a paid order may  *)
(* be taken out of `paid' again (another buyer's name on a later           *)
(* notification), so that "a row that pays an order finds it paid" is      *)
(* false here.  What is inductive instead looks at orders that were never  *)
(* granted: they have no code and no row pays them, and no order ever      *)
(* becomes one of them again.  That a buyer has one pending order also     *)
(* takes what the checkouts under way hold: their rows stay pending, and   *)
(* no two hold the same.  The money of an order is at the end.             *)
(***************************************************************************)
EXTENDS GatewayPayments, SumLemmas

\* Orders that settle may still pay by itself, and those not made yet.
Grantable == {"absent", "pending", "expired"}

Ungranted ==
    \A o \in Orders : orders[o].status \in Grantable =>
        /\ orders[o].codes = 0
        /\ orders[o].paid = 0
        /\ \A r \in Rows : ~(Pays(r) /\ ledger[r].order = o)

Note == {"", "void", "customer_mismatch"}

\* The two tables by themselves.
TableInv == /\ CheckoutTypeOK
            /\ Ungranted
            /\ MoneyGrantsOnce
            /\ OnePendingPerBuyer

\* A payment names an order that has an owner already, and the row that a
\* notification was granted under belongs to such a payment.
InvoicesExist == \A p \in Payments : gate[p].invoice \in Orders => Exists(gate[p].invoice)
GrantsHaveInvoices ==
    \A p \in Payments : ledger[IpnRow(p)].status = "matched" =>
        Made(p) /\ gate[p].invoice \in Orders

\* A checkout under way holds pending orders of its buyer, and no row is held twice.
CartInv ==
    /\ carts \in [Carts -> Cart]
    /\ \A c \in Carts : carts[c].open \subseteq PendingOf(carts[c].user)
    /\ \A c \in Carts : carts[c].busy => carts[c].user \in Users /\ carts[c].item \in Items
    /\ \A c, d \in Carts : c # d => carts[c].open \cap carts[d].open = {}

\* What a checkout that commits does to the tables.
Opens(u, i, o) ==
    /\ ~Exists(o)
    /\ orders' = [CloseOpen(PendingOf(u)) EXCEPT ![o] =
                    [NoSuchOrder EXCEPT !.status = "pending", !.user = u,
                                        !.item = i, !.live = TRUE]]
    /\ UNCHANGED ledger

IInv == /\ TypeOK
        /\ TableInv
        /\ CartInv
        /\ InvoicesExist
        /\ GrantsHaveInvoices
        /\ MisroutedNeverGrants

\* What a step on the tables leaves to the notifications: an order stays, with its
\* owner, and no row other than those in `fresh' becomes a granted notification.
Keeps(fresh) ==
    /\ \A o \in Orders : Exists(o) => Exists(o)' /\ orders'[o].user = orders[o].user
    /\ \A r \in Rows \ fresh : ledger'[r].status = "matched" => ledger[r].status = "matched"

-----------------------------------------------------------------------------
(* Records.                                                                *)

\* Paid, with one code more and the money that paid it.
LEMMA MarkPaidRecord ==
    ASSUME NEW order \in Order, NEW amount \in Nat, NEW ref \in Rows \cup {Admin}
    PROVE  /\ MarkPaid(order, amount, ref) \in Order
           /\ MarkPaid(order, amount, ref).status = "paid"
           /\ MarkPaid(order, amount, ref).user = order.user
           /\ MarkPaid(order, amount, ref).ref = ref
           /\ MarkPaid(order, amount, ref).paid = amount
<1>1. "paid" \in OrderStatus /\ "" \in ReviewReason
  BY DEF OrderStatus, ReviewReason
<1>2. order.codes + 1 \in Nat /\ ref \in Rows \cup {Admin, None}
  BY DEF Order
<1>3. MarkPaid(order, amount, ref) \in Order
  BY <1>1, <1>2, Zenon DEF Order, MarkPaid
<1> QED BY <1>3 DEF Order, MarkPaid

\* Money added, and the rest in place.
LEMMA ReviewRecord ==
    ASSUME NEW order \in Order, NEW amount \in Nat, NEW reason \in ReviewReason
    PROVE  /\ Review(order, amount, reason) \in Order
           /\ Review(order, amount, reason).status = "needs_review"
           /\ Review(order, amount, reason).user = order.user
           /\ Review(order, amount, reason).ref = order.ref
           /\ Review(order, amount, reason).paid = order.paid + amount
<1>1. "needs_review" \in OrderStatus /\ order.paid + amount \in Nat
  BY DEF OrderStatus, Order
<1>2. Review(order, amount, reason) \in Order
  BY <1>1, Zenon DEF Order, Review
<1> QED BY <1>2 DEF Order, Review

\* Nothing but the status.
LEMMA StatusRecord ==
    ASSUME NEW order \in Order, NEW to \in OrderStatus
    PROVE  /\ [order EXCEPT !.status = to] \in Order
           /\ [order EXCEPT !.status = to].status = to
           /\ [order EXCEPT !.status = to].user = order.user
           /\ [order EXCEPT !.status = to].codes = order.codes
           /\ [order EXCEPT !.status = to].paid = order.paid
           /\ [order EXCEPT !.status = to].ref = order.ref
BY DEF Order

\* setTxn writes one row, of the right shape.
LEMMA SetTxnWrites ==
    ASSUME ledger \in [Rows -> Row], NEW r \in Rows, NEW status \in TxnStatus,
           NEW o \in Orders \cup {None}, NEW amount \in Nat,
           NEW note \in Note,
           SetTxnNoted(r, status, o, amount, note)
    PROVE  /\ ledger' \in [Rows -> Row]
           /\ ledger'[r].status = status
           /\ ledger'[r].order = o
           /\ ledger'[r].amount = amount
           /\ ledger'[r].note = note
           /\ \A s \in Rows \ {r} : ledger'[s] = ledger[s]
<1> DEFINE row == [status |-> status, order |-> o, amount |-> amount, note |-> note]
<1>1. row \in Row
  BY Zenon DEF Row, Note
<1>2. ledger' = [ledger EXCEPT ![r] = row]
  BY DEF SetTxnNoted
<1> QED BY <1>1, <1>2

-----------------------------------------------------------------------------
(* Steps on the tables.                                                    *)

\* A step that grants nothing: no row starts to pay or pays another order, no order
\* becomes grantable, and one that stays so is not touched by money.
LEMMA NothingGranted ==
    ASSUME TableInv, CheckoutTypeOK',
           \A r \in Rows : Pays(r)' => Pays(r) /\ ledger'[r].order = ledger[r].order,
           \A o \in Orders : orders'[o].status \in Grantable =>
               /\ orders[o].status \in Grantable
               /\ orders'[o].codes = orders[o].codes
               /\ orders'[o].paid = orders[o].paid,
           OnePendingPerBuyer'
    PROVE  TableInv'
<1>1. Ungranted'
  <2> SUFFICES ASSUME NEW o \in Orders, orders'[o].status \in Grantable
               PROVE  /\ orders'[o].codes = 0
                      /\ orders'[o].paid = 0
                      /\ \A r \in Rows : ~(Pays(r)' /\ ledger'[r].order = o)
    BY DEF Ungranted
  <2> QED BY DEF TableInv, Ungranted
<1>2. MoneyGrantsOnce'
  <2> SUFFICES ASSUME NEW r \in Rows, NEW s \in Rows, Pays(r)', Pays(s)',
                      ledger'[r].order = ledger'[s].order
               PROVE  r = s
    BY DEF MoneyGrantsOnce
  <2> QED BY DEF TableInv, MoneyGrantsOnce
<1> QED BY <1>1, <1>2 DEF TableInv

\* Nobody gets a second pending order from a step that opens none.
LEMMA NothingOpened ==
    ASSUME OnePendingPerBuyer,
           \A o \in Orders : orders'[o].status = "pending" =>
               orders[o].status = "pending" /\ orders'[o].user = orders[o].user
    PROVE  OnePendingPerBuyer'
BY DEF OnePendingPerBuyer, PendingOf

\* A step that writes one order, out of reach of automatic settlement, and one row,
\* which pays nothing.
LEMMA WithdrawSound ==
    ASSUME TableInv, NEW o \in Orders, NEW new \in Order, NEW r \in Rows,
           orders' = [orders EXCEPT ![o] = new], new.status \notin Grantable,
           new.user = orders[o].user,
           ledger' \in [Rows -> Row], ledger'[r].status \notin {"matched", "attached"},
           \A s \in Rows \ {r} : ledger'[s] = ledger[s]
    PROVE  TableInv' /\ Keeps({})
<1>1. orders \in [Orders -> Order]
  BY DEF TableInv, CheckoutTypeOK
<1>2. /\ orders' \in [Orders -> Order]
      /\ orders'[o] = new
      /\ \A p \in Orders \ {o} : orders'[p] = orders[p]
  BY <1>1
<1>3. \A s \in Rows : Pays(s)' => s # r /\ Pays(s) /\ ledger'[s].order = ledger[s].order
  BY DEF Pays
<1>4. OnePendingPerBuyer'
  BY <1>2, NothingOpened DEF TableInv, Grantable
<1>5. TableInv'
  BY <1>2, <1>3, <1>4, NothingGranted DEF CheckoutTypeOK, Grantable
<1>6. Keeps({})
  BY <1>2 DEF Keeps, Exists, Grantable
<1> QED BY <1>5, <1>6

\* A row that pays nothing is written, and no order moves.
LEMMA RecordSound ==
    ASSUME TableInv, UNCHANGED orders, NEW r \in Rows,
           ledger' \in [Rows -> Row], ledger'[r].status \notin {"matched", "attached"},
           \A s \in Rows \ {r} : ledger'[s] = ledger[s]
    PROVE  TableInv' /\ Keeps({})
<1>1. \A s \in Rows : Pays(s)' => s # r /\ Pays(s) /\ ledger'[s].order = ledger[s].order
  BY DEF Pays
<1>2. OnePendingPerBuyer'
  BY NothingOpened DEF TableInv
<1>3. TableInv'
  BY <1>1, <1>2, NothingGranted DEF TableInv, CheckoutTypeOK
<1>4. Keeps({})
  BY DEF Keeps, Exists
<1> QED BY <1>3, <1>4

\* A step that leaves both tables alone.
LEMMA TablesStay ==
    ASSUME TableInv, UNCHANGED <<orders, ledger>>
    PROVE  TableInv' /\ Keeps({})
BY DEF TableInv, CheckoutTypeOK, Ungranted, MoneyGrantsOnce, Pays, OnePendingPerBuyer,
       PendingOf, Keeps, Exists

\* Only orders move, none becomes grantable or opens, and the owners stay.
LEMMA OrdersSound ==
    ASSUME TableInv, UNCHANGED ledger, orders' \in [Orders -> Order],
           \A o \in Orders :
               \/ orders'[o] = orders[o]
               \/ /\ orders[o].status # "absent" /\ orders'[o].status # "absent"
                  /\ orders'[o].user = orders[o].user
                  /\ orders'[o].status = "pending" => orders[o].status = "pending"
                  /\ orders'[o].status \in Grantable =>
                        /\ orders[o].status \in Grantable
                        /\ orders'[o].codes = orders[o].codes
                        /\ orders'[o].paid = orders[o].paid
    PROVE  TableInv' /\ Keeps({})
<1>1. \A r \in Rows : Pays(r)' => Pays(r) /\ ledger'[r].order = ledger[r].order
  BY DEF Pays
<1>2. OnePendingPerBuyer'
  BY NothingOpened DEF TableInv
<1>3. TableInv'
  BY <1>1, <1>2, NothingGranted DEF TableInv, CheckoutTypeOK
<1>4. Keeps({})
  BY DEF Keeps, Exists
<1> QED BY <1>3, <1>4

-----------------------------------------------------------------------------
(* settle.                                                                 *)

\* Review with its row withdraws an order that is not in the reach of settlement
\* after it.
LEMMA SendToReviewSound ==
    ASSUME TableInv, NEW r \in Rows, NEW o \in Orders, NEW amount \in Nat,
           NEW reason \in ReviewReason, SendToReview(r, o, amount, reason)
    PROVE  TableInv' /\ Keeps({})
<1> DEFINE new == Review(orders[o], amount, reason)
           status == ReviewStatus(reason)
<1>1. orders[o] \in Order /\ ledger \in [Rows -> Row]
  BY DEF TableInv, CheckoutTypeOK
<1>2. new \in Order /\ new.status = "needs_review" /\ new.user = orders[o].user
  BY <1>1, ReviewRecord
<1>3. orders' = [orders EXCEPT ![o] = new] /\ SetTxnNoted(r, status, o, amount, "")
  BY DEF SendToReview, SetTxn
<1> HIDE DEF new
<1>4. status \in TxnStatus \ {"matched", "attached"}
  BY DEF ReviewStatus, TxnStatus
<1> HIDE DEF status
<1>5. /\ ledger' \in [Rows -> Row]
      /\ ledger'[r].status = status
      /\ \A s \in Rows \ {r} : ledger'[s] = ledger[s]
  BY <1>1, <1>3, <1>4, SetTxnWrites DEF Note
<1> QED BY <1>2, <1>3, <1>4, <1>5, WithdrawSound DEF Grantable

\* A row pays an order that was grantable: no other row pays it.
LEMMA GrantSound ==
    ASSUME TableInv, NEW r \in Rows, NEW o \in Orders, NEW amount \in Nat,
           NEW grant \in {"matched", "attached"}, orders[o].status \in Grantable,
           orders' = [orders EXCEPT ![o] = MarkPaid(@, amount, r)],
           SetTxn(r, grant, o, amount)
    PROVE  TableInv' /\ Keeps({r})
<1> DEFINE new == MarkPaid(orders[o], amount, r)
<1>1. orders \in [Orders -> Order] /\ ledger \in [Rows -> Row]
  BY DEF TableInv, CheckoutTypeOK
<1>2. new \in Order /\ new.status = "paid" /\ new.user = orders[o].user
  BY <1>1, MarkPaidRecord
<1>3. orders' = [orders EXCEPT ![o] = new]
  OBVIOUS
<1> HIDE DEF new
<1>4. /\ orders' \in [Orders -> Order]
      /\ orders'[o] = new
      /\ \A p \in Orders \ {o} : orders'[p] = orders[p]
  BY <1>1, <1>2, <1>3
<1>5. /\ ledger' \in [Rows -> Row]
      /\ ledger'[r].status = grant
      /\ ledger'[r].order = o
      /\ \A s \in Rows \ {r} : ledger'[s] = ledger[s]
  <2>1. grant \in TxnStatus
    BY DEF TxnStatus
  <2> QED BY <1>1, <2>1, SetTxnWrites DEF SetTxn, Note
<1>6. \A s \in Rows : Pays(s) => ledger[s].order # o
  BY DEF TableInv, Ungranted
<1>7. \A s \in Rows \ {r} : Pays(s)' <=> Pays(s)
  BY <1>5 DEF Pays
<1>8. MoneyGrantsOnce'
  <2> SUFFICES ASSUME NEW s \in Rows, NEW t \in Rows, Pays(s)', Pays(t)',
                      ledger'[s].order = ledger'[t].order
               PROVE  s = t
    BY DEF MoneyGrantsOnce
  <2>1. CASE s = r \/ t = r
    BY <1>5, <1>6, <1>7, <2>1
  <2>2. CASE s # r /\ t # r
    BY <1>5, <1>7, <2>2 DEF TableInv, MoneyGrantsOnce
  <2> QED BY <2>1, <2>2
<1>9. Ungranted'
  <2> SUFFICES ASSUME NEW p \in Orders, orders'[p].status \in Grantable
               PROVE  /\ orders'[p].codes = 0
                      /\ orders'[p].paid = 0
                      /\ \A s \in Rows : ~(Pays(s)' /\ ledger'[s].order = p)
    BY DEF Ungranted
  <2>1. p # o /\ orders'[p] = orders[p]
    BY <1>2, <1>4 DEF Grantable
  <2> QED BY <1>5, <1>7, <2>1 DEF TableInv, Ungranted
<1>10. OnePendingPerBuyer'
  BY <1>2, <1>4, NothingOpened DEF TableInv
<1>11. Keeps({r})
  BY <1>2, <1>4, <1>5 DEF Keeps, Exists
<1> QED BY <1>4, <1>5, <1>8, <1>9, <1>10, <1>11 DEF TableInv, CheckoutTypeOK

\* settle, whatever order it meets; only its own row may become a grant.
LEMMA SettleSound ==
    ASSUME TableInv, NEW r \in Rows, NEW o \in Orders, NEW amount \in Nat,
           NEW grant \in {"matched", "attached"}, Settle(r, o, amount, grant)
    PROVE  /\ TableInv'
           /\ Keeps({r})
           /\ ledger'[r].status \in {"matched", "attached"} => ledger'[r].status = grant
<1>1. ledger \in [Rows -> Row] /\ orders[o].reason \in ReviewReason
  BY DEF TableInv, CheckoutTypeOK, Order
<1>2. {"late_payment", "amount_mismatch"} \subseteq ReviewReason
  BY DEF ReviewReason
<1>3. CASE /\ SetTxn(r, "duplicate_payment", o, amount)
           /\ UNCHANGED orders
  <2>1. /\ ledger' \in [Rows -> Row]
        /\ ledger'[r].status = "duplicate_payment"
        /\ \A s \in Rows \ {r} : ledger'[s] = ledger[s]
    <3>1. "duplicate_payment" \in TxnStatus
      BY DEF TxnStatus
    <3> QED BY <1>1, <1>3, <3>1, SetTxnWrites DEF SetTxn, Note
  <2> QED BY <1>3, <2>1, RecordSound DEF Keeps
<1>4. CASE \E reason \in ReviewReason : SendToReview(r, o, amount, reason)
  <2>1. TableInv' /\ Keeps({})
    BY <1>4, SendToReviewSound
  <2>2. ledger'[r].status \in {"amount_mismatch", "needs_review"}
    <3> PICK reason \in ReviewReason : SendToReview(r, o, amount, reason)
      BY <1>4
    <3>1. ReviewStatus(reason) \in {"amount_mismatch", "needs_review"}
      BY DEF ReviewStatus
    <3>2. ReviewStatus(reason) \in TxnStatus
      BY <3>1 DEF TxnStatus
    <3>3. SetTxnNoted(r, ReviewStatus(reason), o, amount, "")
      BY DEF SendToReview, SetTxn
    <3> QED BY <1>1, <3>1, <3>2, <3>3, SetTxnWrites DEF Note
  <2> QED BY <2>1, <2>2 DEF Keeps
<1>5. CASE /\ orders[o].status \in {"pending", "expired"}
           /\ orders' = [orders EXCEPT ![o] = MarkPaid(@, amount, r)]
           /\ SetTxn(r, grant, o, amount)
  <2>1. TableInv' /\ Keeps({r})
    BY <1>5, GrantSound DEF Grantable
  <2>2. ledger'[r].status = grant
    BY <1>1, <1>5 DEF SetTxn, SetTxnNoted
  <2> QED BY <2>1, <2>2
<1> QED BY <1>1, <1>2, <1>3, <1>4, <1>5 DEF Settle

-----------------------------------------------------------------------------
(* Checkouts under way.                                                    *)

\* A step that leaves the held orders alone leaves the checkouts as they were.
LEMMA CartsKeep ==
    ASSUME CartInv, UNCHANGED carts, \A p \in Orders : Held(p) => orders'[p] = orders[p]
    PROVE  CartInv'
BY DEF CartInv, Held, PendingOf

\* Neither does one that moves an order nobody holds.
LEMMA UnheldMoves ==
    ASSUME CartInv, UNCHANGED carts, orders \in [Orders -> Order],
           NEW o \in Orders, NEW new, ~Held(o), orders' = [orders EXCEPT ![o] = new]
    PROVE  CartInv'
BY CartsKeep

\* What settle does to an order that nobody holds, it does to that one alone.
LEMMA SettleKeepsCarts ==
    ASSUME CartInv, UNCHANGED carts, orders \in [Orders -> Order],
           NEW r, NEW o \in Orders, NEW amount, NEW grant, ~Held(o), Settle(r, o, amount, grant)
    PROVE  CartInv'
<1>1. orders' = orders \/ \E new : orders' = [orders EXCEPT ![o] = new]
  BY DEF Settle, SendToReview
<1>2. CASE orders' = orders
  BY <1>2, CartsKeep
<1>3. CASE \E new : orders' = [orders EXCEPT ![o] = new]
  BY <1>3, UnheldMoves
<1> QED BY <1>1, <1>2, <1>3

\* What is left of the buyer's pending orders when one checkout commits is what it holds,
\* so that it closes them all: the unique index saw no other, and the locks kept these.
LEMMA CommitOpens ==
    ASSUME CartInv, NEW c \in Carts, NEW o \in Orders, CreateOrder(c, o)
    PROVE  \E u \in Users, i \in Items : Opens(u, i, o)
<1>1. carts[c].user \in Users /\ carts[c].item \in Items
  BY DEF CartInv, CreateOrder
<1>2. carts[c].open = PendingOf(carts[c].user)
  BY DEF CartInv, CreateOrder, NoOtherPending
<1>3. Opens(carts[c].user, carts[c].item, o)
  BY <1>2 DEF CreateOrder, Opens
<1> QED BY <1>1, <1>3

\* A checkout that ends lets go of its rows and of nothing else.
LEMMA CommitKeepsCarts ==
    ASSUME CartInv, orders \in [Orders -> Order], NEW c \in Carts, NEW o \in Orders,
           CreateOrder(c, o)
    PROVE  CartInv'
<1> DEFINE new == [NoSuchOrder EXCEPT !.status = "pending", !.user = carts[c].user,
                                      !.item = carts[c].item, !.live = TRUE]
<1>1. /\ orders' = [CloseOpen(carts[c].open) EXCEPT ![o] = new]
      /\ carts' = [carts EXCEPT ![c] = NoCart]
      /\ orders[o].status = "absent"
  BY DEF CreateOrder, Exists
<1> HIDE DEF new
<1>2. NoCart \in Cart /\ NoCart.busy = FALSE /\ NoCart.open = {}
  BY DEF NoCart, Cart
<1>3. /\ carts' \in [Carts -> Cart]
      /\ carts'[c] = NoCart
      /\ \A d \in Carts \ {c} : carts'[d] = carts[d]
  BY <1>1, <1>2 DEF CartInv
<1>4. \A p \in Orders \ {o} : p \notin carts[c].open => orders'[p] = orders[p]
  BY <1>1 DEF CloseOpen
<1>5. ASSUME NEW d \in Carts \ {c}, NEW p \in carts[d].open
      PROVE  p \in PendingOf(carts[d].user)'
  <2>1. p \in Orders /\ orders[p].status = "pending" /\ orders[p].user = carts[d].user
    BY DEF CartInv, PendingOf
  <2>2. p # o /\ p \notin carts[c].open
    BY <1>1, <2>1 DEF CartInv
  <2> QED BY <1>3, <1>4, <2>1, <2>2 DEF PendingOf
<1>6. \A d \in Carts : carts'[d].open \subseteq PendingOf(carts[d].user)'
  BY <1>2, <1>3, <1>5
<1> QED BY <1>2, <1>3, <1>6 DEF CartInv

\* The buyer's and the admin's operations wait for a held row.
LEMMA CheckoutKeepsCarts ==
    ASSUME CartInv, orders \in [Orders -> Order], CheckoutNext
    PROVE  CartInv'
<1>1. ASSUME NEW c \in Carts, NEW u \in Users, NEW i \in Items, NEW S \in SUBSET Orders,
             BeginCheckout(c, u, i, S)
      PROVE  CartInv'
  <2> DEFINE cart == [busy |-> TRUE, user |-> u, item |-> i, open |-> S]
  <2>1. cart \in Cart /\ cart.user = u /\ cart.item = i /\ cart.open = S
    BY DEF Cart
  <2>2. /\ carts' = [carts EXCEPT ![c] = cart]
        /\ S \subseteq PendingOf(u)
        /\ \A d \in Carts : carts[d].open \cap S = {}
        /\ orders' = orders
    BY <1>1 DEF BeginCheckout, Held
  <2> HIDE DEF cart
  <2>3. /\ carts' \in [Carts -> Cart]
        /\ carts'[c] = cart
        /\ \A d \in Carts \ {c} : carts'[d] = carts[d]
    BY <2>1, <2>2 DEF CartInv
  <2>4. \A d \in Carts : carts'[d].open \subseteq PendingOf(carts[d].user)'
    BY <2>1, <2>2, <2>3 DEF CartInv, PendingOf
  <2>5. \A d, e \in Carts : d # e => carts'[d].open \cap carts'[e].open = {}
    BY <2>1, <2>2, <2>3 DEF CartInv
  <2> QED BY <2>1, <2>3, <2>4, <2>5 DEF CartInv
<1>2. ASSUME NEW c \in Carts, EndCheckout(c)
      PROVE  CartInv'
  <2>1. NoCart \in Cart /\ NoCart.busy = FALSE /\ NoCart.open = {}
    BY DEF NoCart, Cart
  <2>2. /\ carts' \in [Carts -> Cart]
        /\ carts'[c] = NoCart
        /\ \A d \in Carts \ {c} : carts'[d] = carts[d]
    BY <1>2, <2>1 DEF EndCheckout, CartInv
  <2> QED BY <1>2, <2>1, <2>2 DEF EndCheckout, CartInv, PendingOf
<1>3. CASE \E o \in Orders : CancelUserOrder(o) \/ AdminCancel(o)
  BY <1>3, UnheldMoves DEF CancelUserOrder, AdminCancel
<1>4. CASE \E o \in Orders : TtlPasses(o)
  BY <1>4, UnheldMoves DEF TtlPasses
<1>5. CASE ExpireStale
  BY <1>5, CartsKeep DEF ExpireStale
<1>6. CASE \E o \in Orders, a \in Amounts : AdminConfirm(o, a)
  BY <1>6, UnheldMoves DEF AdminConfirm
<1>7. CASE \E r \in Rows, o \in Orders : AttachTransaction(r, o)
  BY <1>7, SettleKeepsCarts DEF AttachTransaction
<1>8. CASE \E r \in Rows : DismissTransaction(r)
  BY <1>8, CartsKeep DEF DismissTransaction
<1>9. CASE \E c \in Carts, o \in Orders : CreateOrder(c, o)
  BY <1>9, CommitKeepsCarts
<1> QED BY <1>1, <1>2, <1>3, <1>4, <1>5, <1>6, <1>7, <1>8, <1>9 DEF CheckoutNext

-----------------------------------------------------------------------------
(* The operations of Checkout.                                             *)

\* CreateOrder makes an order that no row can name yet, after it has closed the
\* buyer's open ones.
LEMMA CreateSound ==
    ASSUME TableInv, NEW u \in Users, NEW i \in Items, NEW o \in Orders, Opens(u, i, o)
    PROVE  TableInv' /\ Keeps({})
<1> DEFINE new == [NoSuchOrder EXCEPT !.status = "pending", !.user = u,
                                      !.item = i, !.live = TRUE]
           closed(p) == [orders[p] EXCEPT !.status =
                            IF orders[p].live THEN "cancelled" ELSE "expired"]
<1>1. orders \in [Orders -> Order] /\ ledger \in [Rows -> Row]
  BY DEF TableInv, CheckoutTypeOK
<1>2. /\ new \in Order
      /\ new.status = "pending" /\ new.user = u /\ new.codes = 0 /\ new.paid = 0
  <2>1. NoSuchOrder \in Order /\ NoSuchOrder.codes = 0 /\ NoSuchOrder.paid = 0
    BY DEF NoSuchOrder, Order, OrderStatus, ReviewReason
  <2>2. "pending" \in OrderStatus
    BY DEF OrderStatus
  <2>3. new \in Order
    BY <2>1, <2>2, Zenon DEF Order
  <2> QED BY <2>1, <2>3 DEF Order
<1>3. \A p \in Orders : /\ closed(p) \in Order
                        /\ closed(p).status \in {"cancelled", "expired"}
                        /\ closed(p).user = orders[p].user
                        /\ closed(p).codes = orders[p].codes
                        /\ closed(p).paid = orders[p].paid
  <2>1. \A p \in Orders : orders[p] \in Order
    BY <1>1
  <2>2. {"cancelled", "expired"} \subseteq OrderStatus
    BY DEF OrderStatus
  <2>3. \A p \in Orders : (IF orders[p].live THEN "cancelled" ELSE "expired") \in {"cancelled", "expired"}
    OBVIOUS
  <2> QED BY <2>1, <2>2, <2>3, StatusRecord
<1>4. CloseOpen(PendingOf(u)) = [p \in Orders |-> IF p \in PendingOf(u) THEN closed(p) ELSE orders[p]]
  BY DEF CloseOpen
<1> HIDE DEF closed
<1>5. orders' = [CloseOpen(PendingOf(u)) EXCEPT ![o] = new] /\ UNCHANGED ledger
  BY DEF Opens
<1> HIDE DEF new
<1>6. /\ orders' \in [Orders -> Order]
      /\ orders'[o] = new
      /\ \A p \in Orders \ {o} : p \in PendingOf(u) => orders'[p] = closed(p)
      /\ \A p \in Orders \ {o} : p \notin PendingOf(u) => orders'[p] = orders[p]
  BY <1>1, <1>2, <1>3, <1>4, <1>5
<1>7. orders[o].status = "absent"
  BY DEF Opens, Exists
<1>8. OnePendingPerBuyer'
  <2>1. ASSUME NEW p \in PendingOf(u)'
        PROVE  p = o
    BY <1>3, <1>6 DEF PendingOf
  <2>2. ASSUME NEW v \in Users \ {u}, NEW p \in PendingOf(v)'
        PROVE  p \in PendingOf(v)
    BY <1>2, <1>3, <1>6 DEF PendingOf
  <2> QED BY <2>1, <2>2 DEF TableInv, OnePendingPerBuyer
<1>9. \A p \in Orders : orders'[p].status \in Grantable =>
         /\ orders[p].status \in Grantable
         /\ orders'[p].codes = orders[p].codes
         /\ orders'[p].paid = orders[p].paid
  BY <1>2, <1>3, <1>6, <1>7 DEF Grantable, PendingOf, TableInv, Ungranted
<1>10. Keeps({})
  BY <1>3, <1>5, <1>6, <1>7 DEF Keeps, Exists
<1>11. \A r \in Rows : Pays(r)' => Pays(r) /\ ledger'[r].order = ledger[r].order
  BY <1>5 DEF Pays
<1> QED BY <1>1, <1>5, <1>6, <1>8, <1>9, <1>10, <1>11, NothingGranted DEF CheckoutTypeOK

\* The buyer's or the admin's cancellation.
LEMMA CancelSound ==
    ASSUME TableInv, NEW o \in Orders, UNCHANGED ledger, orders[o].status # "absent",
           orders' = [orders EXCEPT ![o].status = "cancelled"]
    PROVE  TableInv' /\ Keeps({})
<1>1. orders \in [Orders -> Order] /\ "cancelled" \in OrderStatus
  BY DEF TableInv, CheckoutTypeOK, OrderStatus
<1>2. /\ orders' \in [Orders -> Order]
      /\ orders'[o].status = "cancelled" /\ orders'[o].user = orders[o].user
      /\ \A p \in Orders \ {o} : orders'[p] = orders[p]
  BY <1>1, StatusRecord
<1> QED BY <1>2, OrdersSound DEF Grantable

\* The deadline passes: nothing but `live' moves.
LEMMA TtlSound ==
    ASSUME TableInv, NEW o \in Orders, TtlPasses(o)
    PROVE  TableInv' /\ Keeps({})
<1> DEFINE new == [orders[o] EXCEPT !.live = FALSE]
<1>1. orders \in [Orders -> Order]
  BY DEF TableInv, CheckoutTypeOK
<1>2. /\ new \in Order /\ new.status = orders[o].status /\ new.user = orders[o].user
      /\ new.codes = orders[o].codes /\ new.paid = orders[o].paid
  BY <1>1 DEF Order
<1>3. orders' = [orders EXCEPT ![o] = new]
  BY DEF TtlPasses
<1> HIDE DEF new
<1>4. /\ orders' \in [Orders -> Order]
      /\ orders'[o] = new
      /\ \A p \in Orders \ {o} : orders'[p] = orders[p]
  BY <1>1, <1>2, <1>3
<1> QED BY <1>2, <1>4, OrdersSound DEF TtlPasses

\* The sweep: pending orders become expired, with what they had.
LEMMA ExpireSound ==
    ASSUME TableInv, ExpireStale
    PROVE  TableInv' /\ Keeps({})
<1>1. orders \in [Orders -> Order] /\ "expired" \in OrderStatus
  BY DEF TableInv, CheckoutTypeOK, OrderStatus
<1>2. \A o \in Orders : orders'[o] = IF o \in Stale THEN [orders[o] EXCEPT !.status = "expired"]
                                                    ELSE orders[o]
  BY DEF ExpireStale
<1>3. \A o \in Orders : LET new == [orders[o] EXCEPT !.status = "expired"]
                        IN  /\ new \in Order
                            /\ new.status = "expired" /\ new.user = orders[o].user
                            /\ new.codes = orders[o].codes /\ new.paid = orders[o].paid
  <2>1. \A o \in Orders : orders[o] \in Order
    BY <1>1
  <2> QED BY <1>1, <2>1, StatusRecord
<1>4. orders' \in [Orders -> Order]
  BY <1>1, <1>2, <1>3 DEF ExpireStale
<1> QED BY <1>2, <1>3, <1>4, OrdersSound DEF ExpireStale, Stale, Grantable

\* An admin's word withdraws the order from automatic settlement.
LEMMA AdminConfirmSound ==
    ASSUME TableInv, NEW o \in Orders, NEW amount \in Amounts, AdminConfirm(o, amount)
    PROVE  TableInv' /\ Keeps({})
<1> DEFINE new == MarkPaid(orders[o], amount, Admin)
<1>1. orders \in [Orders -> Order] /\ amount \in Nat
  BY PriceAssumption DEF TableInv, CheckoutTypeOK
<1>2. new \in Order /\ new.status = "paid" /\ new.user = orders[o].user
  BY <1>1, MarkPaidRecord
<1>3. orders' = [orders EXCEPT ![o] = new]
  BY DEF AdminConfirm
<1> HIDE DEF new
<1>4. /\ orders' \in [Orders -> Order]
      /\ orders'[o] = new
      /\ \A p \in Orders \ {o} : orders'[p] = orders[p]
  BY <1>1, <1>2, <1>3
<1> QED BY <1>2, <1>4, OrdersSound DEF AdminConfirm, Exists, Grantable

\* A dismissed row pays nothing.
LEMMA DismissSound ==
    ASSUME TableInv, NEW r \in Rows, DismissTransaction(r)
    PROVE  TableInv' /\ Keeps({})
<1>1. ledger \in [Rows -> Row] /\ "dismissed" \in TxnStatus
  BY DEF TableInv, CheckoutTypeOK, TxnStatus
<1>2. /\ ledger' \in [Rows -> Row]
      /\ ledger'[r].status = "dismissed"
      /\ \A s \in Rows \ {r} : ledger'[s] = ledger[s]
  BY <1>1 DEF DismissTransaction, Row
<1> QED BY <1>2, RecordSound DEF DismissTransaction

\* No operation of Checkout turns a row into a granted notification: a row that an
\* admin places is `attached'.
LEMMA CheckoutSound ==
    ASSUME TableInv, CartInv, CheckoutNext
    PROVE  TableInv' /\ Keeps({})
<1>1. CASE \E c \in Carts, o \in Orders : CreateOrder(c, o)
  BY <1>1, CommitOpens, CreateSound
<1>9. CASE UNCHANGED <<orders, ledger>>
  BY <1>9, TablesStay
<1>2. CASE \E o \in Orders : CancelUserOrder(o)
  BY <1>2, CancelSound DEF CancelUserOrder
<1>3. CASE \E o \in Orders : TtlPasses(o)
  BY <1>3, TtlSound
<1>4. CASE ExpireStale
  BY <1>4, ExpireSound
<1>5. CASE \E o \in Orders, a \in Amounts : AdminConfirm(o, a)
  BY <1>5, AdminConfirmSound
<1>6. CASE \E o \in Orders : AdminCancel(o)
  BY <1>6, CancelSound DEF AdminCancel
<1>7. CASE \E r \in Rows, o \in Orders : AttachTransaction(r, o)
  <2> PICK r \in Rows, o \in Orders : AttachTransaction(r, o)
    BY <1>7
  <2>1. ledger[r].amount \in Nat
    BY DEF TableInv, CheckoutTypeOK, Row
  <2>2. /\ TableInv'
        /\ Keeps({r})
        /\ ledger'[r].status \in {"matched", "attached"} => ledger'[r].status = "attached"
    BY <2>1, SettleSound DEF AttachTransaction
  <2> QED BY <2>2 DEF Keeps
<1>8. CASE \E r \in Rows : DismissTransaction(r)
  BY <1>8, DismissSound
<1> QED BY <1>1, <1>2, <1>3, <1>4, <1>5, <1>6, <1>7, <1>8, <1>9
        DEF CheckoutNext, BeginCheckout, EndCheckout

-----------------------------------------------------------------------------
(* The gateway.                                                            *)

\* A captured payment grants its order only under the name of the order's owner.
LEMMA ApplyPaidSound ==
    ASSUME TableInv, NEW r \in Rows, NEW o \in Orders, NEW amount \in Nat, NEW payer,
           ApplyPaid(r, o, amount, payer)
    PROVE  /\ TableInv'
           /\ Keeps({r})
           /\ ledger'[r].status = "matched" => payer \in {None, orders[o].user}
<1>1. orders \in [Orders -> Order] /\ ledger \in [Rows -> Row]
  BY DEF TableInv, CheckoutTypeOK
<1>2. CASE /\ orders' = [orders EXCEPT ![o].status = "needs_review",
                                       ![o].reason = "customer_mismatch"]
           /\ SetTxnNoted(r, "needs_review", o, amount, "customer_mismatch")
  <2> DEFINE new == [orders[o] EXCEPT !.status = "needs_review", !.reason = "customer_mismatch"]
  <2>1. new \in Order /\ new.status = "needs_review" /\ new.user = orders[o].user
    <3>1. "needs_review" \in OrderStatus /\ "customer_mismatch" \in ReviewReason
      BY DEF OrderStatus, ReviewReason
    <3>2. new \in Order
      BY <1>1, <3>1, Zenon DEF Order
    <3> QED BY <1>1, <3>2 DEF Order
  <2>2. orders' = [orders EXCEPT ![o] = new]
    BY <1>1, <1>2
  <2> HIDE DEF new
  <2>3. /\ ledger' \in [Rows -> Row]
        /\ ledger'[r].status = "needs_review"
        /\ \A s \in Rows \ {r} : ledger'[s] = ledger[s]
    <3>1. "needs_review" \in TxnStatus
      BY DEF TxnStatus
    <3> QED BY <1>1, <1>2, <3>1, SetTxnWrites DEF Note
  <2>4. TableInv' /\ Keeps({})
    BY <2>1, <2>2, <2>3, WithdrawSound DEF Grantable
  <2> QED BY <2>3, <2>4 DEF Keeps
<1>3. CASE payer \in {None, orders[o].user} /\ Settle(r, o, amount, "matched")
  BY <1>3, SettleSound
<1> QED BY <1>2, <1>3 DEF ApplyPaid

\* It moves its order alone, which nobody holds.
LEMMA ApplyPaidKeepsCarts ==
    ASSUME CartInv, UNCHANGED carts, orders \in [Orders -> Order],
           NEW r, NEW o \in Orders, NEW amount, NEW payer, ~Held(o),
           ApplyPaid(r, o, amount, payer)
    PROVE  CartInv'
<1>1. CASE orders' = [orders EXCEPT ![o].status = "needs_review",
                                    ![o].reason = "customer_mismatch"]
  <2> DEFINE new == [orders[o] EXCEPT !.status = "needs_review", !.reason = "customer_mismatch"]
  <2>1. orders' = [orders EXCEPT ![o] = new]
    BY <1>1
  <2> QED BY <2>1, UnheldMoves
<1>2. CASE Settle(r, o, amount, "matched")
  BY <1>2, SettleKeepsCarts
<1> QED BY <1>1, <1>2 DEF ApplyPaid

\* A step on the tables keeps the whole invariant, if the notifications it grants are
\* those of a payment that names its order and the order's owner.
LEMMA TablesStep ==
    ASSUME IInv, NEW fresh \in SUBSET Rows, TableInv', Keeps(fresh), CartInv',
           UNCHANGED gate, polled' \subseteq Orders,
           fetched' \in [Orders -> Payments \cup {None}],
           \A p \in Payments :
               IpnRow(p) \in fresh /\ ledger'[IpnRow(p)].status = "matched" =>
                   /\ Made(p)
                   /\ gate[p].invoice \in Orders
                   /\ gate[p].payer \in {None, orders[gate[p].invoice].user}
    PROVE  IInv'
<1>1. \A p \in Payments : IpnRow(p) \in Rows
  BY GatewayAssumption DEF IpnRow
<1>2. TypeOK'
  BY DEF IInv, TypeOK, TableInv, CartInv
<1>3. InvoicesExist'
  BY DEF IInv, InvoicesExist, Keeps, Exists
<1>4. GrantsHaveInvoices' /\ MisroutedNeverGrants'
  <2> SUFFICES ASSUME NEW p \in Payments, ledger'[IpnRow(p)].status = "matched"
               PROVE  /\ gate[p].state # "none"
                      /\ gate[p].invoice \in Orders
                      /\ gate[p].payer \in {None, orders'[gate[p].invoice].user}
    BY DEF GrantsHaveInvoices, MisroutedNeverGrants, Made, IpnRow
  <2>1. /\ Made(p)
        /\ gate[p].invoice \in Orders
        /\ gate[p].payer \in {None, orders[gate[p].invoice].user}
    BY <1>1 DEF IInv, GrantsHaveInvoices, MisroutedNeverGrants, Keeps
  <2>2. orders'[gate[p].invoice].user = orders[gate[p].invoice].user
    BY <2>1 DEF IInv, InvoicesExist, Keeps
  <2> QED BY <2>1, <2>2 DEF Made
<1> QED BY <1>2, <1>3, <1>4 DEF IInv

\* A payment is made once, for an order that exists: no granted row is about it yet.
LEMMA CaptureSound ==
    ASSUME IInv, NEW p \in Payments, NEW page \in Pages[p], Capture(p, page)
    PROVE  IInv'
<1> DEFINE new == [state |-> "captured", invoice |-> page.invoice,
                   amount |-> page.amount, payer |-> page.payer]
<1>1. /\ new \in Payment
      /\ new.invoice = page.invoice
  <2>1. page \in Page
    BY GatewayAssumption
  <2> QED BY <2>1 DEF Payment, Page
<1>2. gate \in [Payments -> Payment] /\ gate' = [gate EXCEPT ![p] = new]
  BY DEF IInv, TypeOK, Capture
<1> HIDE DEF new
<1>3. /\ gate' \in [Payments -> Payment]
      /\ gate'[p] = new
      /\ \A q \in Payments \ {p} : gate'[q] = gate[q]
  BY <1>1, <1>2
<1>4. TypeOK' /\ TableInv' /\ CartInv'
  <2>1. TableInv' /\ CartInv'
    BY TablesStay, CartsKeep DEF Capture, IInv
  <2> QED BY <1>3, <2>1 DEF Capture, IInv, TypeOK, TableInv
<1>5. InvoicesExist'
  <2>1. page.invoice \in Orders => Exists(page.invoice)
    BY DEF Capture
  <2> QED BY <1>1, <1>3, <2>1 DEF Capture, IInv, InvoicesExist, Exists
<1>6. GrantsHaveInvoices' /\ MisroutedNeverGrants'
  <2> SUFFICES ASSUME NEW q \in Payments, ledger[IpnRow(q)].status = "matched"
               PROVE  /\ gate'[q].state # "none"
                      /\ gate'[q].invoice \in Orders
                      /\ gate'[q].payer \in {None, orders[gate'[q].invoice].user}
    BY DEF GrantsHaveInvoices, MisroutedNeverGrants, Made, IpnRow, Capture
  <2>1. /\ Made(q)
        /\ gate[q].invoice \in Orders
        /\ gate[q].payer \in {None, orders[gate[q].invoice].user}
    BY DEF IInv, GrantsHaveInvoices, MisroutedNeverGrants
  <2>2. q # p
    BY <2>1 DEF Capture
  <2> QED BY <1>3, <2>1, <2>2 DEF Made
<1> QED BY <1>4, <1>5, <1>6 DEF IInv

\* A void changes neither the invoice nor the payer.
LEMMA VoidSound ==
    ASSUME IInv, NEW p \in Payments, Void(p)
    PROVE  IInv'
<1>1. /\ gate' \in [Payments -> Payment]
      /\ \A q \in Payments : /\ gate'[q].invoice = gate[q].invoice
                             /\ gate'[q].payer = gate[q].payer
                             /\ gate'[q].state = "none" => gate[q].state = "none"
  BY DEF IInv, TypeOK, Void, Payment
<1>2. TypeOK' /\ TableInv' /\ CartInv'
  <2>1. TableInv' /\ CartInv'
    BY TablesStay, CartsKeep DEF Void, IInv
  <2> QED BY <1>1, <2>1 DEF Void, IInv, TypeOK, TableInv
<1>3. InvoicesExist'
  BY <1>1 DEF Void, IInv, InvoicesExist, Exists
<1>4. GrantsHaveInvoices'
  BY <1>1 DEF Void, IInv, GrantsHaveInvoices, Made, IpnRow
<1>5. MisroutedNeverGrants'
  BY <1>1 DEF Void, IInv, MisroutedNeverGrants, IpnRow
<1> QED BY <1>2, <1>3, <1>4, <1>5 DEF IInv

\* A notification that is only recorded: its row pays nothing.
LEMMA OnlyRecordedSound ==
    ASSUME IInv, NEW r \in Rows, NEW status \in TxnStatus, status \notin {"matched", "attached"},
           NEW o \in Orders \cup {None}, NEW amount \in Nat,
           NEW note \in Note,
           SetTxnNoted(r, status, o, amount, note), UNCHANGED <<orders, carts, gate, polled, fetched>>
    PROVE  IInv'
<1>1. /\ ledger \in [Rows -> Row] /\ polled' \subseteq Orders
      /\ fetched' \in [Orders -> Payments \cup {None}]
  BY DEF IInv, TypeOK, CheckoutTypeOK
<1>4. CartInv'
  BY CartsKeep DEF IInv
<1>2. /\ ledger' \in [Rows -> Row]
      /\ ledger'[r].status = status
      /\ \A s \in Rows \ {r} : ledger'[s] = ledger[s]
  BY <1>1, SetTxnWrites
<1>3. TableInv' /\ Keeps({})
  BY <1>2, RecordSound DEF IInv
<1> QED BY <1>1, <1>3, <1>4, TablesStep

LEMMA IpnOtherSound ==
    ASSUME IInv, NEW p \in Payments, IpnOther(p)
    PROVE  IInv'
<1>1. IpnRow(p) \in Rows /\ gate[p].amount \in Nat /\ "ignored" \in TxnStatus
  BY GatewayAssumption DEF IpnRow, IInv, TypeOK, Payment, TxnStatus
<1>2. SetTxnNoted(IpnRow(p), "ignored", None, gate[p].amount, "")
  BY DEF IpnOther, SetTxn
<1> QED BY <1>1, <1>2, OnlyRecordedSound DEF IpnOther, Note

LEMMA IpnVoidSound ==
    ASSUME IInv, NEW p \in Payments, IpnVoid(p)
    PROVE  IInv'
<1>1. /\ VoidRow(p) \in Rows /\ gate[p].amount \in Nat /\ "needs_review" \in TxnStatus
      /\ gate[p].invoice \in Orders \cup {None}
  BY GatewayAssumption DEF VoidRow, IInv, TypeOK, Payment, TxnStatus
<1>2. SetTxnNoted(VoidRow(p), "needs_review", gate[p].invoice, gate[p].amount, "void")
  BY DEF IpnVoid
<1> QED BY <1>1, <1>2, OnlyRecordedSound DEF IpnVoid, Note

LEMMA IpnPaidSound ==
    ASSUME IInv, NEW p \in Payments, IpnPaid(p)
    PROVE  IInv'
<1>1. IpnRow(p) \in Rows /\ gate[p].amount \in Nat /\ "unmatched" \in TxnStatus
  BY GatewayAssumption DEF IpnRow, IInv, TypeOK, Payment, TxnStatus
<1>2. CASE /\ SetTxn(IpnRow(p), "unmatched", None, gate[p].amount)
           /\ UNCHANGED orders
  <2>1. SetTxnNoted(IpnRow(p), "unmatched", None, gate[p].amount, "")
    BY <1>2 DEF SetTxn
  <2> QED BY <1>1, <1>2, <2>1, OnlyRecordedSound DEF IpnPaid, Note
<1>3. CASE /\ gate[p].invoice \in Orders
           /\ ~Held(gate[p].invoice)
           /\ ApplyPaid(IpnRow(p), gate[p].invoice, gate[p].amount, gate[p].payer)
  <2>1. /\ TableInv'
        /\ Keeps({IpnRow(p)})
        /\ ledger'[IpnRow(p)].status = "matched" =>
              gate[p].payer \in {None, orders[gate[p].invoice].user}
    BY <1>1, <1>3, ApplyPaidSound DEF IInv
  <2>2. \A q \in Payments : IpnRow(q) \in {IpnRow(p)} => q = p
    BY DEF IpnRow
  <2>3. /\ polled' \subseteq Orders
        /\ fetched' \in [Orders -> Payments \cup {None}]
    BY DEF IpnPaid, IInv, TypeOK
  <2>4. CartInv'
    BY <1>3, ApplyPaidKeepsCarts DEF IpnPaid, IInv, TypeOK, CheckoutTypeOK
  <2> QED BY <1>1, <1>3, <2>1, <2>2, <2>3, <2>4, TablesStep DEF IpnPaid
<1> QED BY <1>2, <1>3 DEF IpnPaid

\* The reconcile job applies money under an id that is no notification's.
LEMMA PollApplySound ==
    ASSUME IInv, NEW o \in Orders, PollApply(o)
    PROVE  IInv'
<1> DEFINE p == fetched[o]
<1>1. ReconcileRow(o) \in Rows
  BY GatewayAssumption DEF ReconcileRow
<1>2. /\ p \in Payments /\ UNCHANGED <<carts, gate, polled>>
      /\ fetched' = [fetched EXCEPT ![o] = None]
  BY DEF PollApply, IInv, TypeOK
<1>3. polled' \subseteq Orders /\ fetched' \in [Orders -> Payments \cup {None}]
  BY <1>2 DEF IInv, TypeOK
<1>4. CASE UNCHANGED <<orders, ledger>>
  <2>1. TableInv' /\ Keeps({}) /\ CartInv'
    BY <1>2, <1>4, TablesStay, CartsKeep DEF IInv
  <2> QED BY <1>2, <1>3, <2>1, TablesStep
<1>5. CASE ~Held(o) /\ ApplyPaid(ReconcileRow(o), o, gate[p].amount, gate[p].payer)
  <2>1. gate[p].amount \in Nat
    BY <1>2 DEF IInv, TypeOK, Payment
  <2> HIDE DEF p
  <2>2. TableInv' /\ Keeps({ReconcileRow(o)})
    BY <1>1, <1>5, <2>1, ApplyPaidSound DEF IInv
  <2>3. \A q \in Payments : IpnRow(q) # ReconcileRow(o)
    BY DEF IpnRow, ReconcileRow
  <2>4. CartInv'
    BY <1>2, <1>5, ApplyPaidKeepsCarts DEF IInv, TypeOK, CheckoutTypeOK
  <2> QED BY <1>1, <1>2, <1>3, <2>2, <2>3, <2>4, TablesStep
<1> QED BY <1>4, <1>5 DEF PollApply

\* Steps that leave the tables and the payments alone.
LEMMA QuietSound ==
    ASSUME IInv, UNCHANGED <<orders, ledger, carts, gate>>, polled' \subseteq Orders,
           fetched' \in [Orders -> Payments \cup {None}]
    PROVE  IInv'
<1>1. TableInv' /\ Keeps({}) /\ CartInv'
  BY TablesStay, CartsKeep DEF IInv
<1> QED BY <1>1, TablesStep

LEMMA InitSound == Init => IInv
<1> SUFFICES ASSUME Init
             PROVE  IInv
  OBVIOUS
<1>1. NoSuchOrder \in Order /\ NoSuchRow \in Row
  BY DEF NoSuchOrder, Order, OrderStatus, ReviewReason, NoSuchRow, Row
<1>2. \A p \in Payments : gate[p] \in Payment /\ gate[p].invoice = None
  BY DEF Init, Payment
<1>9. NoCart \in Cart /\ NoCart.busy = FALSE /\ NoCart.open = {}
  BY DEF NoCart, Cart
<1>10. CartInv
  BY <1>9 DEF Init, CheckoutInit, CartInv
<1>3. TypeOK /\ CheckoutTypeOK
  BY <1>1, <1>2, <1>10 DEF Init, CheckoutInit, TypeOK, CheckoutTypeOK, CartInv
<1>4. \A r \in Rows : ~Pays(r)
  BY DEF Init, CheckoutInit, Pays, NoSuchRow
<1>5. \A o \in Orders : orders[o].status = "absent" /\ orders[o].codes = 0 /\ orders[o].paid = 0
  BY DEF Init, CheckoutInit, NoSuchOrder
<1>6. TableInv
  BY <1>3, <1>4, <1>5 DEF TableInv, Ungranted, MoneyGrantsOnce, OnePendingPerBuyer, PendingOf
<1>7. InvoicesExist
  BY <1>2, SentinelAssumption DEF InvoicesExist
<1>8. GrantsHaveInvoices /\ MisroutedNeverGrants
  <2>1. \A p \in Payments : IpnRow(p) \in Rows
    BY GatewayAssumption DEF IpnRow
  <2> QED BY <1>4, <2>1 DEF GrantsHaveInvoices, MisroutedNeverGrants, Pays
<1> QED BY <1>3, <1>6, <1>7, <1>8, <1>10 DEF IInv

-----------------------------------------------------------------------------
(* Theorems.                                                               *)

\* The gateway's invariant: tables, payments and notifications together.
THEOREM InductiveInvariant == Spec => []IInv
<1>1. IInv /\ [Next]_vars => IInv'
  <2> SUFFICES ASSUME IInv, [Next]_vars
               PROVE  IInv'
    OBVIOUS
  <2>1. ASSUME NEW p \in Payments, NEW page \in Pages[p], Capture(p, page)
        PROVE  IInv'
    BY <2>1, CaptureSound
  <2>2. ASSUME NEW p \in Payments, Void(p) \/ IpnOther(p) \/ IpnPaid(p) \/ IpnVoid(p)
        PROVE  IInv'
    BY <2>2, VoidSound, IpnOtherSound, IpnPaidSound, IpnVoidSound
  <2>3. CASE PollStart \/ PollAborts \/ UNCHANGED vars
    <3>1. polled' \subseteq Orders /\ fetched' \in [Orders -> Payments \cup {None}]
      BY <2>3 DEF PollStart, PollAborts, vars, Unpaid, IInv, TypeOK
    <3> QED BY <2>3, <3>1, QuietSound DEF PollStart, PollAborts, vars
  <2>6. ASSUME NEW o \in Orders, PollFetch(o)
        PROVE  IInv'
    <3>1. polled' \subseteq Orders
      BY <2>6 DEF PollFetch, IInv, TypeOK
    <3>2. fetched' \in [Orders -> Payments \cup {None}]
      BY <2>6 DEF PollFetch, CapturedFor, IInv, TypeOK
    <3> QED BY <2>6, <3>1, <3>2, QuietSound DEF PollFetch
  <2>4. CASE \E o \in Orders : PollApply(o)
    BY <2>4, PollApplySound
  <2>5. CASE CheckoutNext /\ UNCHANGED <<gate, polled, fetched>>
    <3>1. TableInv' /\ Keeps({}) /\ CartInv'
      BY <2>5, CheckoutSound, CheckoutKeepsCarts DEF IInv, TypeOK, CheckoutTypeOK
    <3>2. polled' \subseteq Orders /\ fetched' \in [Orders -> Payments \cup {None}]
      BY <2>5 DEF IInv, TypeOK
    <3> QED BY <2>5, <3>1, <3>2, TablesStep
  <2> QED BY <2>1, <2>2, <2>3, <2>4, <2>5, <2>6 DEF Next, GatewayNext
<1> QED BY <1>1, InitSound, PTL DEF Spec

\* Every table, payment and list keeps its shape.
THEOREM TypesHold == Spec => []TypeOK
<1>1. IInv => TypeOK
  BY DEF IInv
<1> QED BY <1>1, InductiveInvariant, PTL

\* IPN, repeats, the reconcile job and an admin's placements grant one order at most
\* once between them, even when a mismatch has taken the order out of `paid' (settle).
THEOREM OneGrantPerOrder == Spec => []MoneyGrantsOnce
<1>1. IInv => MoneyGrantsOnce
  BY DEF IInv, TableInv
<1> QED BY <1>1, InductiveInvariant, PTL

\* What automatic settlement may still pay has been paid by nobody.
THEOREM SettlementMeetsUngranted == Spec => []OpenOrdersAreUngranted
<1>1. IInv => OpenOrdersAreUngranted
  BY DEF IInv, TableInv, Ungranted, Grantable, OpenOrdersAreUngranted
<1> QED BY <1>1, InductiveInvariant, PTL

\* A notification that grants by itself names the order's owner, or nobody
\* (ApplyGatewayIPN's customer check).
THEOREM GrantsNameTheOwner == Spec => []MisroutedNeverGrants
<1>1. IInv => MisroutedNeverGrants
  BY DEF IInv
<1> QED BY <1>1, InductiveInvariant, PTL

\* No buyer of this channel has two pending orders either (createOrderOnce).
THEOREM OneLiveCheckoutPerBuyer == Spec => []OnePendingPerBuyer
<1>1. IInv => OnePendingPerBuyer
  BY DEF IInv, TableInv
<1> QED BY <1>1, InductiveInvariant, PTL

-----------------------------------------------------------------------------
(* The money.  As on the bank channel an order's amount is the sum of the  *)
(* rows credited to it, voids and misrouted payments aside; but here paid  *)
(* money may come under review, where later money is added to it.          *)

OrderMoney(o) ==
    /\ IsFiniteSet(Credited(o))
    /\ orders[o].status \in Grantable => Credited(o) = {} /\ orders[o].ref # Admin
    /\ orders[o].ref # Admin => orders[o].paid = MoneyIn(ledger, Credited(o))

MoneyInv == \A o \in Orders : OrderMoney(o)

OpenRow(r) == ledger[r].status \in {"absent", "unmatched"}

\* An order says the same of its money after a step, or has an admin's word for it.
Rests(o) ==
    \/ orders'[o].ref = Admin /\ orders'[o].status \notin Grantable
    \/ /\ orders'[o].paid = orders[o].paid /\ orders'[o].ref = orders[o].ref
       /\ orders'[o].status \in Grantable => orders[o].status \in Grantable

\* Money is a sum of amounts, in the terms of SumLemmas.
LEMMA MoneyIsAmount == \A book, S : MoneyIn(book, S) = AmountIn(book, S)
BY DEF MoneyIn, AmountIn, MapThenSumSet, MapThenFoldSet

\* The money of an order at rest stays true if its rows rest too.
LEMMA RestingOrder ==
    ASSUME NEW o \in Orders, OrderMoney(o), Rests(o),
           NEW r \in Rows, \A s \in Rows \ {r} : ledger'[s] = ledger[s],
           r \notin Credited(o), r \notin Credited(o)'
    PROVE  OrderMoney(o)'
<1>1. Credited(o)' = Credited(o)
  BY DEF Credited, Pays
<1>2. \A s \in Credited(o) : ledger'[s] = ledger[s]
  BY DEF Credited
<1>3. IsFiniteSet(Credited(o))
  BY DEF OrderMoney
<1> HIDE DEF Credited
<1>4. MoneyIn(ledger', Credited(o)) = MoneyIn(ledger, Credited(o))
  BY <1>2, <1>3, MoneyIsAmount, AmountSame
<1> QED BY <1>1, <1>4 DEF OrderMoney, Rests

\* A row that comes to be credited brings its amount.
LEMMA NewRowMoney ==
    ASSUME ledger' \in [Rows -> Row],
           NEW r \in Rows, \A s \in Rows \ {r} : ledger'[s] = ledger[s],
           NEW o \in Orders, IsFiniteSet(Credited(o)),
           r \notin Credited(o), r \in Credited(o)'
    PROVE  /\ IsFiniteSet(Credited(o)')
           /\ MoneyIn(ledger', Credited(o)') = MoneyIn(ledger, Credited(o)) + ledger'[r].amount
<1> DEFINE S == Credited(o)
<1>1. Credited(o)' = S \cup {r}
  BY DEF Credited, Pays
<1>2. \A s \in S : ledger'[s] = ledger[s]
  BY DEF Credited
<1>3. \A s \in S \cup {r} : ledger'[s].amount \in Nat
  BY DEF Credited, Row
<1> HIDE DEF S
<1>4. MoneyIn(ledger', S) = MoneyIn(ledger, S)
  BY <1>2, MoneyIsAmount, AmountSame DEF S
<1>5. MoneyIn(ledger', S \cup {r}) = MoneyIn(ledger', S) + ledger'[r].amount
  BY <1>3, MoneyIsAmount, AmountAdds DEF S
<1>6. IsFiniteSet(S \cup {r})
  BY FS_AddElement DEF S
<1> QED BY <1>1, <1>4, <1>5, <1>6 DEF S

\* Orders at rest, the ledger too.
LEMMA OrdersRestMoney ==
    ASSUME MoneyInv, UNCHANGED ledger, \A o \in Orders : Rests(o)
    PROVE  MoneyInv'
<1> SUFFICES ASSUME NEW o \in Orders
             PROVE  OrderMoney(o)'
  BY DEF MoneyInv
<1>1. OrderMoney(o) /\ Rests(o)
  BY DEF MoneyInv
<1>2. Credited(o)' = Credited(o)
  BY DEF Credited, Pays
<1> QED BY <1>1, <1>2 DEF OrderMoney, Rests

\* Orders at rest, and a row that is credited to nobody.
LEMMA UncreditedMoney ==
    ASSUME MoneyInv, \A o \in Orders : Rests(o),
           NEW r \in Rows, \A s \in Rows \ {r} : ledger'[s] = ledger[s],
           \A o \in Orders : r \notin Credited(o) /\ r \notin Credited(o)'
    PROVE  MoneyInv'
<1> SUFFICES ASSUME NEW o \in Orders
             PROVE  OrderMoney(o)'
  BY DEF MoneyInv
<1>1. OrderMoney(o)
  BY DEF MoneyInv
<1> QED BY <1>1, RestingOrder

\* A row placed on an order, and the order taking its amount.
LEMMA PlacedMoney ==
    ASSUME TableInv, MoneyInv, NEW r \in Rows, NEW o \in Orders, NEW amount \in Nat,
           NEW status \in {"matched", "attached", "amount_mismatch", "needs_review"},
           OpenRow(r), SetTxn(r, status, o, amount),
           NEW new \in Order, orders' = [orders EXCEPT ![o] = new],
           new.status \notin Grantable,
           new.ref # Admin => new.paid = MoneyIn(ledger, Credited(o)) + amount
    PROVE  MoneyInv'
<1>1. orders \in [Orders -> Order] /\ ledger \in [Rows -> Row] /\ status \in TxnStatus
  BY DEF TableInv, CheckoutTypeOK, TxnStatus
<1>2. /\ ledger' \in [Rows -> Row]
      /\ ledger'[r].status = status
      /\ ledger'[r].order = o
      /\ ledger'[r].amount = amount
      /\ ledger'[r].note = ""
      /\ \A s \in Rows \ {r} : ledger'[s] = ledger[s]
  BY <1>1, SetTxnWrites DEF SetTxn, Note
<1>3. orders'[o] = new /\ \A p \in Orders \ {o} : orders'[p] = orders[p]
  BY <1>1
<1>4. \A p \in Orders : r \notin Credited(p) /\ (r \in Credited(p)' <=> p = o)
  BY <1>2 DEF Credited, Pays, OpenRow
<1>5. OrderMoney(o)'
  <2>1. IsFiniteSet(Credited(o))
    BY DEF MoneyInv, OrderMoney
  <2>2. /\ IsFiniteSet(Credited(o)')
        /\ MoneyIn(ledger', Credited(o)') = MoneyIn(ledger, Credited(o)) + amount
    BY <1>2, <1>4, <2>1, NewRowMoney
  <2> QED BY <1>3, <2>2 DEF OrderMoney
<1>6. ASSUME NEW p \in Orders \ {o}
      PROVE  OrderMoney(p)'
  <2>1. OrderMoney(p) /\ Rests(p)
    BY <1>3 DEF MoneyInv, Rests
  <2> QED BY <1>2, <1>4, <2>1, RestingOrder
<1> QED BY <1>5, <1>6 DEF MoneyInv

\* Money sent to review is added to what the order already held.
LEMMA ReviewMoney ==
    ASSUME TableInv, MoneyInv, NEW r \in Rows, NEW o \in Orders, NEW amount \in Nat,
           NEW reason \in ReviewReason, OpenRow(r), SendToReview(r, o, amount, reason)
    PROVE  MoneyInv'
<1> DEFINE new == Review(orders[o], amount, reason)
           status == ReviewStatus(reason)
<1>1. orders[o] \in Order
  BY DEF TableInv, CheckoutTypeOK
<1>2. /\ new \in Order
      /\ new.status = "needs_review"
      /\ new.ref = orders[o].ref
      /\ new.paid = orders[o].paid + amount
  BY <1>1, ReviewRecord
<1>3. orders' = [orders EXCEPT ![o] = new] /\ SetTxn(r, status, o, amount)
  BY DEF SendToReview
<1> HIDE DEF new
<1>4. status \in {"matched", "attached", "amount_mismatch", "needs_review"}
  BY DEF ReviewStatus
<1> HIDE DEF status
<1>5. orders[o].ref # Admin => orders[o].paid = MoneyIn(ledger, Credited(o))
  BY DEF MoneyInv, OrderMoney
<1>6. new.status \notin Grantable
  BY <1>2 DEF Grantable
<1>7. new.ref # Admin => new.paid = MoneyIn(ledger, Credited(o)) + amount
  BY <1>2, <1>5
<1> QED BY <1>2, <1>3, <1>4, <1>6, <1>7, PlacedMoney

\* Money that pays an order is all it holds: nothing was credited to it before.
LEMMA GrantMoney ==
    ASSUME TableInv, MoneyInv, NEW r \in Rows, NEW o \in Orders, NEW amount \in Nat,
           NEW grant \in {"matched", "attached"},
           OpenRow(r), orders[o].status \in Grantable,
           orders' = [orders EXCEPT ![o] = MarkPaid(@, amount, r)],
           SetTxn(r, grant, o, amount)
    PROVE  MoneyInv'
<1> DEFINE new == MarkPaid(orders[o], amount, r)
<1>1. orders[o] \in Order
  BY DEF TableInv, CheckoutTypeOK
<1>2. new \in Order /\ new.status = "paid" /\ new.paid = amount
  BY <1>1, MarkPaidRecord
<1>3. orders' = [orders EXCEPT ![o] = new]
  OBVIOUS
<1> HIDE DEF new
<1>4. MoneyIn(ledger, Credited(o)) = 0
  BY MoneyIsAmount, NoAmount DEF MoneyInv, OrderMoney
<1>5. new.ref # Admin => new.paid = MoneyIn(ledger, Credited(o)) + amount
  BY <1>2, <1>4
<1>6. new \in Order /\ new.status \notin Grantable
  BY <1>2 DEF Grantable
<1>7. grant \in {"matched", "attached", "amount_mismatch", "needs_review"}
  OBVIOUS
<1> QED BY <1>3, <1>5, <1>6, <1>7, PlacedMoney, ZenonT(60)

\* settle keeps the money true whatever order it meets.
LEMMA SettleMoney ==
    ASSUME TableInv, MoneyInv, NEW r \in Rows, NEW o \in Orders, NEW amount \in Nat,
           NEW grant \in {"matched", "attached"}, OpenRow(r), Settle(r, o, amount, grant)
    PROVE  MoneyInv'
<1>1. ledger \in [Rows -> Row] /\ orders[o].reason \in ReviewReason
  BY DEF TableInv, CheckoutTypeOK, Order
<1>2. {"late_payment", "amount_mismatch"} \subseteq ReviewReason
  BY DEF ReviewReason
<1>3. CASE SetTxn(r, "duplicate_payment", o, amount) /\ UNCHANGED orders
  <2>1. "duplicate_payment" \in TxnStatus
    BY DEF TxnStatus
  <2>2. /\ ledger'[r].status = "duplicate_payment"
        /\ \A s \in Rows \ {r} : ledger'[s] = ledger[s]
    BY <1>1, <1>3, <2>1, SetTxnWrites DEF SetTxn, Note
  <2>3. \A p \in Orders : r \notin Credited(p) /\ r \notin Credited(p)' /\ Rests(p)
    BY <1>3, <2>2 DEF Credited, Pays, OpenRow, Rests
  <2> QED BY <2>2, <2>3, UncreditedMoney
<1>4. CASE \E reason \in ReviewReason : SendToReview(r, o, amount, reason)
  BY <1>4, ReviewMoney
<1>5. CASE /\ orders[o].status \in {"pending", "expired"}
           /\ orders' = [orders EXCEPT ![o] = MarkPaid(@, amount, r)]
           /\ SetTxn(r, grant, o, amount)
  BY <1>5, GrantMoney DEF Grantable
<1> QED BY <1>1, <1>2, <1>3, <1>4, <1>5 DEF Settle

\* A misrouted payment adds nothing to the order that it takes to review.
LEMMA ApplyPaidMoney ==
    ASSUME TableInv, MoneyInv, NEW r \in Rows, NEW o \in Orders, NEW amount \in Nat,
           NEW payer, OpenRow(r), ApplyPaid(r, o, amount, payer)
    PROVE  MoneyInv'
<1>1. orders \in [Orders -> Order] /\ ledger \in [Rows -> Row]
  BY DEF TableInv, CheckoutTypeOK
<1>2. CASE /\ orders' = [orders EXCEPT ![o].status = "needs_review",
                                       ![o].reason = "customer_mismatch"]
           /\ SetTxnNoted(r, "needs_review", o, amount, "customer_mismatch")
  <2>1. "needs_review" \in TxnStatus
    BY DEF TxnStatus
  <2>2. ledger'[r].note # "" /\ \A s \in Rows \ {r} : ledger'[s] = ledger[s]
    BY <1>1, <1>2, <2>1, SetTxnWrites DEF Note
  <2>3. \A p \in Orders : r \notin Credited(p) /\ r \notin Credited(p)'
    BY <2>2 DEF Credited, Pays, OpenRow
  <2>4. ASSUME NEW p \in Orders
        PROVE  Rests(p)
    <3>1. orders[p] \in Order
      BY <1>1
    <3>2. CASE p = o
      BY <1>1, <1>2, <3>1, <3>2 DEF Rests, Order, Grantable
    <3>3. CASE p # o
      BY <1>1, <1>2, <3>3 DEF Rests
    <3> QED BY <3>2, <3>3
  <2> QED BY <2>2, <2>3, <2>4, UncreditedMoney
<1>3. CASE Settle(r, o, amount, "matched")
  BY <1>3, SettleMoney
<1> QED BY <1>2, <1>3 DEF ApplyPaid

\* A notification that is only recorded is credited to nobody.
LEMMA OnlyRecordedMoney ==
    ASSUME TableInv, MoneyInv, NEW r \in Rows, OpenRow(r), NEW status \in TxnStatus,
           NEW o \in Orders \cup {None}, NEW amount \in Nat, NEW note \in Note,
           status \in {"ignored", "unmatched"} \/ note = "void",
           SetTxnNoted(r, status, o, amount, note), UNCHANGED orders
    PROVE  MoneyInv'
<1>1. ledger \in [Rows -> Row]
  BY DEF TableInv, CheckoutTypeOK
<1>2. /\ ledger'[r].status = status /\ ledger'[r].note = note
      /\ \A s \in Rows \ {r} : ledger'[s] = ledger[s]
  BY <1>1, SetTxnWrites
<1>3. \A p \in Orders : r \notin Credited(p) /\ r \notin Credited(p)' /\ Rests(p)
  BY <1>2 DEF Credited, Pays, OpenRow, Rests
<1> QED BY <1>2, <1>3, UncreditedMoney

\* CreateOrder closes and opens orders that hold no money.
LEMMA CreateMoney ==
    ASSUME TableInv, MoneyInv, NEW u \in Users, NEW i \in Items, NEW o \in Orders,
           Opens(u, i, o)
    PROVE  MoneyInv'
<1> DEFINE new == [NoSuchOrder EXCEPT !.status = "pending", !.user = u,
                                      !.item = i, !.live = TRUE]
<1>1. orders \in [Orders -> Order] /\ orders[o].status = "absent"
  BY DEF TableInv, CheckoutTypeOK, Opens, Exists
<1>2. new.status = "pending" /\ new.paid = 0 /\ new.ref = None
  BY DEF NoSuchOrder
<1>3. orders' = [CloseOpen(PendingOf(u)) EXCEPT ![o] = new] /\ UNCHANGED ledger
  BY DEF Opens
<1> HIDE DEF new
<1>4. orders'[o] = new /\ \A p \in Orders \ {o} : orders'[p] = CloseOpen(PendingOf(u))[p]
  BY <1>3 DEF CloseOpen
<1>5. Credited(o)' = Credited(o) /\ Credited(o) = {}
  BY <1>1, <1>3 DEF Credited, Pays, MoneyInv, OrderMoney, Grantable
<1>6. OrderMoney(o)'
  BY <1>2, <1>4, <1>5, MoneyIsAmount, NoAmount, FS_EmptySet, SentinelAssumption DEF OrderMoney
<1>7. ASSUME NEW p \in Orders \ {o}
      PROVE  OrderMoney(p)'
  <2>1. OrderMoney(p) /\ Credited(p)' = Credited(p)
    BY <1>3 DEF MoneyInv, Credited, Pays
  <2>2. Rests(p)
    <3>1. CASE p \notin PendingOf(u)
      BY <1>4, <3>1 DEF CloseOpen, Rests
    <3>2. CASE p \in PendingOf(u)
      <4>1. PICK to \in {"cancelled", "expired"} : orders'[p] = [orders[p] EXCEPT !.status = to]
        BY <1>4, <3>2 DEF CloseOpen
      <4>2. orders[p] \in Order /\ to \in OrderStatus /\ orders[p].status = "pending"
        BY <1>1, <3>2 DEF PendingOf, OrderStatus
      <4> QED BY <4>1, <4>2, StatusRecord DEF Rests, Grantable
    <3> QED BY <3>1, <3>2
  <2> QED BY <1>3, <2>1, <2>2 DEF OrderMoney, Rests
<1> QED BY <1>6, <1>7 DEF MoneyInv

\* A change of status that leaves settlement's reach where it was, or moves out of it.
LEMMA StatusRests ==
    ASSUME NEW o \in Orders, orders[o] \in Order, NEW to \in OrderStatus,
           orders'[o] = [orders[o] EXCEPT !.status = to],
           to \in Grantable => orders[o].status \in Grantable
    PROVE  Rests(o)
BY StatusRecord DEF Rests

\* The operations of Checkout.
LEMMA CheckoutMoney ==
    ASSUME TableInv, MoneyInv, CartInv, CheckoutNext
    PROVE  MoneyInv'
<1>1. orders \in [Orders -> Order] /\ ledger \in [Rows -> Row]
  BY DEF TableInv, CheckoutTypeOK
<1>2. CASE \E c \in Carts, o \in Orders : CreateOrder(c, o)
  BY <1>2, CommitOpens, CreateMoney
<1>9. CASE UNCHANGED <<orders, ledger>>
  <2>1. \A o \in Orders : Rests(o)
    BY <1>9 DEF Rests
  <2> QED BY <1>9, <2>1, OrdersRestMoney
<1>3. ASSUME NEW o \in Orders, CancelUserOrder(o) \/ AdminCancel(o)
      PROVE  MoneyInv'
  <2>1. /\ orders'[o] = [orders[o] EXCEPT !.status = "cancelled"]
        /\ \A p \in Orders \ {o} : orders'[p] = orders[p]
        /\ UNCHANGED ledger
    BY <1>1, <1>3 DEF CancelUserOrder, AdminCancel
  <2>2. "cancelled" \in OrderStatus /\ "cancelled" \notin Grantable
    BY DEF OrderStatus, Grantable
  <2>3. Rests(o)
    BY <1>1, <2>1, <2>2, StatusRests
  <2>4. \A p \in Orders \ {o} : Rests(p)
    BY <2>1 DEF Rests
  <2> QED BY <2>1, <2>3, <2>4, OrdersRestMoney
<1>4. ASSUME NEW o \in Orders, TtlPasses(o)
      PROVE  MoneyInv'
  <2>1. Rests(o) /\ \A p \in Orders \ {o} : Rests(p)
    BY <1>1, <1>4 DEF TtlPasses, Order, Rests
  <2> QED BY <1>4, <2>1, OrdersRestMoney DEF TtlPasses
<1>5. CASE ExpireStale
  <2>1. "expired" \in OrderStatus /\ \A p \in Stale : orders[p].status \in Grantable
    BY DEF OrderStatus, Stale, Grantable
  <2>2. \A p \in Stale : Rests(p)
    BY <1>1, <1>5, <2>1, StatusRests DEF ExpireStale, Stale
  <2>3. \A p \in Orders \ Stale : Rests(p)
    BY <1>5 DEF ExpireStale, Rests
  <2> QED BY <1>5, <2>2, <2>3, OrdersRestMoney DEF ExpireStale
<1>6. ASSUME NEW o \in Orders, NEW a \in Amounts, AdminConfirm(o, a)
      PROVE  MoneyInv'
  <2> DEFINE new == MarkPaid(orders[o], a, Admin)
  <2>1. new.status = "paid" /\ new.ref = Admin
    BY <1>1, PriceAssumption, MarkPaidRecord
  <2>2. orders'[o] = new /\ \A p \in Orders \ {o} : orders'[p] = orders[p]
    BY <1>1, <1>6 DEF AdminConfirm
  <2> HIDE DEF new
  <2>3. \A p \in Orders : Rests(p)
    BY <2>1, <2>2 DEF Rests, Grantable
  <2> QED BY <1>6, <2>3, OrdersRestMoney DEF AdminConfirm
<1>7. ASSUME NEW r \in Rows, NEW o \in Orders, AttachTransaction(r, o)
      PROVE  MoneyInv'
  <2>1. ledger[r].amount \in Nat
    BY <1>1 DEF Row
  <2> QED BY <1>7, <2>1, SettleMoney DEF AttachTransaction, OpenRow
<1>8. ASSUME NEW r \in Rows, DismissTransaction(r)
      PROVE  MoneyInv'
  <2>1. ledger[r] \in Row
    BY <1>1
  <2>2. ledger'[r].status = "dismissed" /\ \A s \in Rows \ {r} : ledger'[s] = ledger[s]
    BY <1>1, <1>8, <2>1 DEF DismissTransaction, Row
  <2>3. \A p \in Orders : r \notin Credited(p) /\ r \notin Credited(p)' /\ Rests(p)
    BY <1>8, <2>2 DEF Credited, Pays, DismissTransaction, Rests
  <2> QED BY <2>2, <2>3, UncreditedMoney
<1> QED BY <1>2, <1>3, <1>4, <1>5, <1>6, <1>7, <1>8, <1>9
        DEF CheckoutNext, BeginCheckout, EndCheckout

\* The notifications and the poll.
LEMMA GatewayMoney ==
    ASSUME IInv, MoneyInv, GatewayNext
    PROVE  MoneyInv'
<1>1. TableInv
  BY DEF IInv
<1>2. \A p \in Payments : /\ IpnRow(p) \in Rows /\ VoidRow(p) \in Rows
                          /\ gate[p].amount \in Nat /\ gate[p].invoice \in Orders \cup {None}
  BY GatewayAssumption DEF IpnRow, VoidRow, IInv, TypeOK, Payment
<1>3. CASE UNCHANGED <<orders, ledger>>
  <2>1. \A o \in Orders : Rests(o)
    BY <1>3 DEF Rests
  <2> QED BY <1>3, <2>1, OrdersRestMoney
<1>4. ASSUME NEW p \in Payments, IpnOther(p)
      PROVE  MoneyInv'
  <2> DEFINE r == IpnRow(p)
  <2>1. r \in Rows /\ OpenRow(r) /\ SetTxnNoted(r, "ignored", None, gate[p].amount, "")
    BY <1>2, <1>4 DEF IpnOther, SetTxn, OpenRow, Recorded
  <2> HIDE DEF r
  <2>2. "ignored" \in TxnStatus /\ "" \in Note
    BY DEF TxnStatus, Note
  <2>3. UNCHANGED orders /\ gate[p].amount \in Nat
    BY <1>2, <1>4 DEF IpnOther
  <2> QED BY <1>1, <2>1, <2>2, <2>3, OnlyRecordedMoney
<1>5. ASSUME NEW p \in Payments, IpnVoid(p)
      PROVE  MoneyInv'
  <2> DEFINE r == VoidRow(p)
  <2>1. /\ r \in Rows /\ OpenRow(r)
        /\ SetTxnNoted(r, "needs_review", gate[p].invoice, gate[p].amount, "void")
    BY <1>2, <1>5 DEF IpnVoid, OpenRow, Recorded
  <2> HIDE DEF r
  <2>2. "needs_review" \in TxnStatus /\ "void" \in Note
    BY DEF TxnStatus, Note
  <2>3. UNCHANGED orders /\ gate[p].amount \in Nat /\ gate[p].invoice \in Orders \cup {None}
    BY <1>2, <1>5 DEF IpnVoid
  <2> QED BY <1>1, <2>1, <2>2, <2>3, OnlyRecordedMoney
<1>6. ASSUME NEW p \in Payments, IpnPaid(p)
      PROVE  MoneyInv'
  <2> DEFINE r == IpnRow(p)
  <2>1. r \in Rows /\ OpenRow(r)
    BY <1>2, <1>6 DEF IpnPaid, OpenRow, Recorded
  <2>2. CASE /\ SetTxn(r, "unmatched", None, gate[p].amount)
             /\ UNCHANGED orders
    <3> HIDE DEF r
    <3>1. "unmatched" \in TxnStatus /\ "" \in Note
      BY DEF TxnStatus, Note
    <3>2. SetTxnNoted(r, "unmatched", None, gate[p].amount, "") /\ gate[p].amount \in Nat
      BY <1>2, <2>2 DEF SetTxn
    <3> QED BY <1>1, <2>1, <2>2, <3>1, <3>2, OnlyRecordedMoney
  <2>3. CASE /\ gate[p].invoice \in Orders
             /\ ApplyPaid(r, gate[p].invoice, gate[p].amount, gate[p].payer)
    <3> HIDE DEF r
    <3> QED BY <1>1, <1>2, <2>1, <2>3, ApplyPaidMoney
  <2> QED BY <1>6, <2>2, <2>3 DEF IpnPaid
<1>7. ASSUME NEW o \in Orders, PollApply(o)
      PROVE  MoneyInv'
  <2> DEFINE r == ReconcileRow(o)
             p == fetched[o]
  <2>1. r \in Rows /\ p \in Payments
    BY <1>7, GatewayAssumption DEF ReconcileRow, PollApply, IInv, TypeOK
  <2>2. CASE ~Recorded(r) /\ ApplyPaid(r, o, gate[p].amount, gate[p].payer)
    <3>1. gate[p].amount \in Nat /\ OpenRow(r)
      BY <1>2, <2>1, <2>2 DEF OpenRow, Recorded
    <3> HIDE DEF r, p
    <3> QED BY <1>1, <2>1, <2>2, <3>1, ApplyPaidMoney
  <2> QED BY <1>3, <1>7, <2>2 DEF PollApply
<1> QED BY <1>3, <1>4, <1>5, <1>6, <1>7
        DEF GatewayNext, Capture, Void, PollStart, PollFetch, PollAborts

\* On this channel too an order's amount is the sum of the rows credited to it, unless
\* an admin has said otherwise: a void or another buyer's payment adds nothing, a
\* repeat adds nothing, and what review adds stays (ApplyGatewayIPN, review).
THEOREM PaidAmountsAreLedgered == Spec => []PaidAmountIsLedgerMoney
<1>1. Init => MoneyInv
  <2> SUFFICES ASSUME Init, NEW o \in Orders
               PROVE  OrderMoney(o)
    BY DEF MoneyInv
  <2>1. orders[o] = NoSuchOrder /\ \A r \in Rows : ledger[r] = NoSuchRow
    BY DEF Init, CheckoutInit
  <2>2. NoSuchOrder.paid = 0 /\ NoSuchOrder.ref = None /\ NoSuchRow.status = "absent"
    BY DEF NoSuchOrder, NoSuchRow
  <2>3. Credited(o) = {}
    BY <2>1, <2>2 DEF Credited, Pays
  <2> QED BY <2>1, <2>2, <2>3, MoneyIsAmount, NoAmount, FS_EmptySet, SentinelAssumption
          DEF OrderMoney
<1>2. IInv /\ MoneyInv /\ [Next]_vars => MoneyInv'
  <2> SUFFICES ASSUME IInv, MoneyInv, [Next]_vars
               PROVE  MoneyInv'
    OBVIOUS
  <2>1. CASE UNCHANGED vars
    <3>1. UNCHANGED ledger /\ \A o \in Orders : Rests(o)
      BY <2>1 DEF vars, Rests
    <3> QED BY <3>1, OrdersRestMoney
  <2>2. CASE GatewayNext
    BY <2>2, GatewayMoney
  <2>3. CASE CheckoutNext
    BY <2>3, CheckoutMoney DEF IInv
  <2> QED BY <2>1, <2>2, <2>3 DEF Next
<1>3. MoneyInv => PaidAmountIsLedgerMoney
  BY DEF MoneyInv, OrderMoney, PaidAmountIsLedgerMoney
<1> QED BY <1>1, <1>2, <1>3, InductiveInvariant, PTL DEF Spec
=============================================================================
