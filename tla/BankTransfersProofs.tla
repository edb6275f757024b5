------------------------- MODULE BankTransfersProofs -------------------------
(***************************************************************************)
(* Safety of the bank channel for any number of buyers, orders, transfers  *)
(* and concurrent requests.  The inductive invariant is the conjunction of *)
(* the properties themselves with the types: what rules the order table    *)
(* out of trouble is that `paid' is never left, that money only moves an   *)
(* order which is not paid, and that a row is settled only while it is new *)
(* or unmatched.  That a buyer has one pending order also takes what the   *)
(* checkouts under way hold: their rows stay pending, and no two hold the  *)
(* same.  On all that rest the facts at the end: the ledger only grows,    *)
(* an order's amount is the sum of its rows (which takes one invariant     *)
(* more: an order that awaits money has none), and the channel implements  *)
(* OrderPromise.                                                           *)
(***************************************************************************)
EXTENDS BankTransfers, SumLemmas

OrderInv == /\ CheckoutTypeOK
            /\ CodeIffPaid
            /\ PaidByOneTransfer
            /\ OnePendingPerBuyer

\* A checkout under way holds pending orders of its buyer, and no row is held twice.
CartInv ==
    /\ carts \in [Carts -> Cart]
    /\ \A c \in Carts : carts[c].open \subseteq PendingOf(carts[c].user)
    /\ \A c \in Carts : carts[c].busy => carts[c].user \in Users /\ carts[c].item \in Items
    /\ \A c, d \in Carts : c # d => carts[c].open \cap carts[d].open = {}

IInv == TypeOK /\ OrderInv /\ CartInv

\* What a checkout that commits does to the tables.
Opens(u, i, o) ==
    /\ ~Exists(o)
    /\ orders' = [CloseOpen(PendingOf(u)) EXCEPT ![o] =
                    [NoSuchOrder EXCEPT !.status = "pending", !.user = u,
                                        !.item = i, !.live = TRUE]]
    /\ UNCHANGED ledger

\* A row still open to settling pays nothing yet.
OpenRow(r) == ledger[r].status \in {"absent", "unmatched"}

-----------------------------------------------------------------------------
(* What the updates of one record do.                                      *)

\* MarkPaidTx leaves an order of the right shape: paid, with one more code.
LEMMA MarkPaidFields ==
    ASSUME NEW order \in Order, NEW amount \in Nat, NEW ref \in Rows \cup {Admin}
    PROVE  /\ MarkPaid(order, amount, ref) \in Order
           /\ MarkPaid(order, amount, ref).status = "paid"
           /\ MarkPaid(order, amount, ref).codes = order.codes + 1
           /\ MarkPaid(order, amount, ref).user = order.user
           /\ MarkPaid(order, amount, ref).item = order.item
           /\ MarkPaid(order, amount, ref).ref = ref
           /\ MarkPaid(order, amount, ref).paid = amount
<1>1. "paid" \in OrderStatus /\ "" \in ReviewReason
  BY DEF OrderStatus, ReviewReason
<1>2. order.codes + 1 \in Nat
  BY DEF Order
<1>3. ref \in Rows \cup {Admin, None}
  OBVIOUS
<1>4. MarkPaid(order, amount, ref) \in Order
  BY <1>1, <1>2, <1>3, Zenon DEF Order, MarkPaid
<1> QED BY <1>4 DEF Order, MarkPaid

\* review leaves an order of the right shape, under review, its codes untouched.
LEMMA ReviewFields ==
    ASSUME NEW order \in Order, NEW amount \in Nat, NEW reason \in ReviewReason
    PROVE  /\ Review(order, amount, reason) \in Order
           /\ Review(order, amount, reason).status = "needs_review"
           /\ Review(order, amount, reason).codes = order.codes
           /\ Review(order, amount, reason).item = order.item
           /\ Review(order, amount, reason).ref = order.ref
           /\ Review(order, amount, reason).paid = order.paid + amount
<1>1. "needs_review" \in OrderStatus
  BY DEF OrderStatus
<1>2. order.paid + amount \in Nat
  BY DEF Order
<1>3. Review(order, amount, reason) \in Order
  BY <1>1, <1>2, Zenon DEF Order, Review
<1> QED BY <1>3 DEF Order, Review

\* setTxn writes a row of the right shape and no other row.
LEMMA SetTxnSound ==
    ASSUME ledger \in [Rows -> Row], NEW r \in Rows, NEW status \in TxnStatus,
           NEW o \in Orders \cup {None}, NEW amount \in Nat, SetTxn(r, status, o, amount)
    PROVE  /\ ledger' \in [Rows -> Row]
           /\ ledger'[r].status = status
           /\ ledger'[r].order = o
           /\ ledger'[r].amount = amount
           /\ \A s \in Rows \ {r} : ledger'[s] = ledger[s]
<1> DEFINE row == [status |-> status, order |-> o, amount |-> amount, note |-> ""]
<1>1. row \in Row
  BY Zenon DEF Row
<1>2. ledger' = [ledger EXCEPT ![r] = row]
  BY DEF SetTxn, SetTxnNoted
<1> QED BY <1>1, <1>2

-----------------------------------------------------------------------------
(* What one order's move does to the tables.                               *)

\* A step that moves one order keeps the code count and the single pending order,
\* if the order's new state does and the step does not open it.
LEMMA OneOrderMoves ==
    ASSUME OrderInv, NEW o \in Orders, NEW new \in Order,
           orders' = [orders EXCEPT ![o] = new],
           new.codes = IF new.status = "paid" THEN 1 ELSE 0,
           new.status = "pending" =>
               orders[o].status = "pending" /\ new.user = orders[o].user
    PROVE  /\ orders' \in [Orders -> Order]
           /\ orders'[o] = new
           /\ \A p \in Orders \ {o} : orders'[p] = orders[p]
           /\ CodeIffPaid'
           /\ OnePendingPerBuyer'
<1>1. orders \in [Orders -> Order]
  BY DEF OrderInv, CheckoutTypeOK
<1>2. orders' \in [Orders -> Order]
  BY <1>1
<1>3. orders'[o] = new /\ \A p \in Orders \ {o} : orders'[p] = orders[p]
  BY <1>1
<1>4. CodeIffPaid'
  BY <1>3 DEF OrderInv, CodeIffPaid
<1>5. OnePendingPerBuyer'
  BY <1>3 DEF OrderInv, OnePendingPerBuyer, PendingOf
<1> QED BY <1>2, <1>3, <1>4, <1>5

\* Orders that are not paid may move as long as none becomes paid.
LEMMA UnpaidMoves ==
    ASSUME PaidByOneTransfer, UNCHANGED ledger,
           \A p \in Orders : \/ orders'[p] = orders[p]
                             \/ orders[p].status # "paid" /\ orders'[p].status # "paid"
    PROVE  PaidByOneTransfer'
<1>1. \A r \in Rows : Pays(r)' <=> Pays(r)
  BY DEF Pays
<1> QED BY <1>1 DEF PaidByOneTransfer, Asked

\* A row that pays nothing may be written over with one that pays nothing.
LEMMA IdleRowMoves ==
    ASSUME PaidByOneTransfer, UNCHANGED orders, NEW r \in Rows,
           ~Pays(r), ~Pays(r)', \A s \in Rows \ {r} : ledger'[s] = ledger[s]
    PROVE  PaidByOneTransfer'
<1>1. \A s \in Rows : Pays(s)' => s # r /\ Pays(s)
  BY DEF Pays
<1>2. \A s \in Rows : Pays(s) => s # r /\ Pays(s)'
  BY DEF Pays
<1> QED BY <1>1, <1>2 DEF PaidByOneTransfer, Asked

-----------------------------------------------------------------------------
(* settle.                                                                 *)

\* An order sent to review was not paid, so no row pays it, and the row that went
\* with it pays nothing either.
LEMMA SendToReviewSound ==
    ASSUME OrderInv, NEW r \in Rows, NEW o \in Orders, NEW amount \in Nat,
           NEW reason \in ReviewReason,
           OpenRow(r), orders[o].status # "paid", SendToReview(r, o, amount, reason)
    PROVE  OrderInv'
<1> DEFINE new == Review(orders[o], amount, reason)
           status == ReviewStatus(reason)
<1>1. orders[o] \in Order /\ ledger \in [Rows -> Row]
  BY DEF OrderInv, CheckoutTypeOK
<1>2. /\ new \in Order
      /\ new.status = "needs_review"
      /\ new.codes = 0
  <2>1. orders[o].codes = 0
    BY DEF OrderInv, CodeIffPaid
  <2> QED BY <1>1, <2>1, ReviewFields
<1>3. orders' = [orders EXCEPT ![o] = new] /\ SetTxn(r, status, o, amount)
  BY DEF SendToReview
<1> HIDE DEF new
<1>4. status \in TxnStatus /\ status \notin {"matched", "attached"}
  BY DEF ReviewStatus, TxnStatus
<1> HIDE DEF status
<1>5. /\ orders' \in [Orders -> Order]
      /\ orders'[o] = new
      /\ \A p \in Orders \ {o} : orders'[p] = orders[p]
      /\ CodeIffPaid'
      /\ OnePendingPerBuyer'
  BY <1>2, <1>3, OneOrderMoves
<1>6. /\ ledger' \in [Rows -> Row]
      /\ ledger'[r].status = status
      /\ \A s \in Rows \ {r} : ledger'[s] = ledger[s]
  BY <1>1, <1>3, <1>4, SetTxnSound
<1>7. \A s \in Rows : Pays(s) \/ Pays(s)' => s # r /\ ledger'[s] = ledger[s] /\ Pays(s)
  BY <1>4, <1>6 DEF Pays, OpenRow
<1>8. PaidByOneTransfer'
  <2>1. \A s \in Rows : Pays(s) => ledger[s].order # o
    BY DEF OrderInv, PaidByOneTransfer
  <2>2. ASSUME NEW s \in Rows, Pays(s)'
        PROVE  /\ ledger'[s].order \in Orders
               /\ orders'[ledger'[s].order].status = "paid"
               /\ orders'[ledger'[s].order].ref = s
               /\ ledger'[s].amount = Asked(ledger[s].order)'
    <3>1. /\ ledger'[s] = ledger[s]
          /\ Pays(s)
          /\ ledger[s].order \in Orders \ {o}
      BY <1>7, <2>1, <2>2 DEF OrderInv, PaidByOneTransfer
    <3> QED BY <1>5, <3>1 DEF OrderInv, PaidByOneTransfer, Asked
  <2>3. ASSUME NEW p \in Orders, orders'[p].status = "paid", orders'[p].ref # Admin
        PROVE  orders'[p].ref \in Rows /\ Pays(orders[p].ref)' /\ ledger'[orders'[p].ref].order = p
    <3>1. p # o /\ orders'[p] = orders[p]
      BY <1>2, <1>5, <2>3
    <3>2. /\ orders[p].ref \in Rows
          /\ Pays(orders[p].ref)
          /\ ledger[orders[p].ref].order = p
      BY <2>3, <3>1 DEF OrderInv, PaidByOneTransfer
    <3> QED BY <1>7, <3>1, <3>2 DEF Pays
  <2> QED BY <2>2, <2>3 DEF PaidByOneTransfer, Pays, Asked
<1> QED BY <1>5, <1>6, <1>8 DEF OrderInv, CheckoutTypeOK

\* A transfer of the exact amount pays an order that no row pays yet.
LEMMA GrantSound ==
    ASSUME OrderInv, NEW r \in Rows, NEW o \in Orders, NEW amount \in Nat,
           NEW grant \in {"matched", "attached"},
           OpenRow(r), orders[o].status \in {"pending", "expired"}, amount = Asked(o),
           orders' = [orders EXCEPT ![o] = MarkPaid(@, amount, r)],
           SetTxn(r, grant, o, amount)
    PROVE  OrderInv'
<1> DEFINE new == MarkPaid(orders[o], amount, r)
<1>1. orders[o] \in Order /\ ledger \in [Rows -> Row]
  BY DEF OrderInv, CheckoutTypeOK
<1>2. /\ new \in Order
      /\ new.status = "paid"
      /\ new.codes = 1
      /\ new.item = orders[o].item
      /\ new.ref = r
  <2>1. orders[o].codes = 0
    BY DEF OrderInv, CodeIffPaid
  <2> QED BY <1>1, <2>1, MarkPaidFields
<1>3. orders' = [orders EXCEPT ![o] = new]
  OBVIOUS
<1> HIDE DEF new
<1>4. /\ orders' \in [Orders -> Order]
      /\ orders'[o] = new
      /\ \A p \in Orders \ {o} : orders'[p] = orders[p]
      /\ CodeIffPaid'
      /\ OnePendingPerBuyer'
  BY <1>2, <1>3, OneOrderMoves
<1>5. /\ ledger' \in [Rows -> Row]
      /\ ledger'[r].status = grant
      /\ ledger'[r].order = o
      /\ ledger'[r].amount = amount
      /\ \A s \in Rows \ {r} : ledger'[s] = ledger[s]
  <2>1. grant \in TxnStatus
    BY DEF TxnStatus
  <2> QED BY <1>1, <2>1, SetTxnSound
<1>6. PaidByOneTransfer'
  <2>1. \A s \in Rows : Pays(s) => s # r /\ ledger[s].order # o
    BY DEF OrderInv, PaidByOneTransfer, Pays, OpenRow
  <2>2. \A s \in Rows \ {r} : Pays(s)' <=> Pays(s)
    BY <1>5 DEF Pays
  <2>3. Pays(r)'
    BY <1>5 DEF Pays
  <2>4. Asked(o)' = Asked(o)
    BY <1>2, <1>4 DEF Asked
  <2>5. ASSUME NEW s \in Rows, Pays(s)'
        PROVE  /\ ledger'[s].order \in Orders
               /\ orders'[ledger'[s].order].status = "paid"
               /\ orders'[ledger'[s].order].ref = s
               /\ ledger'[s].amount = Asked(ledger[s].order)'
    <3>1. CASE s = r
      BY <1>2, <1>4, <1>5, <2>4, <3>1
    <3>2. CASE s # r
      BY <1>4, <1>5, <2>1, <2>2, <2>5, <3>2 DEF OrderInv, PaidByOneTransfer, Asked
    <3> QED BY <3>1, <3>2
  <2>6. ASSUME NEW p \in Orders, orders'[p].status = "paid", orders'[p].ref # Admin
        PROVE  orders'[p].ref \in Rows /\ Pays(orders[p].ref)' /\ ledger'[orders'[p].ref].order = p
    <3>1. CASE p = o
      BY <1>2, <1>4, <1>5, <2>3, <3>1 DEF Pays
    <3>2. CASE p # o
      <4>1. /\ orders[p].ref \in Rows
            /\ Pays(orders[p].ref)
            /\ ledger[orders[p].ref].order = p
            /\ orders'[p] = orders[p]
        BY <1>4, <2>6, <3>2 DEF OrderInv, PaidByOneTransfer
      <4> QED BY <1>5, <2>1, <4>1 DEF Pays
    <3> QED BY <3>1, <3>2
  <2> QED BY <2>5, <2>6 DEF PaidByOneTransfer, Pays, Asked
<1> QED BY <1>4, <1>5, <1>6 DEF OrderInv, CheckoutTypeOK

\* settle keeps the tables sound whatever order it meets.
LEMMA SettleSound ==
    ASSUME OrderInv, NEW r \in Rows, NEW o \in Orders, NEW amount \in Nat,
           NEW grant \in {"matched", "attached"},
           OpenRow(r), Settle(r, o, amount, grant)
    PROVE  OrderInv'
<1>1. orders[o].reason \in ReviewReason /\ {"late_payment", "amount_mismatch"} \subseteq ReviewReason
  BY DEF OrderInv, CheckoutTypeOK, Order, ReviewReason
<1>2. CASE /\ orders[o].status = "paid"
           /\ SetTxn(r, "duplicate_payment", o, amount)
           /\ UNCHANGED orders
  <2>1. /\ ledger' \in [Rows -> Row]
        /\ ledger'[r].status = "duplicate_payment"
        /\ \A s \in Rows \ {r} : ledger'[s] = ledger[s]
    BY <1>2, SetTxnSound DEF OrderInv, CheckoutTypeOK, TxnStatus
  <2>2. PaidByOneTransfer'
    BY <1>2, <2>1, IdleRowMoves DEF OrderInv, Pays, OpenRow
  <2> QED BY <1>2, <2>1, <2>2
          DEF OrderInv, CheckoutTypeOK, CodeIffPaid, OnePendingPerBuyer, PendingOf
<1>3. CASE orders[o].status # "paid"
           /\ \E reason \in ReviewReason : SendToReview(r, o, amount, reason)
  BY <1>3, SendToReviewSound
<1>4. CASE /\ orders[o].status \in {"pending", "expired"}
           /\ amount = Asked(o)
           /\ orders' = [orders EXCEPT ![o] = MarkPaid(@, amount, r)]
           /\ SetTxn(r, grant, o, amount)
  BY <1>4, GrantSound
<1> QED BY <1>1, <1>2, <1>3, <1>4 DEF Settle

-----------------------------------------------------------------------------
(* Checkouts under way.                                                    *)

\* A step that leaves the held orders alone leaves the checkouts as they were.
LEMMA CartsKeep ==
    ASSUME CartInv, UNCHANGED carts, \A p \in Orders : Held(p) => orders'[p] = orders[p]
    PROVE  CartInv'
BY DEF CartInv, Held, PendingOf

\* Neither does one that moves an order nobody holds.
LEMMA UnheldMoves ==
    ASSUME CartInv, UNCHANGED carts, orders \in [Orders -> Order],
           NEW o \in Orders, NEW new, ~Held(o), orders' = [orders EXCEPT ![o] = new]
    PROVE  CartInv'
BY CartsKeep

\* What settle does to an order that nobody holds, it does to that one alone.
LEMMA SettleKeepsCarts ==
    ASSUME CartInv, UNCHANGED carts, orders \in [Orders -> Order],
           NEW r, NEW o \in Orders, NEW amount, NEW grant, ~Held(o), Settle(r, o, amount, grant)
    PROVE  CartInv'
<1>1. orders' = orders \/ \E new : orders' = [orders EXCEPT ![o] = new]
  BY DEF Settle, SendToReview
<1>2. CASE orders' = orders
  BY <1>2, CartsKeep
<1>3. CASE \E new : orders' = [orders EXCEPT ![o] = new]
  BY <1>3, UnheldMoves
<1> QED BY <1>1, <1>2, <1>3

\* What is left of the buyer's pending orders when one checkout commits is what it holds,
\* so that it closes them all: the unique index saw no other, and the locks kept these.
LEMMA CommitOpens ==
    ASSUME CartInv, NEW c \in Carts, NEW o \in Orders, CreateOrder(c, o)
    PROVE  \E u \in Users, i \in Items : Opens(u, i, o)
<1>1. carts[c].user \in Users /\ carts[c].item \in Items
  BY DEF CartInv, CreateOrder
<1>2. carts[c].open = PendingOf(carts[c].user)
  BY DEF CartInv, CreateOrder, NoOtherPending
<1>3. Opens(carts[c].user, carts[c].item, o)
  BY <1>2 DEF CreateOrder, Opens
<1> QED BY <1>1, <1>3

\* A checkout that ends lets go of its rows and of nothing else.
LEMMA CommitKeepsCarts ==
    ASSUME CartInv, orders \in [Orders -> Order], NEW c \in Carts, NEW o \in Orders,
           CreateOrder(c, o)
    PROVE  CartInv'
<1> DEFINE new == [NoSuchOrder EXCEPT !.status = "pending", !.user = carts[c].user,
                                      !.item = carts[c].item, !.live = TRUE]
<1>1. /\ orders' = [CloseOpen(carts[c].open) EXCEPT ![o] = new]
      /\ carts' = [carts EXCEPT ![c] = NoCart]
      /\ orders[o].status = "absent"
  BY DEF CreateOrder, Exists
<1> HIDE DEF new
<1>2. NoCart \in Cart /\ NoCart.busy = FALSE /\ NoCart.open = {}
  BY DEF NoCart, Cart
<1>3. /\ carts' \in [Carts -> Cart]
      /\ carts'[c] = NoCart
      /\ \A d \in Carts \ {c} : carts'[d] = carts[d]
  BY <1>1, <1>2 DEF CartInv
<1>4. \A p \in Orders \ {o} : p \notin carts[c].open => orders'[p] = orders[p]
  BY <1>1 DEF CloseOpen
<1>5. ASSUME NEW d \in Carts \ {c}, NEW p \in carts[d].open
      PROVE  p \in PendingOf(carts[d].user)'
  <2>1. p \in Orders /\ orders[p].status = "pending" /\ orders[p].user = carts[d].user
    BY DEF CartInv, PendingOf
  <2>2. p # o /\ p \notin carts[c].open
    BY <1>1, <2>1 DEF CartInv
  <2> QED BY <1>3, <1>4, <2>1, <2>2 DEF PendingOf
<1>6. \A d \in Carts : carts'[d].open \subseteq PendingOf(carts[d].user)'
  BY <1>2, <1>3, <1>5
<1> QED BY <1>2, <1>3, <1>6 DEF CartInv

\* The buyer's and the admin's operations wait for a held row.
LEMMA CheckoutKeepsCarts ==
    ASSUME CartInv, orders \in [Orders -> Order], CheckoutNext
    PROVE  CartInv'
<1>1. ASSUME NEW c \in Carts, NEW u \in Users, NEW i \in Items, NEW S \in SUBSET Orders,
             BeginCheckout(c, u, i, S)
      PROVE  CartInv'
  <2> DEFINE cart == [busy |-> TRUE, user |-> u, item |-> i, open |-> S]
  <2>1. cart \in Cart /\ cart.user = u /\ cart.item = i /\ cart.open = S
    BY DEF Cart
  <2>2. /\ carts' = [carts EXCEPT ![c] = cart]
        /\ S \subseteq PendingOf(u)
        /\ \A d \in Carts : carts[d].open \cap S = {}
        /\ orders' = orders
    BY <1>1 DEF BeginCheckout, Held
  <2> HIDE DEF cart
  <2>3. /\ carts' \in [Carts -> Cart]
        /\ carts'[c] = cart
        /\ \A d \in Carts \ {c} : carts'[d] = carts[d]
    BY <2>1, <2>2 DEF CartInv
  <2>4. \A d \in Carts : carts'[d].open \subseteq PendingOf(carts[d].user)'
    BY <2>1, <2>2, <2>3 DEF CartInv, PendingOf
  <2>5. \A d, e \in Carts : d # e => carts'[d].open \cap carts'[e].open = {}
    BY <2>1, <2>2, <2>3 DEF CartInv
  <2> QED BY <2>1, <2>3, <2>4, <2>5 DEF CartInv
<1>2. ASSUME NEW c \in Carts, EndCheckout(c)
      PROVE  CartInv'
  <2>1. NoCart \in Cart /\ NoCart.busy = FALSE /\ NoCart.open = {}
    BY DEF NoCart, Cart
  <2>2. /\ carts' \in [Carts -> Cart]
        /\ carts'[c] = NoCart
        /\ \A d \in Carts \ {c} : carts'[d] = carts[d]
    BY <1>2, <2>1 DEF EndCheckout, CartInv
  <2> QED BY <1>2, <2>1, <2>2 DEF EndCheckout, CartInv, PendingOf
<1>3. CASE \E o \in Orders : CancelUserOrder(o) \/ AdminCancel(o)
  BY <1>3, UnheldMoves DEF CancelUserOrder, AdminCancel
<1>4. CASE \E o \in Orders : TtlPasses(o)
  BY <1>4, UnheldMoves DEF TtlPasses
<1>5. CASE ExpireStale
  BY <1>5, CartsKeep DEF ExpireStale
<1>6. CASE \E o \in Orders, a \in Amounts : AdminConfirm(o, a)
  BY <1>6, UnheldMoves DEF AdminConfirm
<1>7. CASE \E r \in Rows, o \in Orders : AttachTransaction(r, o)
  BY <1>7, SettleKeepsCarts DEF AttachTransaction
<1>8. CASE \E r \in Rows : DismissTransaction(r)
  BY <1>8, CartsKeep DEF DismissTransaction
<1>9. CASE \E c \in Carts, o \in Orders : CreateOrder(c, o)
  BY <1>9, CommitKeepsCarts
<1> QED BY <1>1, <1>2, <1>3, <1>4, <1>5, <1>6, <1>7, <1>8, <1>9 DEF CheckoutNext

-----------------------------------------------------------------------------
(* The operations of Checkout.                                             *)

\* A checkout that commits closes what was open for the buyer and opens one order.
LEMMA CreateSound ==
    ASSUME OrderInv, NEW u \in Users, NEW i \in Items, NEW o \in Orders, Opens(u, i, o)
    PROVE  OrderInv'
<1> DEFINE new == [NoSuchOrder EXCEPT !.status = "pending", !.user = u,
                                      !.item = i, !.live = TRUE]
<1>1. orders \in [Orders -> Order]
  BY DEF OrderInv, CheckoutTypeOK
<1>2. NoSuchOrder \in Order /\ NoSuchOrder.codes = 0
  BY DEF NoSuchOrder, Order, OrderStatus, ReviewReason
<1>3. /\ new \in Order
      /\ new.status = "pending" /\ new.user = u /\ new.codes = 0
  <2>1. "pending" \in OrderStatus
    BY DEF OrderStatus
  <2>2. new \in Order
    BY <1>2, <2>1, Zenon DEF Order
  <2> QED BY <1>2, <2>2 DEF Order
<1> HIDE DEF new
<1>4. orders' = [CloseOpen(PendingOf(u)) EXCEPT ![o] = new]
  BY DEF Opens, new
<1>5. /\ CloseOpen(PendingOf(u)) \in [Orders -> Order]
      /\ \A p \in Orders : p \notin PendingOf(u) => CloseOpen(PendingOf(u))[p] = orders[p]
      /\ \A p \in PendingOf(u) : /\ CloseOpen(PendingOf(u))[p].status \in {"cancelled", "expired"}
                                 /\ CloseOpen(PendingOf(u))[p].codes = orders[p].codes
  <2>1. \A p \in PendingOf(u) :
           LET closed == [orders[p] EXCEPT !.status =
                             IF orders[p].live THEN "cancelled" ELSE "expired"]
           IN  /\ closed \in Order
               /\ closed.status \in {"cancelled", "expired"}
               /\ closed.codes = orders[p].codes
    <3> SUFFICES ASSUME NEW p \in PendingOf(u), NEW to \in {"cancelled", "expired"}
                 PROVE  LET closed == [orders[p] EXCEPT !.status = to]
                        IN  /\ closed \in Order
                            /\ closed.status \in {"cancelled", "expired"}
                            /\ closed.codes = orders[p].codes
      OBVIOUS
    <3>1. orders[p] \in Order
      BY <1>1 DEF PendingOf
    <3>2. to \in OrderStatus
      BY DEF OrderStatus
    <3> QED BY <3>1, <3>2 DEF Order
  <2> QED BY <1>1, <2>1 DEF CloseOpen, PendingOf
<1>6. orders' \in [Orders -> Order]
  BY <1>3, <1>4, <1>5
<1>7. /\ orders'[o] = new
      /\ \A p \in Orders \ {o} : orders'[p] = CloseOpen(PendingOf(u))[p]
  BY <1>4, <1>5
<1>8. CodeIffPaid'
  <2> SUFFICES ASSUME NEW p \in Orders
               PROVE  orders'[p].codes = IF orders'[p].status = "paid" THEN 1 ELSE 0
    BY DEF CodeIffPaid
  <2>1. CASE p = o
    BY <1>3, <1>7, <2>1
  <2>2. CASE p # o /\ p \in PendingOf(u)
    BY <1>5, <1>7, <2>2 DEF OrderInv, CodeIffPaid, PendingOf
  <2>3. CASE p # o /\ p \notin PendingOf(u)
    BY <1>5, <1>7, <2>3 DEF OrderInv, CodeIffPaid
  <2> QED BY <2>1, <2>2, <2>3
<1>9. OnePendingPerBuyer'
  <2>1. ASSUME NEW v \in Users, NEW p \in PendingOf(v)', v = u
        PROVE  p = o
    BY <1>5, <1>7, <2>1 DEF PendingOf
  <2>2. ASSUME NEW v \in Users, NEW p \in PendingOf(v)', v # u
        PROVE  p \in PendingOf(v)
    BY <1>3, <1>5, <1>7, <2>2 DEF PendingOf
  <2> QED BY <2>1, <2>2 DEF OrderInv, OnePendingPerBuyer
<1>10. PaidByOneTransfer'
  <2>1. \A p \in Orders : \/ orders'[p] = orders[p]
                          \/ orders[p].status # "paid" /\ orders'[p].status # "paid"
    BY <1>3, <1>5, <1>7 DEF Opens, Exists, PendingOf
  <2> QED BY <2>1, UnpaidMoves DEF OrderInv, Opens
<1> QED BY <1>6, <1>8, <1>9, <1>10 DEF OrderInv, CheckoutTypeOK, Opens

\* Closing an order changes its status and nothing else.
LEMMA ClosedFields ==
    ASSUME NEW order \in Order, NEW to \in {"cancelled", "expired"}
    PROVE  /\ [order EXCEPT !.status = to] \in Order
           /\ [order EXCEPT !.status = to].status = to
           /\ [order EXCEPT !.status = to].codes = order.codes
           /\ [order EXCEPT !.status = to].paid = order.paid
           /\ [order EXCEPT !.status = to].ref = order.ref
<1>1. to \in OrderStatus
  BY DEF OrderStatus
<1> QED BY <1>1 DEF Order

\* An unpaid order that stays unpaid, and does not open, disturbs nothing.
LEMMA CloseSound ==
    ASSUME OrderInv, NEW o \in Orders, NEW new \in Order, UNCHANGED ledger,
           orders' = [orders EXCEPT ![o] = new],
           orders[o].status # "paid", new.status # "paid", new.codes = orders[o].codes,
           new.status = "pending" =>
               orders[o].status = "pending" /\ new.user = orders[o].user
    PROVE  OrderInv'
<1>1. new.codes = 0
  BY DEF OrderInv, CodeIffPaid
<1>2. /\ orders' \in [Orders -> Order]
      /\ orders'[o] = new
      /\ \A p \in Orders \ {o} : orders'[p] = orders[p]
      /\ CodeIffPaid'
      /\ OnePendingPerBuyer'
  BY <1>1, OneOrderMoves
<1>3. PaidByOneTransfer'
  BY <1>2, UnpaidMoves DEF OrderInv
<1> QED BY <1>2, <1>3 DEF OrderInv, CheckoutTypeOK

\* The buyer's or the admin's cancellation.
LEMMA CancelSound ==
    ASSUME OrderInv, NEW o \in Orders, UNCHANGED ledger, orders[o].status # "paid",
           orders' = [orders EXCEPT ![o].status = "cancelled"]
    PROVE  OrderInv'
<1> DEFINE new == [orders[o] EXCEPT !.status = "cancelled"]
<1>1. orders[o] \in Order
  BY DEF OrderInv, CheckoutTypeOK
<1>2. new \in Order /\ new.status = "cancelled" /\ new.codes = orders[o].codes
  BY <1>1, ClosedFields
<1>3. orders' = [orders EXCEPT ![o] = new]
  OBVIOUS
<1> HIDE DEF new
<1> QED BY <1>2, <1>3, CloseSound

\* The deadline of a pending order passes.
LEMMA TtlSound ==
    ASSUME OrderInv, NEW o \in Orders, TtlPasses(o)
    PROVE  OrderInv'
<1> DEFINE new == [orders[o] EXCEPT !.live = FALSE]
<1>1. orders[o] \in Order
  BY DEF OrderInv, CheckoutTypeOK
<1>2. /\ new \in Order
      /\ new.status = orders[o].status
      /\ new.codes = orders[o].codes
      /\ new.user = orders[o].user
  BY <1>1 DEF Order
<1>3. orders' = [orders EXCEPT ![o] = new]
  BY DEF TtlPasses
<1> HIDE DEF new
<1> QED BY <1>2, <1>3, CloseSound DEF TtlPasses

\* The sweep closes pending orders only.
LEMMA ExpireSound ==
    ASSUME OrderInv, ExpireStale
    PROVE  OrderInv'
<1>1. orders \in [Orders -> Order]
  BY DEF OrderInv, CheckoutTypeOK
<1>2. \A p \in Stale : LET closed == [orders[p] EXCEPT !.status = "expired"]
                       IN  /\ closed \in Order
                           /\ closed.status = "expired"
                           /\ closed.codes = orders[p].codes
  <2> SUFFICES ASSUME NEW p \in Stale
               PROVE  LET closed == [orders[p] EXCEPT !.status = "expired"]
                      IN  /\ closed \in Order
                          /\ closed.status = "expired"
                          /\ closed.codes = orders[p].codes
    OBVIOUS
  <2>1. orders[p] \in Order /\ "expired" \in OrderStatus
    BY <1>1 DEF Stale, OrderStatus
  <2> QED BY <2>1 DEF Order
<1>3. /\ orders' \in [Orders -> Order]
      /\ \A p \in Orders : p \notin Stale => orders'[p] = orders[p]
      /\ \A p \in Stale : orders'[p].status = "expired" /\ orders'[p].codes = orders[p].codes
  BY <1>1, <1>2 DEF ExpireStale, Stale
<1>4. CodeIffPaid'
  BY <1>3 DEF OrderInv, CodeIffPaid, Stale
<1>5. OnePendingPerBuyer'
  BY <1>3 DEF OrderInv, OnePendingPerBuyer, PendingOf
<1>6. PaidByOneTransfer'
  BY <1>3, UnpaidMoves DEF OrderInv, ExpireStale, Stale
<1> QED BY <1>3, <1>4, <1>5, <1>6 DEF OrderInv, CheckoutTypeOK, ExpireStale

\* An admin's word pays an order that no row pays.
LEMMA AdminConfirmSound ==
    ASSUME OrderInv, NEW o \in Orders, NEW amount \in Amounts, AdminConfirm(o, amount)
    PROVE  OrderInv'
<1> DEFINE new == MarkPaid(orders[o], amount, Admin)
<1>1. orders[o] \in Order /\ amount \in Nat
  BY PriceAssumption DEF OrderInv, CheckoutTypeOK
<1>2. new \in Order /\ new.status = "paid" /\ new.codes = 1 /\ new.ref = Admin
  BY <1>1, MarkPaidFields DEF AdminConfirm, OrderInv, CodeIffPaid
<1>3. orders' = [orders EXCEPT ![o] = new]
  BY DEF AdminConfirm
<1> HIDE DEF new
<1>4. /\ orders' \in [Orders -> Order]
      /\ orders'[o] = new
      /\ \A p \in Orders \ {o} : orders'[p] = orders[p]
      /\ CodeIffPaid'
      /\ OnePendingPerBuyer'
  BY <1>2, <1>3, OneOrderMoves
<1>5. PaidByOneTransfer'
  <2>1. \A s \in Rows : Pays(s) => ledger[s].order # o
    BY DEF OrderInv, PaidByOneTransfer, AdminConfirm
  <2>2. \A s \in Rows : ledger'[s] = ledger[s] /\ (Pays(s)' <=> Pays(s))
    BY DEF AdminConfirm, Pays
  <2> QED BY <1>2, <1>4, <2>1, <2>2 DEF OrderInv, PaidByOneTransfer, Pays, Asked, AdminConfirm
<1> QED BY <1>4, <1>5 DEF OrderInv, CheckoutTypeOK, AdminConfirm

\* A dismissed row paid nothing before and pays nothing after.
LEMMA DismissSound ==
    ASSUME OrderInv, NEW r \in Rows, DismissTransaction(r)
    PROVE  OrderInv'
<1>1. ledger[r] \in Row /\ "dismissed" \in TxnStatus
  BY DEF OrderInv, CheckoutTypeOK, TxnStatus
<1>2. /\ ledger' \in [Rows -> Row]
      /\ ledger'[r].status = "dismissed"
      /\ \A s \in Rows \ {r} : ledger'[s] = ledger[s]
  BY <1>1 DEF OrderInv, CheckoutTypeOK, DismissTransaction, Row
<1>3. PaidByOneTransfer'
  BY <1>2, IdleRowMoves DEF OrderInv, DismissTransaction, Pays
<1> QED BY <1>2, <1>3 DEF OrderInv, CheckoutTypeOK, CodeIffPaid, OnePendingPerBuyer,
                          PendingOf, DismissTransaction

LEMMA CheckoutSound ==
    ASSUME OrderInv, CartInv, CheckoutNext
    PROVE  OrderInv' \/ UNCHANGED <<orders, ledger>>
<1>1. CASE \E c \in Carts, o \in Orders : CreateOrder(c, o)
  BY <1>1, CommitOpens, CreateSound
<1>2. CASE \E o \in Orders : CancelUserOrder(o)
  BY <1>2, CancelSound DEF CancelUserOrder
<1>3. CASE \E o \in Orders : TtlPasses(o)
  BY <1>3, TtlSound
<1>4. CASE ExpireStale
  BY <1>4, ExpireSound
<1>5. CASE \E o \in Orders, a \in Amounts : AdminConfirm(o, a)
  BY <1>5, AdminConfirmSound
<1>6. CASE \E o \in Orders : AdminCancel(o)
  BY <1>6, CancelSound DEF AdminCancel
<1>7. CASE \E r \in Rows, o \in Orders : AttachTransaction(r, o)
  <2> PICK r \in Rows, o \in Orders : AttachTransaction(r, o)
    BY <1>7
  <2>1. ledger[r].amount \in Nat
    BY DEF OrderInv, CheckoutTypeOK, Row
  <2> QED BY <2>1, SettleSound DEF AttachTransaction, OpenRow
<1>8. CASE \E r \in Rows : DismissTransaction(r)
  BY <1>8, DismissSound
<1> QED BY <1>1, <1>2, <1>3, <1>4, <1>5, <1>6, <1>7, <1>8
        DEF CheckoutNext, BeginCheckout, EndCheckout

-----------------------------------------------------------------------------
(* The bank channel.                                                       *)

\* A request about a transfer settles a row that is new.
LEMMA ApplySound ==
    ASSUME TypeOK, OrderInv, NEW t \in Transfers, NEW c \in Channels, Apply(t, c)
    PROVE  OrderInv'
<1> DEFINE r == RowOf(t, c)
<1>1. r \in Rows /\ bank[t].amount \in Nat
  BY BankAssumption DEF TypeOK, Transfer, RowOf, Channels
<1>2. CASE Recorded(r)
  BY <1>2 DEF Apply, OrderInv, CheckoutTypeOK, CodeIffPaid, PaidByOneTransfer, Pays, Asked,
              OnePendingPerBuyer, PendingOf
<1>3. ASSUME NEW status \in {"ignored", "unmatched"}, ~Recorded(r),
             RecordAlone(t, r, status)
      PROVE  OrderInv'
  <2>1. /\ ledger' \in [Rows -> Row]
        /\ ledger'[r].status = status
        /\ \A s \in Rows \ {r} : ledger'[s] = ledger[s]
    <3>1. status \in TxnStatus
      BY DEF TxnStatus
    <3> HIDE DEF r
    <3> QED BY <1>1, <1>3, <3>1, SetTxnSound DEF RecordAlone, OrderInv, CheckoutTypeOK
  <2>2. PaidByOneTransfer'
    <3> HIDE DEF r
    <3> QED BY <1>1, <1>3, <2>1, IdleRowMoves DEF RecordAlone, OrderInv, Pays, Recorded
  <2> QED BY <1>3, <2>1, <2>2 DEF RecordAlone, OrderInv, CheckoutTypeOK, CodeIffPaid,
                                  OnePendingPerBuyer, PendingOf
<1>4. CASE /\ ~Recorded(r)
           /\ bank[t].target \in Orders
           /\ Settle(r, bank[t].target, bank[t].amount, "matched")
  <2> HIDE DEF r
  <2> QED BY <1>1, <1>4, SettleSound DEF OpenRow, Recorded
<1> QED BY <1>2, <1>3, <1>4 DEF Apply

\* Everything else the channel does leaves the tables alone.
LEMMA NextSound ==
    ASSUME TypeOK, OrderInv, CartInv, [Next]_vars
    PROVE  OrderInv'
<1> USE DEF OrderInv, CheckoutTypeOK, CodeIffPaid, PaidByOneTransfer, Pays, Asked,
            OnePendingPerBuyer, PendingOf
<1>1. CASE UNCHANGED <<orders, ledger>>
  BY <1>1
<1> HIDE DEF OrderInv, CheckoutTypeOK, CodeIffPaid, PaidByOneTransfer, Pays, Asked,
             OnePendingPerBuyer, PendingOf
<1>2. CASE CheckoutNext
  BY <1>1, <1>2, CheckoutSound
<1>3. CASE \E t \in Transfers, c \in Channels : Apply(t, c)
  BY <1>3, ApplySound
<1> QED BY <1>1, <1>2, <1>3 DEF Next, BankNext, BuyerPays, Receive, Fail, vars

\* Money waits for a held row, and whatever else the channel does touches no order.
LEMMA NextKeepsCarts ==
    ASSUME OrderInv, CartInv, [Next]_vars
    PROVE  CartInv'
<1>1. orders \in [Orders -> Order]
  BY DEF OrderInv, CheckoutTypeOK
<1>2. CASE CheckoutNext
  BY <1>1, <1>2, CheckoutKeepsCarts
<1>3. CASE UNCHANGED <<orders, carts>>
  BY <1>3, CartsKeep
<1>4. CASE \E t \in Transfers, c \in Channels : Apply(t, c)
  <2> PICK t \in Transfers, c \in Channels : Apply(t, c)
    BY <1>4
  <2>1. \/ UNCHANGED <<orders, carts>>
        \/ /\ bank[t].target \in Orders
           /\ ~Held(bank[t].target)
           /\ Settle(RowOf(t, c), bank[t].target, bank[t].amount, "matched")
           /\ UNCHANGED carts
    BY DEF Apply, RecordAlone
  <2> QED BY <1>1, <1>3, <2>1, SettleKeepsCarts
<1> QED BY <1>2, <1>3, <1>4 DEF Next, BankNext, BuyerPays, Receive, Fail, vars

LEMMA InitSound == Init => TypeOK /\ OrderInv /\ CartInv
<1> SUFFICES ASSUME Init
             PROVE  TypeOK /\ OrderInv /\ CartInv
  OBVIOUS
<1> USE DEF Init, CheckoutInit, BankInit
<1>1. NoSuchOrder \in Order
  BY DEF NoSuchOrder, Order, OrderStatus, ReviewReason
<1>2. NoSuchRow \in Row
  BY DEF NoSuchRow, Row
<1>3. CheckoutTypeOK
  BY <1>1, <1>2 DEF CheckoutTypeOK
<1>4. bank \in [Transfers -> Transfer] /\ inFlight \in [Transfers \X Channels -> 0 .. MaxInFlight]
  BY BankAssumption DEF Transfer, Targets
<1>5. CodeIffPaid /\ PaidByOneTransfer /\ OnePendingPerBuyer
  BY DEF CodeIffPaid, PaidByOneTransfer, Pays, OnePendingPerBuyer, PendingOf,
         NoSuchOrder, NoSuchRow
<1>6. NoCart \in Cart /\ NoCart.busy = FALSE /\ NoCart.open = {}
  BY DEF NoCart, Cart
<1>7. CartInv
  BY <1>6 DEF CartInv
<1> QED BY <1>3, <1>4, <1>5, <1>7 DEF TypeOK, OrderInv, CartInv

LEMMA NextKeepsTypes ==
    ASSUME TypeOK, CheckoutTypeOK', CartInv', [Next]_vars
    PROVE  TypeOK'
<1> USE DEF CartInv
<1>1. CASE CheckoutNext /\ UNCHANGED <<bank, inFlight>>
  BY <1>1 DEF TypeOK
<1>2. ASSUME NEW t \in Transfers, NEW a \in Amounts, NEW target \in Quoted[t],
             BuyerPays(t, target, a)
      PROVE  TypeOK'
  <2>1. target \in Targets /\ a \in Nat
    BY BankAssumption, PriceAssumption DEF Targets
  <2>2. [sent |-> TRUE, target |-> target, amount |-> a] \in Transfer
    BY <2>1 DEF Transfer
  <2> QED BY <1>2, <2>2 DEF BuyerPays, TypeOK
<1>3. ASSUME NEW t \in Transfers, NEW c \in Channels, Receive(t, c)
      PROVE  TypeOK'
  BY <1>3, BankAssumption DEF Receive, TypeOK
<1>4. ASSUME NEW t \in Transfers, NEW c \in Channels, Apply(t, c) \/ Fail(t, c)
      PROVE  TypeOK'
  <2>1. /\ inFlight[<<t, c>>] > 0
        /\ inFlight' = [inFlight EXCEPT ![<<t, c>>] = @ - 1]
        /\ UNCHANGED bank
    BY <1>4 DEF Apply, Fail
  <2> QED BY <2>1, BankAssumption DEF TypeOK
<1>5. CASE UNCHANGED vars
  BY <1>5 DEF vars, TypeOK
<1> QED BY <1>1, <1>2, <1>3, <1>4, <1>5 DEF Next, BankNext

-----------------------------------------------------------------------------
(* Theorems.                                                               *)

\* Types and the order table's soundness hold together in every reachable state.
THEOREM InductiveInvariant == Spec => []IInv
<1>1. Init => IInv
  BY InitSound DEF IInv
<1>2. IInv /\ [Next]_vars => IInv'
  <2> SUFFICES ASSUME IInv, [Next]_vars
               PROVE  IInv'
    OBVIOUS
  <2>1. OrderInv' /\ CartInv'
    BY NextSound, NextKeepsCarts DEF IInv
  <2>2. TypeOK'
    BY <2>1, NextKeepsTypes DEF IInv, OrderInv
  <2> QED BY <2>1, <2>2 DEF IInv
<1> QED BY <1>1, <1>2, PTL DEF Spec

\* Every table and every request keeps its shape (model/payment.go).
THEOREM TypesHold == Spec => []TypeOK
<1>1. IInv => TypeOK
  BY DEF IInv
<1> QED BY <1>1, InductiveInvariant, PTL

\* A paid order has exactly one activation code and no other order has any, however
\* the webhook, its retries, the reconcile job and the admin interleave (MarkPaidTx).
THEOREM OneCodePerPaidOrder == Spec => []CodeIffPaid
<1>1. IInv => CodeIffPaid
  BY DEF IInv, OrderInv
<1> QED BY <1>1, InductiveInvariant, PTL

\* The row that pays an order and the order it pays name each other, for the exact
\* price: one transfer never pays two orders and no order is paid in part (settle).
THEOREM OneTransferPerPaidOrder == Spec => []PaidByOneTransfer
<1>1. IInv => PaidByOneTransfer
  BY DEF IInv, OrderInv
<1> QED BY <1>1, InductiveInvariant, PTL

\* No buyer ever has two pending orders (createOrderOnce).
THEOREM OneLiveCheckoutPerBuyer == Spec => []OnePendingPerBuyer
<1>1. IInv => OnePendingPerBuyer
  BY DEF IInv, OrderInv
<1> QED BY <1>1, InductiveInvariant, PTL


-----------------------------------------------------------------------------
(* The ledger.                                                             *)

\* A row nobody has placed yet names no order.
OpenRowsUnplaced == \A r \in Rows : OpenRow(r) => ledger[r].order = None

LedgerInv == IInv /\ OpenRowsUnplaced

\* What a step may do to one row: settle it while it is open, or dismiss it.
Settled(r) ==
    \E status \in TxnStatus, o \in Orders \cup {None}, amount \in Nat :
        /\ OpenRow(r)
        /\ status = "unmatched" => o = None
        /\ Recorded(r) => amount = ledger[r].amount
        /\ SetTxn(r, status, o, amount)
Dismissed(r) == ledger' = [ledger EXCEPT ![r].status = "dismissed"]

\* settle writes its row once, and never as unmatched.
LEMMA SettleSettles ==
    ASSUME OrderInv, NEW r \in Rows, NEW o \in Orders, NEW amount \in Nat,
           NEW grant \in {"matched", "attached"}, OpenRow(r),
           Recorded(r) => amount = ledger[r].amount, Settle(r, o, amount, grant)
    PROVE  Settled(r)
<1>1. PICK status \in TxnStatus : status # "unmatched" /\ SetTxn(r, status, o, amount)
  <2>1. {"duplicate_payment", "needs_review", "amount_mismatch", grant} \subseteq TxnStatus
    BY DEF TxnStatus
  <2>2. \A reason \in {orders[o].reason, "late_payment", "amount_mismatch"} :
           ReviewStatus(reason) \in {"needs_review", "amount_mismatch"}
    BY DEF ReviewStatus
  <2> QED BY <2>1, <2>2 DEF Settle, SendToReview
<1> QED BY <1>1 DEF Settled

\* Every step settles one row, dismisses one, or leaves the ledger alone.
LEMMA LedgerSteps ==
    ASSUME IInv, Next
    PROVE  UNCHANGED ledger \/ \E r \in Rows : Settled(r) \/ Dismissed(r)
<1> USE DEF IInv
<1>1. CASE \E r \in Rows, o \in Orders : AttachTransaction(r, o)
  <2> PICK r \in Rows, o \in Orders : AttachTransaction(r, o)
    BY <1>1
  <2>1. ledger[r].amount \in Nat
    BY DEF OrderInv, CheckoutTypeOK, Row
  <2> QED BY <2>1, SettleSettles DEF AttachTransaction, OpenRow
<1>2. CASE \E r \in Rows : DismissTransaction(r)
  BY <1>2 DEF DismissTransaction, Dismissed
<1>3. CASE \E t \in Transfers, c \in Channels : Apply(t, c)
  <2> PICK t \in Transfers, c \in Channels : Apply(t, c)
    BY <1>3
  <2> DEFINE r == RowOf(t, c)
  <2>1. r \in Rows /\ bank[t].amount \in Nat
    BY BankAssumption DEF TypeOK, Transfer, RowOf, Channels
  <2>2. \/ UNCHANGED ledger
        \/ ~Recorded(r) /\ \E status \in {"ignored", "unmatched"} : RecordAlone(t, r, status)
        \/ /\ ~Recorded(r)
           /\ bank[t].target \in Orders
           /\ Settle(r, bank[t].target, bank[t].amount, "matched")
    BY DEF Apply
  <2> HIDE DEF r
  <2>3. CASE ~Recorded(r) /\ \E status \in {"ignored", "unmatched"} : RecordAlone(t, r, status)
    BY <2>1, <2>3 DEF RecordAlone, Settled, OpenRow, Recorded, TxnStatus
  <2>4. CASE /\ ~Recorded(r)
             /\ bank[t].target \in Orders
             /\ Settle(r, bank[t].target, bank[t].amount, "matched")
    BY <2>1, <2>4, SettleSettles DEF OpenRow, Recorded
  <2> QED BY <2>1, <2>2, <2>3, <2>4
<1> QED BY <1>1, <1>2, <1>3
        DEF Next, BankNext, CheckoutNext, BuyerPays, Receive, Fail, CreateOrder,
            BeginCheckout, EndCheckout, CancelUserOrder, TtlPasses, ExpireStale, AdminConfirm, AdminCancel

\* The step from one recorded row to the next.
Appends ==
    \A r \in Rows : Recorded(r) =>
        /\ ledger'[r].status # "absent"
        /\ ledger'[r].amount = ledger[r].amount
        /\ ledger[r].order # None => ledger'[r].order = ledger[r].order

\* Neither of the two forgets a row, its money or its place.
LEMMA StepAppends ==
    ASSUME LedgerInv, [Next]_vars
    PROVE  Appends /\ OpenRowsUnplaced'
<1>1. ledger \in [Rows -> Row]
  BY DEF LedgerInv, IInv, OrderInv, CheckoutTypeOK
<1>2. CASE UNCHANGED ledger
  BY <1>2 DEF LedgerInv, OpenRowsUnplaced, OpenRow, Appends, Recorded
<1>3. ASSUME NEW r \in Rows, Settled(r)
      PROVE  Appends /\ OpenRowsUnplaced'
  <2> PICK status \in TxnStatus, o \in Orders \cup {None}, amount \in Nat :
             /\ OpenRow(r)
             /\ status = "unmatched" => o = None
             /\ Recorded(r) => amount = ledger[r].amount
             /\ SetTxn(r, status, o, amount)
    BY <1>3 DEF Settled
  <2>1. /\ ledger'[r].status = status
        /\ ledger'[r].order = o
        /\ ledger'[r].amount = amount
        /\ \A s \in Rows \ {r} : ledger'[s] = ledger[s]
    BY <1>1, SetTxnSound
  <2>2. status # "absent"
    BY DEF TxnStatus
  <2>3. ledger[r].order = None
    BY DEF LedgerInv, OpenRowsUnplaced
  <2>4. Appends
    BY <2>1, <2>2, <2>3 DEF Appends, Recorded
  <2>5. OpenRowsUnplaced'
    BY <2>1, <2>2 DEF LedgerInv, OpenRowsUnplaced, OpenRow
  <2> QED BY <2>4, <2>5
<1>4. ASSUME NEW r \in Rows, Dismissed(r)
      PROVE  Appends /\ OpenRowsUnplaced'
  <2>1. ledger[r] \in Row
    BY <1>1
  <2>2. /\ ledger'[r].status = "dismissed"
        /\ ledger'[r].order = ledger[r].order
        /\ ledger'[r].amount = ledger[r].amount
        /\ \A s \in Rows \ {r} : ledger'[s] = ledger[s]
    BY <1>1, <1>4, <2>1 DEF Dismissed, Row
  <2>3. Appends
    BY <2>2 DEF Appends, Recorded
  <2>4. OpenRowsUnplaced'
    BY <2>2 DEF LedgerInv, OpenRowsUnplaced, OpenRow
  <2> QED BY <2>3, <2>4
<1> QED BY <1>2, <1>3, <1>4, LedgerSteps DEF LedgerInv, vars

\* The ledger only grows: whatever is reported, retried, attached or dismissed, no
\* recorded transfer disappears, changes its amount or leaves its order (setTxn).
THEOREM LedgerOnlyGrows == Spec => LedgerIsAppendOnly
<1>1. Init => OpenRowsUnplaced
  <2> SUFFICES ASSUME Init, NEW r \in Rows
               PROVE  ledger[r].order = None
    BY DEF OpenRowsUnplaced
  <2>1. ledger[r] = NoSuchRow
    BY DEF Init, CheckoutInit
  <2>2. NoSuchRow.order = None
    BY DEF NoSuchRow
  <2> QED BY <2>1, <2>2
<1>2. IInv /\ OpenRowsUnplaced /\ [Next]_vars => OpenRowsUnplaced'
  BY StepAppends DEF LedgerInv
<1>3. IInv /\ OpenRowsUnplaced /\ [Next]_vars =>
         [\A r \in Rows : Recorded(r) =>
            /\ ledger'[r].status # "absent"
            /\ ledger'[r].amount = ledger[r].amount
            /\ ledger[r].order # None => ledger'[r].order = ledger[r].order]_vars
  BY StepAppends DEF LedgerInv, Appends
<1> QED BY <1>1, <1>2, <1>3, InductiveInvariant, PTL DEF Spec, LedgerIsAppendOnly

-----------------------------------------------------------------------------
(* The money.  What is added to an order is what its rows carry, if an     *)
(* order that still awaits money has none: MarkPaidTx replaces the amount  *)
(* that review would have added to.                                        *)

\* What is on the ledger for an order, and what the order says of it.
OrderMoney(o) ==
    /\ IsFiniteSet(Credited(o))
    /\ orders[o].status \in {"absent", "pending", "expired"} => Credited(o) = {}
    /\ orders[o].ref = Admin => orders[o].status = "paid"
    /\ orders[o].ref # Admin => orders[o].paid = MoneyIn(ledger, Credited(o))

MoneyInv == \A o \in Orders : OrderMoney(o)

\* Money is a sum of amounts, in the terms of SumLemmas.
LEMMA MoneyIsAmount == \A book, S : MoneyIn(book, S) = AmountIn(book, S)
BY DEF MoneyIn, AmountIn, MapThenSumSet, MapThenFoldSet

\* While the ledger rests, an order's money stays true if the order keeps what it says
\* of it, does not open, and is not taken off an admin's word.
LEMMA OrdersKeepMoney ==
    ASSUME MoneyInv, UNCHANGED ledger,
           \A p \in Orders :
              \/ orders'[p].status = "paid" /\ orders'[p].ref = Admin
              \/ /\ orders'[p].paid = orders[p].paid /\ orders'[p].ref = orders[p].ref
                 /\ orders'[p].status \in {"absent", "pending", "expired"} =>
                       orders[p].status \in {"absent", "pending", "expired"}
                 /\ orders[p].status = "paid" => orders'[p].status = "paid"
    PROVE  MoneyInv'
<1> SUFFICES ASSUME NEW p \in Orders
             PROVE  OrderMoney(p)'
  BY DEF MoneyInv
<1>1. OrderMoney(p)
  BY DEF MoneyInv
<1>2. Credited(p)' = Credited(p)
  BY DEF Credited
<1> QED BY <1>1, <1>2 DEF OrderMoney

\* A row that is credited neither before nor after moves no money.
LEMMA IdleRowMoney ==
    ASSUME NEW r \in Rows, \A s \in Rows \ {r} : ledger'[s] = ledger[s],
           NEW p \in Orders, IsFiniteSet(Credited(p)),
           r \notin Credited(p), r \notin Credited(p)'
    PROVE  Credited(p)' = Credited(p) /\ MoneyIn(ledger', Credited(p)) = MoneyIn(ledger, Credited(p))
<1>1. Credited(p)' = Credited(p)
  BY DEF Credited
<1>2. \A s \in Credited(p) : ledger'[s] = ledger[s]
  BY DEF Credited
<1> HIDE DEF Credited
<1>3. MoneyIn(ledger', Credited(p)) = MoneyIn(ledger, Credited(p))
  BY <1>2, MoneyIsAmount, AmountSame
<1> QED BY <1>1, <1>3

\* A row that comes to be credited brings its amount.
LEMMA NewRowMoney ==
    ASSUME ledger' \in [Rows -> Row],
           NEW r \in Rows, \A s \in Rows \ {r} : ledger'[s] = ledger[s],
           NEW p \in Orders, IsFiniteSet(Credited(p)),
           r \notin Credited(p), r \in Credited(p)'
    PROVE  /\ Credited(p)' = Credited(p) \cup {r} /\ IsFiniteSet(Credited(p)')
           /\ MoneyIn(ledger', Credited(p)') = MoneyIn(ledger, Credited(p)) + ledger'[r].amount
<1>1. Credited(p)' = Credited(p) \cup {r}
  BY DEF Credited
<1>2. \A s \in Credited(p) : ledger'[s] = ledger[s]
  BY DEF Credited
<1>3. \A s \in Credited(p) \cup {r} : ledger'[s].amount \in Nat
  BY DEF Credited, Row
<1>4. IsFiniteSet(Credited(p)')
  BY <1>1, FS_AddElement
<1> DEFINE S == Credited(p)
<1> HIDE DEF S
<1>5. MoneyIn(ledger', S) = MoneyIn(ledger, S)
  BY <1>2, MoneyIsAmount, AmountSame DEF S
<1>6. MoneyIn(ledger', S \cup {r}) = MoneyIn(ledger', S) + ledger'[r].amount
  BY <1>3, MoneyIsAmount, AmountAdds DEF S
<1> QED BY <1>1, <1>4, <1>5, <1>6 DEF S

\* A row placed on an order, and the order taking its amount, keep the money true.
LEMMA PlacedMoney ==
    ASSUME OrderInv, MoneyInv, NEW r \in Rows, NEW o \in Orders, NEW amount \in Nat,
           NEW status \in {"matched", "attached", "amount_mismatch", "needs_review"},
           OpenRow(r), SetTxn(r, status, o, amount),
           NEW new \in Order, orders' = [orders EXCEPT ![o] = new],
           new.status \in {"paid", "needs_review"}, new.ref # Admin,
           new.paid = MoneyIn(ledger, Credited(o)) + amount
    PROVE  MoneyInv'
<1>1. orders \in [Orders -> Order] /\ ledger \in [Rows -> Row] /\ status \in TxnStatus
  BY DEF OrderInv, CheckoutTypeOK, TxnStatus
<1>2. /\ ledger' \in [Rows -> Row]
      /\ ledger'[r].status = status
      /\ ledger'[r].order = o
      /\ ledger'[r].amount = amount
      /\ \A s \in Rows \ {r} : ledger'[s] = ledger[s]
  BY <1>1, SetTxnSound
<1>3. orders'[o] = new /\ \A p \in Orders \ {o} : orders'[p] = orders[p]
  BY <1>1
<1>4. \A p \in Orders : r \notin Credited(p) /\ (r \in Credited(p)' <=> p = o)
  BY <1>2 DEF Credited, OpenRow
<1>5. OrderMoney(o)'
  <2>1. IsFiniteSet(Credited(o))
    BY DEF MoneyInv, OrderMoney
  <2>2. /\ IsFiniteSet(Credited(o)')
        /\ MoneyIn(ledger', Credited(o)') = MoneyIn(ledger, Credited(o)) + amount
    BY <1>2, <1>4, <2>1, NewRowMoney
  <2> QED BY <1>3, <2>2 DEF OrderMoney
<1>6. ASSUME NEW p \in Orders \ {o}
      PROVE  OrderMoney(p)'
  <2>1. OrderMoney(p)
    BY DEF MoneyInv
  <2>2. /\ Credited(p)' = Credited(p)
        /\ MoneyIn(ledger', Credited(p)) = MoneyIn(ledger, Credited(p))
    BY <1>2, <1>4, <2>1, IdleRowMoney DEF OrderMoney
  <2> QED BY <1>3, <2>1, <2>2 DEF OrderMoney
<1> QED BY <1>5, <1>6 DEF MoneyInv

\* A row that is credited to nobody moves no money of the orders at rest.
LEMMA UncreditedMoney ==
    ASSUME MoneyInv, UNCHANGED orders, NEW r \in Rows,
           \A s \in Rows \ {r} : ledger'[s] = ledger[s],
           \A p \in Orders : r \notin Credited(p) /\ r \notin Credited(p)'
    PROVE  MoneyInv'
<1> SUFFICES ASSUME NEW p \in Orders
             PROVE  OrderMoney(p)'
  BY DEF MoneyInv
<1>1. OrderMoney(p)
  BY DEF MoneyInv
<1>2. /\ Credited(p)' = Credited(p)
      /\ MoneyIn(ledger', Credited(p)) = MoneyIn(ledger, Credited(p))
  BY <1>1, IdleRowMoney DEF OrderMoney
<1> QED BY <1>1, <1>2 DEF OrderMoney

\* Money sent to review is added to what the order already held.
LEMMA ReviewMoney ==
    ASSUME OrderInv, MoneyInv, NEW r \in Rows, NEW o \in Orders, NEW amount \in Nat,
           NEW reason \in ReviewReason, OpenRow(r), orders[o].status # "paid",
           SendToReview(r, o, amount, reason)
    PROVE  MoneyInv'
<1> DEFINE new == Review(orders[o], amount, reason)
           status == ReviewStatus(reason)
<1>1. orders[o] \in Order
  BY DEF OrderInv, CheckoutTypeOK
<1>2. /\ new \in Order
      /\ new.status = "needs_review"
      /\ new.ref = orders[o].ref
      /\ new.paid = orders[o].paid + amount
  BY <1>1, ReviewFields
<1>3. orders' = [orders EXCEPT ![o] = new] /\ SetTxn(r, status, o, amount)
  BY DEF SendToReview
<1> HIDE DEF new
<1>4. status \in {"matched", "attached", "amount_mismatch", "needs_review"}
  BY DEF ReviewStatus
<1> HIDE DEF status
<1>5. orders[o].ref # Admin /\ orders[o].paid = MoneyIn(ledger, Credited(o))
  BY DEF MoneyInv, OrderMoney
<1> QED BY <1>2, <1>3, <1>4, <1>5, PlacedMoney

\* Money that pays an order is all it holds: nothing was credited to it before.
LEMMA GrantMoney ==
    ASSUME OrderInv, MoneyInv, NEW r \in Rows, NEW o \in Orders, NEW amount \in Nat,
           NEW grant \in {"matched", "attached"},
           OpenRow(r), orders[o].status \in {"pending", "expired"},
           orders' = [orders EXCEPT ![o] = MarkPaid(@, amount, r)],
           SetTxn(r, grant, o, amount)
    PROVE  MoneyInv'
<1> DEFINE new == MarkPaid(orders[o], amount, r)
<1>1. orders[o] \in Order
  BY DEF OrderInv, CheckoutTypeOK
<1>2. new \in Order /\ new.status = "paid" /\ new.ref = r /\ new.paid = amount
  BY <1>1, MarkPaidFields
<1>3. orders' = [orders EXCEPT ![o] = new]
  OBVIOUS
<1> HIDE DEF new
<1>4. MoneyIn(ledger, Credited(o)) = 0
  BY MoneyIsAmount, NoAmount DEF MoneyInv, OrderMoney
<1>5. r # Admin
  BY SentinelAssumption
<1>6. new.paid = MoneyIn(ledger, Credited(o)) + amount
  BY <1>2, <1>4
<1>7. new \in Order /\ new.status \in {"paid", "needs_review"} /\ new.ref # Admin
  BY <1>2, <1>5
<1>8. grant \in {"matched", "attached", "amount_mismatch", "needs_review"}
  OBVIOUS
<1> QED BY <1>3, <1>6, <1>7, <1>8, PlacedMoney

\* settle keeps the money true whatever order it meets.
LEMMA SettleMoney ==
    ASSUME OrderInv, MoneyInv, NEW r \in Rows, NEW o \in Orders, NEW amount \in Nat,
           NEW grant \in {"matched", "attached"}, OpenRow(r), Settle(r, o, amount, grant)
    PROVE  MoneyInv'
<1>1. orders[o].reason \in ReviewReason /\ {"late_payment", "amount_mismatch"} \subseteq ReviewReason
  BY DEF OrderInv, CheckoutTypeOK, Order, ReviewReason
<1>2. CASE SetTxn(r, "duplicate_payment", o, amount) /\ UNCHANGED orders
  <2>1. /\ ledger'[r].status = "duplicate_payment"
        /\ \A s \in Rows \ {r} : ledger'[s] = ledger[s]
    BY <1>2, SetTxnSound DEF OrderInv, CheckoutTypeOK, TxnStatus
  <2>2. \A p \in Orders : r \notin Credited(p) /\ r \notin Credited(p)'
    BY <2>1 DEF Credited, OpenRow
  <2> QED BY <1>2, <2>1, <2>2, UncreditedMoney
<1>3. CASE orders[o].status # "paid"
           /\ \E reason \in ReviewReason : SendToReview(r, o, amount, reason)
  BY <1>3, ReviewMoney
<1>4. CASE /\ orders[o].status \in {"pending", "expired"}
           /\ orders' = [orders EXCEPT ![o] = MarkPaid(@, amount, r)]
           /\ SetTxn(r, grant, o, amount)
  BY <1>4, GrantMoney
<1> QED BY <1>1, <1>2, <1>3, <1>4 DEF Settle

\* A checkout that commits closes and opens orders that hold no money.
LEMMA CreateMoney ==
    ASSUME OrderInv, MoneyInv, NEW u \in Users, NEW i \in Items, NEW o \in Orders,
           Opens(u, i, o)
    PROVE  MoneyInv'
<1> DEFINE new == [NoSuchOrder EXCEPT !.status = "pending", !.user = u,
                                      !.item = i, !.live = TRUE]
<1>1. orders \in [Orders -> Order] /\ orders[o].status = "absent"
  BY DEF OrderInv, CheckoutTypeOK, Opens, Exists
<1>2. new.status = "pending" /\ new.paid = 0 /\ new.ref = None
  BY DEF NoSuchOrder
<1>3. orders' = [CloseOpen(PendingOf(u)) EXCEPT ![o] = new] /\ UNCHANGED ledger
  BY DEF Opens
<1> HIDE DEF new
<1>4. orders'[o] = new /\ \A p \in Orders \ {o} : orders'[p] = CloseOpen(PendingOf(u))[p]
  BY <1>3 DEF CloseOpen
<1>5. \A p \in Orders : Credited(p)' = Credited(p)
  BY <1>3 DEF Credited
<1>6. OrderMoney(o)'
  BY <1>1, <1>2, <1>3, <1>4, <1>5, MoneyIsAmount, NoAmount, SentinelAssumption DEF MoneyInv, OrderMoney
<1>7. ASSUME NEW p \in Orders \ {o}
      PROVE  OrderMoney(p)'
  <2>1. OrderMoney(p)
    BY DEF MoneyInv
  <2>2. CASE p \notin PendingOf(u)
    <3>1. orders'[p] = orders[p]
      BY <1>4, <2>2 DEF CloseOpen
    <3> QED BY <1>3, <1>5, <2>1, <3>1 DEF OrderMoney
  <2>3. CASE p \in PendingOf(u)
    <3>1. PICK to \in {"cancelled", "expired"} : orders'[p] = [orders[p] EXCEPT !.status = to]
      BY <1>4, <2>3 DEF CloseOpen
    <3>2. orders[p] \in Order /\ orders[p].status = "pending"
      BY <1>1, <2>3 DEF PendingOf
    <3>3. /\ orders'[p].status = to
          /\ orders'[p].paid = orders[p].paid
          /\ orders'[p].ref = orders[p].ref
      BY <3>1, <3>2, ClosedFields
    <3> QED BY <1>3, <1>5, <2>1, <3>2, <3>3 DEF OrderMoney
  <2> QED BY <2>2, <2>3
<1> QED BY <1>6, <1>7 DEF MoneyInv

\* Cancelling an order leaves its money on it.
LEMMA CancelMoney ==
    ASSUME OrderInv, MoneyInv, NEW o \in Orders, UNCHANGED ledger,
           orders[o].status # "paid",
           orders' = [orders EXCEPT ![o].status = "cancelled"]
    PROVE  MoneyInv'
<1>1. orders \in [Orders -> Order]
  BY DEF OrderInv, CheckoutTypeOK
<1>2. orders'[o] = [orders[o] EXCEPT !.status = "cancelled"]
  BY <1>1
<1>3. /\ orders'[o].status = "cancelled"
      /\ orders'[o].paid = orders[o].paid
      /\ orders'[o].ref = orders[o].ref
  BY <1>1, <1>2, ClosedFields
<1>4. \A p \in Orders \ {o} : orders'[p] = orders[p]
  BY <1>1
<1> QED BY <1>3, <1>4, OrdersKeepMoney

\* So do the clock and the sweep, which meet pending orders only.
LEMMA TimeMoney ==
    ASSUME OrderInv, MoneyInv, ExpireStale \/ \E o \in Orders : TtlPasses(o)
    PROVE  MoneyInv'
<1>1. orders \in [Orders -> Order]
  BY DEF OrderInv, CheckoutTypeOK
<1>2. CASE ExpireStale
  <2>1. ASSUME NEW p \in Stale
        PROVE  /\ orders[p].status = "pending" /\ orders'[p].status = "expired"
               /\ orders'[p].paid = orders[p].paid /\ orders'[p].ref = orders[p].ref
    <3>1. orders[p] \in Order /\ orders[p].status = "pending"
      BY <1>1 DEF Stale
    <3>2. orders'[p] = [orders[p] EXCEPT !.status = "expired"]
      BY <1>2 DEF ExpireStale, Stale
    <3> QED BY <3>1, <3>2, ClosedFields
  <2>2. \A p \in Orders : p \notin Stale => orders'[p] = orders[p]
    BY <1>2 DEF ExpireStale
  <2> QED BY <1>2, <2>1, <2>2, OrdersKeepMoney DEF ExpireStale
<1>3. ASSUME NEW o \in Orders, TtlPasses(o)
      PROVE  MoneyInv'
  <2>1. /\ orders'[o].status = "pending" /\ orders[o].status = "pending"
        /\ orders'[o].paid = orders[o].paid
        /\ orders'[o].ref = orders[o].ref
    BY <1>1, <1>3 DEF TtlPasses, Order
  <2>2. \A p \in Orders \ {o} : orders'[p] = orders[p]
    BY <1>1, <1>3 DEF TtlPasses
  <2> QED BY <1>3, <2>1, <2>2, OrdersKeepMoney DEF TtlPasses
<1> QED BY <1>2, <1>3

\* An admin's word replaces the amount, and the order is theirs from then on.
LEMMA AdminConfirmMoney ==
    ASSUME OrderInv, MoneyInv, NEW o \in Orders, NEW amount \in Amounts,
           AdminConfirm(o, amount)
    PROVE  MoneyInv'
<1> DEFINE new == MarkPaid(orders[o], amount, Admin)
<1>1. orders \in [Orders -> Order] /\ orders[o] \in Order /\ amount \in Nat
  BY PriceAssumption DEF OrderInv, CheckoutTypeOK
<1>2. new.status = "paid" /\ new.ref = Admin
  BY <1>1, MarkPaidFields
<1>3. orders'[o].status = "paid" /\ orders'[o].ref = Admin
  BY <1>1, <1>2 DEF AdminConfirm
<1>4. \A p \in Orders \ {o} : orders'[p] = orders[p]
  BY <1>1 DEF AdminConfirm
<1> QED BY <1>3, <1>4, OrdersKeepMoney DEF AdminConfirm

\* Only rows that were credited to nobody are dismissed.
LEMMA DismissMoney ==
    ASSUME OrderInv, MoneyInv, NEW r \in Rows, DismissTransaction(r)
    PROVE  MoneyInv'
<1>1. ledger \in [Rows -> Row] /\ ledger[r] \in Row
  BY DEF OrderInv, CheckoutTypeOK
<1>2. ledger'[r].status = "dismissed" /\ \A s \in Rows \ {r} : ledger'[s] = ledger[s]
  BY <1>1 DEF DismissTransaction, Row
<1>3. \A p \in Orders : r \notin Credited(p) /\ r \notin Credited(p)'
  BY <1>2 DEF Credited, DismissTransaction
<1> QED BY <1>2, <1>3, UncreditedMoney DEF DismissTransaction

\* A request about a transfer settles a row that is new, or records it for nobody.
LEMMA ApplyMoney ==
    ASSUME IInv, MoneyInv, NEW t \in Transfers, NEW c \in Channels, Apply(t, c)
    PROVE  MoneyInv'
<1> DEFINE r == RowOf(t, c)
<1>1. r \in Rows /\ bank[t].amount \in Nat
  BY BankAssumption DEF IInv, TypeOK, Transfer, RowOf, Channels
<1>2. CASE UNCHANGED <<orders, ledger>>
  BY <1>2 DEF MoneyInv, OrderMoney, Credited
<1>3. ASSUME NEW status \in {"ignored", "unmatched"}, ~Recorded(r),
             RecordAlone(t, r, status)
      PROVE  MoneyInv'
  <2> HIDE DEF r
  <2>1. status \in TxnStatus
    BY DEF TxnStatus
  <2>2. ledger'[r].status = status /\ \A s \in Rows \ {r} : ledger'[s] = ledger[s]
    BY <1>1, <1>3, <2>1, SetTxnSound DEF RecordAlone, IInv, OrderInv, CheckoutTypeOK
  <2>3. \A p \in Orders : r \notin Credited(p) /\ r \notin Credited(p)'
    BY <1>3, <2>2 DEF Credited, Recorded
  <2> QED BY <1>1, <1>3, <2>2, <2>3, UncreditedMoney DEF RecordAlone
<1>4. CASE /\ ~Recorded(r)
           /\ bank[t].target \in Orders
           /\ Settle(r, bank[t].target, bank[t].amount, "matched")
  <2> HIDE DEF r
  <2> QED BY <1>1, <1>4, SettleMoney DEF IInv, OpenRow, Recorded
<1> QED BY <1>2, <1>3, <1>4 DEF Apply

\* No step of the channel or of the order table loses or invents money.
LEMMA StepKeepsMoney ==
    ASSUME IInv, MoneyInv, [Next]_vars
    PROVE  MoneyInv'
<1> USE DEF IInv
<1>1. CASE UNCHANGED <<orders, ledger>>
  BY <1>1 DEF MoneyInv, OrderMoney, Credited
<1>2. CASE \E c \in Carts, o \in Orders : CreateOrder(c, o)
  BY <1>2, CommitOpens, CreateMoney
<1>3. CASE \E o \in Orders : CancelUserOrder(o) \/ AdminCancel(o)
  BY <1>3, CancelMoney DEF CancelUserOrder, AdminCancel
<1>4. CASE ExpireStale \/ \E o \in Orders : TtlPasses(o)
  BY <1>4, TimeMoney
<1>5. CASE \E o \in Orders, a \in Amounts : AdminConfirm(o, a)
  BY <1>5, AdminConfirmMoney
<1>6. CASE \E r \in Rows, o \in Orders : AttachTransaction(r, o)
  <2> PICK r \in Rows, o \in Orders : AttachTransaction(r, o)
    BY <1>6
  <2>1. ledger[r].amount \in Nat
    BY DEF OrderInv, CheckoutTypeOK, Row
  <2> QED BY <2>1, SettleMoney DEF AttachTransaction, OpenRow
<1>7. CASE \E r \in Rows : DismissTransaction(r)
  BY <1>7, DismissMoney
<1>8. CASE \E t \in Transfers, c \in Channels : Apply(t, c)
  BY <1>8, ApplyMoney
<1> QED BY <1>1, <1>2, <1>3, <1>4, <1>5, <1>6, <1>7, <1>8
        DEF Next, BankNext, CheckoutNext, BeginCheckout, EndCheckout, BuyerPays, Receive,
            Fail, vars

\* What an order says it was paid is the sum of its rows on the ledger, unless an
\* admin has said otherwise: no retry counts money twice, no review drops any, and a
\* duplicate or a dismissed row counts for nothing (review, MarkPaidTx).
THEOREM PaidAmountsAreLedgered == Spec => []PaidAmountIsLedgerMoney
<1>1. Init => MoneyInv
  <2> SUFFICES ASSUME Init, NEW o \in Orders
               PROVE  OrderMoney(o)
    BY DEF MoneyInv
  <2>1. orders[o] = NoSuchOrder /\ \A r \in Rows : ledger[r] = NoSuchRow
    BY DEF Init, CheckoutInit
  <2>2. NoSuchOrder.paid = 0 /\ NoSuchOrder.ref = None /\ NoSuchRow.status = "absent"
    BY DEF NoSuchOrder, NoSuchRow
  <2>3. Credited(o) = {}
    BY <2>1, <2>2 DEF Credited
  <2> QED BY <2>1, <2>2, <2>3, MoneyIsAmount, NoAmount, FS_EmptySet, SentinelAssumption DEF OrderMoney
<1>2. IInv /\ MoneyInv /\ [Next]_vars => MoneyInv'
  BY StepKeepsMoney
<1>3. MoneyInv => PaidAmountIsLedgerMoney
  BY DEF MoneyInv, OrderMoney, PaidAmountIsLedgerMoney
<1> QED BY <1>1, <1>2, <1>3, InductiveInvariant, PTL DEF Spec

-----------------------------------------------------------------------------
(* The promise.                                                            *)

\* What each status shows the buyer.
LEMMA Shown ==
    ASSUME NEW order
    PROVE  /\ order.status = "absent" => PhaseOf(order) = "absent"
           /\ order.status \in {"pending", "expired"} => PhaseOf(order) = "awaiting"
           /\ order.status = "needs_review" => PhaseOf(order) = "in_review"
           /\ order.status = "cancelled" => PhaseOf(order) = "called_off"
           /\ order.status = "paid" => PhaseOf(order) = "sold"
           /\ order.status # "paid" => SellerOf(order) = "nobody"
           /\ order.status = "paid" =>
                 SellerOf(order) = IF order.ref = Admin THEN "admin" ELSE "payment"
BY DEF PhaseOf, SellerOf

\* A step that moves one order moves the buyer's view of that order alone.
LEMMA OneView ==
    ASSUME OrderInv, NEW o \in Orders, NEW new, orders' = [orders EXCEPT ![o] = new]
    PROVE  /\ Phase[o] = PhaseOf(orders[o]) /\ Seller[o] = SellerOf(orders[o])
           /\ Phase' = [Phase EXCEPT ![o] = PhaseOf(new)]
           /\ Seller' = [Seller EXCEPT ![o] = SellerOf(new)]
<1>1. orders \in [Orders -> Order]
  BY DEF OrderInv, CheckoutTypeOK
<1>2. \A p \in Orders : orders'[p] = IF p = o THEN new ELSE orders[p]
  BY <1>1
<1>3. Phase' = [Phase EXCEPT ![o] = PhaseOf(new)]
  <2>1. Phase' = [p \in Orders |-> PhaseOf(orders'[p])]
    BY DEF Phase, PhaseOf
  <2>2. \A p \in Orders : PhaseOf(orders'[p]) = IF p = o THEN PhaseOf(new)
                                                        ELSE PhaseOf(orders[p])
    BY <1>2
  <2> QED BY <2>1, <2>2 DEF Phase
<1>4. Seller' = [Seller EXCEPT ![o] = SellerOf(new)]
  <2>1. Seller' = [p \in Orders |-> SellerOf(orders'[p])]
    BY DEF Seller, SellerOf
  <2>2. \A p \in Orders : SellerOf(orders'[p]) = IF p = o THEN SellerOf(new)
                                                         ELSE SellerOf(orders[p])
    BY <1>2
  <2> QED BY <2>1, <2>2 DEF Seller
<1> QED BY <1>3, <1>4 DEF Phase, Seller

\* An order whose view does not move leaves the promise where it was.
LEMMA SameView ==
    ASSUME OrderInv, NEW o \in Orders, NEW new, orders' = [orders EXCEPT ![o] = new],
           PhaseOf(new) = PhaseOf(orders[o]), SellerOf(new) = SellerOf(orders[o])
    PROVE  UNCHANGED <<Phase, Seller>>
<1>1. /\ Phase[o] = PhaseOf(orders[o]) /\ Seller[o] = SellerOf(orders[o])
      /\ Phase' = [Phase EXCEPT ![o] = PhaseOf(new)]
      /\ Seller' = [Seller EXCEPT ![o] = SellerOf(new)]
  BY OneView
<1>2. Phase = [Phase EXCEPT ![o] = Phase[o]] /\ Seller = [Seller EXCEPT ![o] = Seller[o]]
  BY DEF Phase, Seller
<1> QED BY <1>1, <1>2

\* An order that is unpaid before and after keeps having no seller.
LEMMA UnsoldMoves ==
    ASSUME OrderInv, NEW o \in Orders, NEW new, orders' = [orders EXCEPT ![o] = new],
           orders[o].status # "paid", new.status # "paid"
    PROVE  /\ Phase[o] = PhaseOf(orders[o])
           /\ Promise!Move(o, PhaseOf(new))
<1>1. SellerOf(orders[o]) = "nobody" /\ SellerOf(new) = "nobody"
  BY Shown
<1>2. /\ Phase[o] = PhaseOf(orders[o]) /\ Seller[o] = SellerOf(orders[o])
      /\ Phase' = [Phase EXCEPT ![o] = PhaseOf(new)]
      /\ Seller' = [Seller EXCEPT ![o] = SellerOf(new)]
  BY OneView
<1>3. Seller = [Seller EXCEPT ![o] = Seller[o]]
  BY DEF Seller
<1> QED BY <1>1, <1>2, <1>3 DEF Promise!Move

\* The buyer's or the admin's cancellation calls the order off.
LEMMA CancelView ==
    ASSUME OrderInv, NEW o \in Orders,
           orders[o].status \in {"pending", "needs_review", "expired"},
           orders' = [orders EXCEPT ![o].status = "cancelled"]
    PROVE  Promise!CallOff(o)
<1> DEFINE new == [orders[o] EXCEPT !.status = "cancelled"]
<1>1. orders[o] \in Order
  BY DEF OrderInv, CheckoutTypeOK
<1>2. new.status = "cancelled"
  BY <1>1, ClosedFields
<1>3. orders' = [orders EXCEPT ![o] = new]
  OBVIOUS
<1> HIDE DEF new
<1>4. Phase[o] = PhaseOf(orders[o]) /\ Promise!Move(o, PhaseOf(new))
  BY <1>2, <1>3, UnsoldMoves
<1>5. PhaseOf(orders[o]) \in {"awaiting", "in_review"} /\ PhaseOf(new) = "called_off"
  BY <1>2, Shown
<1> QED BY <1>4, <1>5 DEF Promise!CallOff

\* An order goes to review from a stage where that is news, or was there already.
LEMMA ReviewView ==
    ASSUME OrderInv, NEW r \in Rows, NEW o \in Orders, NEW amount \in Nat,
           NEW reason \in ReviewReason,
           orders[o].status \in {"pending", "expired", "cancelled", "needs_review"},
           SendToReview(r, o, amount, reason)
    PROVE  Promise!QuestionMoney(o) \/ UNCHANGED <<Phase, Seller>>
<1> DEFINE new == Review(orders[o], amount, reason)
<1>1. orders[o] \in Order
  BY DEF OrderInv, CheckoutTypeOK
<1>2. new.status = "needs_review"
  BY <1>1, ReviewFields
<1>3. orders' = [orders EXCEPT ![o] = new]
  BY DEF SendToReview
<1> HIDE DEF new
<1>4. PhaseOf(new) = "in_review" /\ SellerOf(new) = "nobody" /\ SellerOf(orders[o]) = "nobody"
  BY <1>2, Shown
<1>5. CASE orders[o].status = "needs_review"
  <2>1. PhaseOf(orders[o]) = "in_review"
    BY <1>5, Shown
  <2> QED BY <1>3, <1>4, <2>1, SameView
<1>6. CASE orders[o].status # "needs_review"
  <2>1. PhaseOf(orders[o]) \in {"awaiting", "called_off"}
    BY <1>6, Shown
  <2>2. Phase[o] = PhaseOf(orders[o]) /\ Promise!Move(o, PhaseOf(new))
    BY <1>2, <1>3, UnsoldMoves
  <2> QED BY <1>4, <2>1, <2>2 DEF Promise!QuestionMoney
<1> QED BY <1>5, <1>6

\* Whoever marks an order paid sells it.
LEMMA PaidView ==
    ASSUME OrderInv, NEW o \in Orders, NEW amount \in Nat, NEW ref \in Rows \cup {Admin},
           orders[o].status \notin {"absent", "paid"},
           ref # Admin => orders[o].status \in {"pending", "expired"},
           orders' = [orders EXCEPT ![o] = MarkPaid(@, amount, ref)]
    PROVE  \E who \in {"payment", "admin"} : Promise!Sell(o, who)
<1> DEFINE new == MarkPaid(orders[o], amount, ref)
           who == IF ref = Admin THEN "admin" ELSE "payment"
<1>1. orders[o] \in Order
  BY DEF OrderInv, CheckoutTypeOK
<1>2. new.status = "paid" /\ new.ref = ref
  BY <1>1, MarkPaidFields
<1>3. orders' = [orders EXCEPT ![o] = new]
  OBVIOUS
<1> HIDE DEF new
<1>4. PhaseOf(new) = "sold" /\ SellerOf(new) = who
  BY <1>2, Shown
<1>5. PhaseOf(orders[o]) \in IF who = "payment" THEN {"awaiting"}
                             ELSE {"awaiting", "in_review", "called_off"}
  <2>1. orders[o].status \in OrderStatus
    BY <1>1 DEF Order
  <2> QED BY <2>1, Shown DEF OrderStatus
<1> HIDE DEF who
<1>6. /\ Phase[o] = PhaseOf(orders[o])
      /\ Phase' = [Phase EXCEPT ![o] = PhaseOf(new)]
      /\ Seller' = [Seller EXCEPT ![o] = SellerOf(new)]
  BY <1>3, OneView
<1>7. Promise!Sell(o, who)
  BY <1>4, <1>5, <1>6 DEF Promise!Sell
<1> QED BY <1>7 DEF who

\* settle moves the buyer's view as promised, or not at all.
LEMMA SettleView ==
    ASSUME OrderInv, NEW r \in Rows, NEW o \in Orders, NEW amount \in Nat,
           NEW grant \in {"matched", "attached"}, Settle(r, o, amount, grant)
    PROVE  Promise!Next \/ UNCHANGED <<Phase, Seller>>
<1>1. orders[o].reason \in ReviewReason /\ {"late_payment", "amount_mismatch"} \subseteq ReviewReason
  BY DEF OrderInv, CheckoutTypeOK, Order, ReviewReason
<1>2. CASE UNCHANGED orders
  BY <1>2 DEF Phase, Seller, PhaseOf, SellerOf
<1>3. CASE /\ orders[o].status \in {"pending", "expired", "cancelled", "needs_review"}
           /\ \E reason \in ReviewReason : SendToReview(r, o, amount, reason)
  BY <1>3, ReviewView DEF Promise!Next
<1>4. CASE /\ orders[o].status \in {"pending", "expired"}
           /\ orders' = [orders EXCEPT ![o] = MarkPaid(@, amount, r)]
  BY <1>4, PaidView DEF Promise!Next
<1> QED BY <1>1, <1>2, <1>3, <1>4 DEF Settle

\* The sweep and the clock show the buyer nothing: an expired order still awaits money.
LEMMA QuietSteps ==
    ASSUME OrderInv, ExpireStale \/ \E o \in Orders : TtlPasses(o)
    PROVE  UNCHANGED <<Phase, Seller>>
<1>1. orders \in [Orders -> Order]
  BY DEF OrderInv, CheckoutTypeOK
<1>2. CASE ExpireStale
  <2>1. \A p \in Orders :
           \/ orders'[p] = orders[p]
           \/ orders[p].status = "pending" /\ orders'[p].status = "expired"
    <3> SUFFICES ASSUME NEW p \in Stale
                 PROVE  orders[p].status = "pending" /\ orders'[p].status = "expired"
      BY <1>2 DEF ExpireStale
    <3>1. orders[p] \in Order /\ orders[p].status = "pending"
      BY <1>1 DEF Stale
    <3>2. orders'[p] = [orders[p] EXCEPT !.status = "expired"]
      BY <1>2 DEF ExpireStale, Stale
    <3> QED BY <3>1, <3>2, ClosedFields
  <2>2. \A p \in Orders : /\ PhaseOf(orders'[p]) = PhaseOf(orders[p])
                          /\ SellerOf(orders'[p]) = SellerOf(orders[p])
    BY <2>1, Shown
  <2>3. /\ Phase' = [p \in Orders |-> PhaseOf(orders'[p])]
        /\ Seller' = [p \in Orders |-> SellerOf(orders'[p])]
    BY DEF Phase, Seller, PhaseOf, SellerOf
  <2> QED BY <2>2, <2>3 DEF Phase, Seller
<1>3. ASSUME NEW o \in Orders, TtlPasses(o)
      PROVE  UNCHANGED <<Phase, Seller>>
  <2> DEFINE new == [orders[o] EXCEPT !.live = FALSE]
  <2>1. orders[o] \in Order /\ orders[o].status = "pending"
    BY <1>1, <1>3 DEF TtlPasses
  <2>2. new.status = "pending"
    BY <2>1 DEF Order
  <2>3. orders' = [orders EXCEPT ![o] = new]
    BY <1>3 DEF TtlPasses
  <2> HIDE DEF new
  <2>4. PhaseOf(new) = PhaseOf(orders[o]) /\ SellerOf(new) = SellerOf(orders[o])
    BY <2>1, <2>2, Shown
  <2> QED BY <2>3, <2>4, SameView
<1> QED BY <1>2, <1>3

\* A checkout that commits opens its order and calls off the live one it replaces.
LEMMA CreateView ==
    ASSUME OrderInv, NEW u \in Users, NEW i \in Items, NEW o \in Orders, Opens(u, i, o)
    PROVE  \E S \in SUBSET Orders : Promise!Open(o, S)
<1> DEFINE new == [NoSuchOrder EXCEPT !.status = "pending", !.user = u,
                                      !.item = i, !.live = TRUE]
           S == {p \in PendingOf(u) : orders[p].live}
<1>1. orders \in [Orders -> Order] /\ orders[o].status = "absent"
  BY DEF OrderInv, CheckoutTypeOK, Opens, Exists
<1>2. new.status = "pending"
  BY DEF NoSuchOrder
<1>3. orders' = [CloseOpen(PendingOf(u)) EXCEPT ![o] = new]
  BY DEF Opens
<1> HIDE DEF new
<1>4. /\ orders'[o] = new
      /\ \A p \in Orders \ {o} : orders'[p] = CloseOpen(PendingOf(u))[p]
  BY <1>3 DEF CloseOpen
<1>5. \A p \in Orders : p \in PendingOf(u) =>
         CloseOpen(PendingOf(u))[p].status = IF orders[p].live THEN "cancelled" ELSE "expired"
  <2> SUFFICES ASSUME NEW p \in Orders, p \in PendingOf(u)
               PROVE  CloseOpen(PendingOf(u))[p].status = IF orders[p].live THEN "cancelled" ELSE "expired"
    OBVIOUS
  <2>1. CloseOpen(PendingOf(u))[p] = [orders[p] EXCEPT !.status =
                              IF orders[p].live THEN "cancelled" ELSE "expired"]
    BY DEF CloseOpen
  <2>2. orders[p] \in Order
    BY <1>1
  <2> QED BY <2>1, <2>2, ClosedFields
<1>6. \A p \in Orders : p \notin PendingOf(u) => CloseOpen(PendingOf(u))[p] = orders[p]
  BY DEF CloseOpen
<1>7. \A p \in Orders :
         /\ PhaseOf(orders'[p]) = IF p = o THEN "awaiting"
                                  ELSE IF p \in S THEN "called_off" ELSE PhaseOf(orders[p])
         /\ SellerOf(orders'[p]) = SellerOf(orders[p])
  <2> SUFFICES ASSUME NEW p \in Orders
               PROVE  /\ PhaseOf(orders'[p]) = IF p = o THEN "awaiting"
                           ELSE IF p \in S THEN "called_off" ELSE PhaseOf(orders[p])
                      /\ SellerOf(orders'[p]) = SellerOf(orders[p])
    OBVIOUS
  <2>1. CASE p = o
    BY <1>1, <1>2, <1>4, <2>1, Shown
  <2>2. CASE p # o /\ p \in PendingOf(u)
    <3>1. orders[p].status = "pending"
      BY <2>2 DEF PendingOf
    <3>2. orders'[p].status = IF orders[p].live THEN "cancelled" ELSE "expired"
      BY <1>4, <1>5, <2>2
    <3> QED BY <2>2, <3>1, <3>2, Shown
  <2>3. CASE p # o /\ p \notin PendingOf(u)
    BY <1>4, <1>6, <2>3
  <2> QED BY <2>1, <2>2, <2>3
<1>8. /\ Phase' = [p \in Orders |-> PhaseOf(orders'[p])]
      /\ Seller' = [p \in Orders |-> SellerOf(orders'[p])]
  BY DEF Phase, Seller, PhaseOf, SellerOf
<1>9. PhaseOf(orders[o]) = "absent" /\ \A p \in S : PhaseOf(orders[p]) = "awaiting"
  BY <1>1, Shown DEF PendingOf
<1>10. S \subseteq Orders
  BY DEF PendingOf
<1>11. Promise!Open(o, S)
  <2> HIDE DEF S
  <2>1. Phase[o] = "absent" /\ \A p \in S : Phase[p] = "awaiting"
    BY <1>9, <1>10 DEF Phase
  <2>2. Phase' = [p \in Orders |-> IF p = o THEN "awaiting"
                                   ELSE IF p \in S THEN "called_off" ELSE Phase[p]]
    BY <1>7, <1>8 DEF Phase
  <2>3. Seller' = Seller
    BY <1>7, <1>8 DEF Seller
  <2> QED BY <2>1, <2>2, <2>3 DEF Promise!Open
<1> QED BY <1>10, <1>11

\* Every step of the bank channel is a step of the promise, or shows nothing.
LEMMA StepKeepsPromise ==
    ASSUME IInv, [Next]_vars
    PROVE  Promise!Next \/ UNCHANGED <<Phase, Seller>>
<1> USE DEF IInv
<1>1. CASE UNCHANGED orders
  BY <1>1 DEF Phase, Seller, PhaseOf, SellerOf
<1>2. CASE \E c \in Carts, o \in Orders : CreateOrder(c, o)
  BY <1>2, CommitOpens, CreateView DEF Promise!Next
<1>3. CASE \E o \in Orders : CancelUserOrder(o) \/ AdminCancel(o)
  BY <1>3, CancelView DEF CancelUserOrder, AdminCancel, Promise!Next
<1>4. CASE ExpireStale \/ \E o \in Orders : TtlPasses(o)
  BY <1>4, QuietSteps
<1>5. CASE \E o \in Orders, a \in Amounts : AdminConfirm(o, a)
  BY <1>5, PriceAssumption, PaidView DEF AdminConfirm, Exists, Promise!Next
<1>6. CASE \E r \in Rows, o \in Orders : AttachTransaction(r, o)
  <2> PICK r \in Rows, o \in Orders : AttachTransaction(r, o)
    BY <1>6
  <2>1. ledger[r].amount \in Nat
    BY DEF OrderInv, CheckoutTypeOK, Row
  <2> QED BY <2>1, SettleView DEF AttachTransaction
<1>7. CASE \E t \in Transfers, c \in Channels : Apply(t, c)
  <2> PICK t \in Transfers, c \in Channels : Apply(t, c)
    BY <1>7
  <2>1. RowOf(t, c) \in Rows /\ bank[t].amount \in Nat
    BY BankAssumption DEF TypeOK, Transfer, RowOf, Channels
  <2>2. \/ UNCHANGED orders
        \/ /\ bank[t].target \in Orders
           /\ Settle(RowOf(t, c), bank[t].target, bank[t].amount, "matched")
    BY DEF Apply, RecordAlone
  <2> QED BY <1>1, <2>1, <2>2, SettleView
<1> QED BY <1>1, <1>2, <1>3, <1>4, <1>5, <1>6, <1>7
        DEF Next, BankNext, CheckoutNext, BeginCheckout, EndCheckout, BuyerPays, Receive,
            Fail, DismissTransaction, vars

\* The checkout implements its promise for any number of buyers, orders, transfers
\* and racing requests: an order is sold once and for good, money sells only an open
\* order, and what was called off or questioned is sold by an admin alone (settle).
THEOREM CheckoutKeepsPromise == Spec => KeepsPromise
<1>1. Init => Promise!Init
  <2> SUFFICES ASSUME Init
               PROVE  Promise!Init
    OBVIOUS
  <2>1. NoSuchOrder.status = "absent"
    BY DEF NoSuchOrder
  <2>2. \A o \in Orders : PhaseOf(orders[o]) = "absent" /\ SellerOf(orders[o]) = "nobody"
    BY <2>1, Shown DEF Init, CheckoutInit
  <2> QED BY <2>2 DEF Promise!Init, Phase, Seller
<1>2. IInv /\ [Next]_vars => [Promise!Next]_<<Phase, Seller>>
  BY StepKeepsPromise
<1> QED BY <1>1, <1>2, InductiveInvariant, PTL DEF Spec, KeepsPromise, Promise!Spec
=============================================================================
