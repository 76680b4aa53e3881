---------------------------- MODULE PaymentOrders ----------------------------
(***************************************************************************)
(* The payment orders of one account, and the callbacks by which a         *)
(* provider reports payments for them until it is acknowledged.  Sources:  *)
(* services/control-plane/src/database.ts, payments.ts and server.ts.      *)
(*                                                                         *)
(* A callback is a transaction of several statements that interleaves with *)
(* other callbacks; a crash or a lost connection rolls it back.  The       *)
(* unique indexes on payments, events and ledger keys, which would turn a  *)
(* second credit into an error, are left out: the locks and checks alone   *)
(* have to prevent it.                                                     *)
(***************************************************************************)
EXTENDS Naturals, Sequences

CONSTANTS
    Orders,         \* ids of orders
    OrderKeys,      \* idempotency keys of the requests that create them
    Amounts,        \* amounts in cents
    Channels,       \* wechat, alipay
    Payments,       \* the provider's payment ids
    Events,         \* the provider's event ids
    Callbacks,      \* callbacks the server works on at once
    NoValue,
    MaxLosses       \* bound on lost replies and broken transactions

ASSUME PaymentAssumption == NoValue \notin Orders \cup Payments \cup Events

VARIABLES
    orders,         \* cod_payment_orders
    credits,        \* order -> amounts its ledger entries credited to the wallet
    report,         \* event -> the payment it reports, as verified
    acknowledged,   \* events the provider knows to be accepted
    callback,       \* callback -> where its transaction is
    losses          \* replies lost and transactions broken so far

paymentVars == <<orders, credits, report, acknowledged, callback, losses>>

-----------------------------------------------------------------------------
NoRow == [status |-> "none", key |-> NoValue, amount |-> 0, channel |-> NoValue,
          payment |-> NoValue, event |-> NoValue]

\* PaymentCompletion, what is left of a callback once it is verified.
NoReport == [order |-> NoValue, payment |-> NoValue, amount |-> 0, channel |-> NoValue]

Idle == [at |-> "idle", event |-> NoValue, outcome |-> "none"]

PaymentInit ==
    /\ orders = [o \in Orders |-> NoRow]
    /\ credits = [o \in Orders |-> <<>>]
    /\ report = [e \in Events |-> NoReport]
    /\ acknowledged = {}
    /\ callback = [c \in Callbacks |-> Idle]
    /\ losses = 0

Created == {o \in Orders : orders[o] # NoRow}
Reported == {e \in Events : report[e] # NoReport}

\* createPaymentOrder: a key used before creates nothing.
KeyFree(k) == \A x \in Created : orders[x].key # k

NewOrder(k, amount, channel) ==
    [NoRow EXCEPT !.status = "pending", !.key = k, !.amount = amount, !.channel = channel]

\* The order is committed before its checkout is created, and stays when the
\* provider then refuses.
CreateOrder(o, k, amount, channel) ==
    /\ o \notin Created /\ KeyFree(k)
    /\ orders' = [orders EXCEPT ![o] = NewOrder(k, amount, channel)]
    /\ UNCHANGED <<credits, report, acknowledged, callback, losses>>

\* createCheckout: what the payer is asked for goes through the channel of the
\* order, under its id.
Checkout(o) == [NoReport EXCEPT !.order = o, !.channel = orders[o].channel]

\* verifyWechatNotification and verifyAlipayNotification: a payment captured for a
\* checkout.  The amount is the provider's.
Captured(o, p, amount) == [Checkout(o) EXCEPT !.payment = p, !.amount = amount]

\* The provider captured a payment.  It reports one payment by several events
\* (Alipay when it succeeds and when it is final), always with its amount; a relay
\* may name another order than before, or the payer may have paid another amount.
ReportPayment(e, p, o, amount) ==
    /\ e \notin Reported /\ o \in Created
    /\ \A x \in Reported : report[x].payment = p =>
          report[x].amount = amount /\ report[x].channel = Checkout(o).channel
    /\ report' = [report EXCEPT ![e] = Captured(o, p, amount)]
    /\ UNCHANGED <<orders, credits, acknowledged, callback, losses>>

\* An unacknowledged event is delivered again, also while it is being handled.
Deliver(c, e) ==
    /\ callback[c] = Idle
    /\ e \in Reported \ acknowledged
    /\ callback' = [callback EXCEPT ![c] = [at |-> "begun", event |-> e, outcome |-> "none"]]
    /\ UNCHANGED <<orders, credits, report, acknowledged, losses>>

-----------------------------------------------------------------------------
(* completePaymentOrder *)

ReportOf(c) == report[callback[c].event]

\* The callbacks other than c whose transaction has reached a lock.
Beyond(c, places) == {d \in Callbacks \ {c} : callback[d].at \in places}

\* Two advisory locks for the transaction: one of the event, one of the payment.
LockPayment(c) ==
    /\ callback[c].at = "begun"
    /\ \A d \in Beyond(c, {"locked", "decided"}) :
          callback[d].event # callback[c].event /\ ReportOf(d).payment # ReportOf(c).payment
    /\ callback' = [callback EXCEPT ![c].at = "locked"]
    /\ UNCHANGED <<orders, credits, report, acknowledged, losses>>

Matches(row, r) == row.amount = r.amount /\ row.channel = r.channel

\* Another order has the event or the payment.
Reused(e) ==
    \E x \in Created \ {report[e].order} :
        orders[x].event = e \/ orders[x].payment = report[e].payment

\* Mutation of Bound: a paid order is recognized by its event.
BoundEvent(row, e) == row.event = e

Bound(row, e) == row.payment = report[e].payment

\* The checks: a payment already credited is accepted again, with the same event or
\* another, and nothing else of a paid order is.
Verdict(e) ==
    LET row == orders[report[e].order]
        accepted == /\ Matches(row, report[e]) /\ ~Reused(e)
                    /\ row.status = "paid" => Bound(row, e)
    IN IF ~accepted THEN "refused" ELSE IF row.status = "paid" THEN "known" ELSE "credited"

\* Mutation of RowFree: the row is read without FOR UPDATE.
RowAlwaysFree(c) == TRUE

RowFree(c) == \A d \in Beyond(c, {"decided"}) : ReportOf(d).order # ReportOf(c).order

\* SELECT ... FOR UPDATE, then the checks.
LockOrder(c) ==
    /\ callback[c].at = "locked"
    /\ RowFree(c)
    /\ callback' = [callback EXCEPT ![c] = [@ EXCEPT !.at = "decided",
                                                     !.outcome = Verdict(callback[c].event)]]
    /\ UNCHANGED <<orders, credits, report, acknowledged, losses>>

\* The ledger entry, the balance and the order change together at the commit.
CompletePayment(o, e) ==
    /\ credits' = [credits EXCEPT ![o] = Append(@, orders[o].amount)]
    /\ orders' = [orders EXCEPT ![o] = [@ EXCEPT !.status = "paid",
                                                 !.payment = report[e].payment, !.event = e]]

\* The commit and its reply: 200, which the provider may not get, or 409.
CommitCallback(c) ==
    /\ callback[c].at = "decided"
    /\ IF callback[c].outcome = "credited"
       THEN CompletePayment(ReportOf(c).order, callback[c].event)
       ELSE UNCHANGED <<orders, credits>>
    /\ callback' = [callback EXCEPT ![c] = Idle]
    /\ \/ /\ acknowledged' = IF callback[c].outcome = "refused" THEN acknowledged
                             ELSE acknowledged \cup {callback[c].event}
          /\ UNCHANGED losses
       \/ losses < MaxLosses /\ losses' = losses + 1 /\ UNCHANGED acknowledged
    /\ UNCHANGED report

\* A crash or a lost connection before the commit.
RollBack(c) ==
    /\ callback[c] # Idle /\ losses < MaxLosses
    /\ callback' = [callback EXCEPT ![c] = Idle]
    /\ losses' = losses + 1
    /\ UNCHANGED <<orders, credits, report, acknowledged>>

HandleCallback(c) == LockPayment(c) \/ LockOrder(c) \/ CommitCallback(c)

PaymentNext ==
    \/ \E o \in Orders, k \in OrderKeys, a \in Amounts, ch \in Channels : CreateOrder(o, k, a, ch)
    \/ \E e \in Events, p \in Payments, o \in Orders, a \in Amounts : ReportPayment(e, p, o, a)
    \/ \E c \in Callbacks, e \in Events : Deliver(c, e)
    \/ \E c \in Callbacks : HandleCallback(c) \/ RollBack(c)

PaymentSpec == PaymentInit /\ [][PaymentNext]_paymentVars

\* A provider delivers an event until it is accepted, and the server goes on with
\* each callback that it has taken up.
PaymentFairness ==
    /\ \A e \in Events : SF_paymentVars(\E c \in Callbacks : Deliver(c, e))
    /\ \A c \in Callbacks : WF_paymentVars(HandleCallback(c))

-----------------------------------------------------------------------------
\* The wallet is credited exactly once for each paid order, with what a payment
\* reported for it captured; no payment pays two orders; and what the provider was
\* told is accepted is the payment of its order.
PaidIsCaptured ==
    /\ \A o \in Orders :
          /\ credits[o] = IF orders[o].status = "paid" THEN <<orders[o].amount>> ELSE <<>>
          /\ orders[o].status = "paid" =>
                \E e \in Reported : /\ report[e].order = o /\ report[e].payment = orders[o].payment
                                    /\ report[e].amount = orders[o].amount
    /\ \A o, x \in Created : orders[o].payment = orders[x].payment => o = x \/ orders[o].payment = NoValue
    /\ \A e \in acknowledged : orders[report[e].order].payment = report[e].payment

\* Nothing the code refuses for good: the report fits its order, no other payment
\* paid that order, and this payment paid no other.
Due(e) == e \in Reported \ acknowledged /\ Matches(orders[report[e].order], report[e])
Settled(e) ==
    \/ e \in acknowledged
    \/ \E o \in Orders : o = report[e].order /\ orders[o].payment \notin {NoValue, report[e].payment}
    \/ \E x \in Orders : x # report[e].order /\ orders[x].payment = report[e].payment

\* Whichever replies are lost and transactions broken, the provider does not have
\* to report a payment for ever: in the end it is credited and acknowledged,
\* unless the order was paid otherwise.
CapturesSettle == \A e \in Events : Due(e) ~> Settled(e)

=============================================================================
