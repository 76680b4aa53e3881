---------------------------- MODULE StoresProofs ----------------------------
(***************************************************************************)
(* Theorems about the tables of the control plane that share no row:       *)
(* payment orders, the task board, compute requests with their             *)
(* administrator's window and hosting, about the upgrade of an earlier     *)
(* release's tables, about what a chat completion costs, and about what a  *)
(* window of the desktop does with its agent, for any orders, events,      *)
(* callbacks, callers, forms, filters, drafts, servers, earlier entries,   *)
(* price lists, answers, prompts, tools, projects and clients.             *)
(***************************************************************************)
EXTENDS PaymentOrders, ReviewedWork, ModelGateway, RequestDesk, Upgrade, WindowWork, SumTheorems,
        SequenceTheorems, TLAPS

-----------------------------------------------------------------------------
(* Payment orders *)

Order == [status : {"none", "pending", "paid"}, key : OrderKeys \cup {NoValue},
          amount : Amounts \cup {0}, channel : Channels \cup {NoValue},
          payment : Payments \cup {NoValue}, event : Events \cup {NoValue}]

Report == [order : Orders \cup {NoValue}, payment : Payments \cup {NoValue},
           amount : Amounts \cup {0}, channel : Channels \cup {NoValue}]

Transaction == [at : {"idle", "begun", "locked", "decided"}, event : Events \cup {NoValue},
                outcome : {"none", "credited", "known", "refused"}]

PaymentTypeOK ==
    /\ orders \in [Orders -> Order]
    /\ credits \in [Orders -> Seq(Amounts \cup {0})]
    /\ report \in [Events -> Report]
    /\ acknowledged \subseteq Reported
    /\ callback \in [Callbacks -> Transaction]

\* A row names a payment and an event, and has a credit, once it is paid.
RowsOK ==
    \A o \in Orders :
        /\ orders[o].status = "none" => orders[o] = NoRow
        /\ orders[o].status # "paid" => orders[o].payment = NoValue /\ orders[o].event = NoValue
        /\ orders[o].status = "paid" => orders[o].payment \in Payments /\ orders[o].event \in Events

\* What was reported is a payment for an order.
ReportsOK ==
    \A e \in Reported : report[e].order \in Created /\ report[e].payment \in Payments

\* A callback at work has an event; one that may credit its order has found it
\* unpaid, as it still is, and its payment unused.
DecisionsOK ==
    \A c \in Callbacks :
        /\ callback[c].at = "idle" => callback[c] = Idle
        /\ callback[c].at # "idle" => callback[c].event \in Reported
        /\ callback[c].at = "decided" => callback[c].outcome # "none"
        /\ callback[c].at = "decided" /\ callback[c].outcome = "credited" =>
              /\ orders[ReportOf(c).order].status = "pending"
              /\ Matches(orders[ReportOf(c).order], ReportOf(c))
              /\ ~Reused(callback[c].event)
        /\ callback[c].at = "decided" /\ callback[c].outcome = "known" =>
              orders[ReportOf(c).order].payment = ReportOf(c).payment

\* The locks: no two transactions hold the same event, payment or order.
LocksOK ==
    \A c, d \in Callbacks : c # d =>
        /\ callback[c].at \in {"locked", "decided"} /\ callback[d].at \in {"locked", "decided"} =>
              callback[c].event # callback[d].event /\ ReportOf(c).payment # ReportOf(d).payment
        /\ callback[c].at = "decided" /\ callback[d].at = "decided" =>
              ReportOf(c).order # ReportOf(d).order

PaymentInv == PaymentTypeOK /\ RowsOK /\ ReportsOK /\ DecisionsOK /\ LocksOK /\ PaidIsCaptured

LEMMA PaymentInitInv == PaymentInit => PaymentInv
<1>. SUFFICES ASSUME PaymentInit PROVE PaymentInv
  OBVIOUS
<1>1. \A o \in Orders : orders[o] = NoRow /\ credits[o] = <<>>
  BY DEF PaymentInit
<1>2. \A e \in Events : report[e] = NoReport
  BY DEF PaymentInit
<1>3. Reported = {} /\ Created = {} /\ acknowledged = {}
  BY <1>1, <1>2 DEF Reported, Created, PaymentInit
<1>4. \A c \in Callbacks : callback[c] = Idle /\ callback[c].at = "idle"
  BY DEF PaymentInit, Idle
<1>5. PaymentTypeOK
  BY <1>3 DEF PaymentTypeOK, PaymentInit, Order, Report, Transaction, NoRow, NoReport, Idle
<1>6. RowsOK
  <2>1. NoRow.status = "none" /\ NoRow.payment = NoValue /\ NoRow.event = NoValue
    BY DEF NoRow
  <2>. QED BY <1>1, <2>1 DEF RowsOK
<1>7. PaidIsCaptured
  BY <1>1, <1>3 DEF PaidIsCaptured, NoRow
<1>. QED
  BY <1>3, <1>4, <1>5, <1>6, <1>7 DEF PaymentInv, ReportsOK, DecisionsOK, LocksOK

\* A new order has no payment, and no callback is about it yet.
LEMMA CreateOrderInv ==
    ASSUME PaymentInv, NEW o \in Orders, NEW k \in OrderKeys, NEW a \in Amounts,
           NEW ch \in Channels, CreateOrder(o, k, a, ch)
    PROVE  PaymentInv'
<1>. DEFINE row == NewOrder(k, a, ch)
<1>1. /\ orders' = [orders EXCEPT ![o] = row] /\ credits' = credits /\ report' = report
      /\ acknowledged' = acknowledged /\ callback' = callback /\ orders[o] = NoRow
  BY DEF CreateOrder, Created
<1>2. /\ row \in Order /\ row.status = "pending" /\ row.payment = NoValue
      /\ row.event = NoValue
  BY DEF NewOrder, NoRow, Order
<1>. HIDE DEF row
<1>3. /\ orders \in [Orders -> Order] /\ callback \in [Callbacks -> Transaction]
      /\ report \in [Events -> Report]
  BY DEF PaymentInv, PaymentTypeOK
<1>4. /\ orders' \in [Orders -> Order] /\ orders'[o] = row
      /\ \A x \in Orders \ {o} : orders'[x] = orders[x]
  BY <1>1, <1>2, <1>3
<1>5. o \notin Created /\ Created' = Created \cup {o} /\ Reported' = Reported
  BY <1>1, <1>2, <1>4 DEF Created, Reported, NoRow
<1>6. \A e \in Reported : report[e].order \in Created /\ report[e].order # o
  BY <1>5 DEF PaymentInv, ReportsOK
<1>7. PaymentTypeOK' /\ RowsOK' /\ ReportsOK'
  BY <1>1, <1>2, <1>4, <1>5, <1>6 DEF PaymentInv, PaymentTypeOK, RowsOK, ReportsOK
<1>8. \A c \in Callbacks : ReportOf(c)' = ReportOf(c)
  BY <1>1 DEF ReportOf
<1>9. \A e \in Reported : Reused(e)' => Reused(e)
  BY <1>1, <1>2, <1>4, <1>5, <1>6, PaymentAssumption
     DEF Reused, PaymentInv, ReportsOK, Reported
<1>10. DecisionsOK'
  BY <1>1, <1>4, <1>6, <1>8, <1>9, <1>5, SMTT(30) DEF PaymentInv, DecisionsOK, Matches, ReportOf, Created
<1>11. LocksOK'
  BY <1>1, <1>8 DEF PaymentInv, LocksOK
<1>12. PaidIsCaptured'
  BY <1>1, <1>2, <1>4, <1>5, <1>6 DEF PaymentInv, PaymentTypeOK, PaidIsCaptured, RowsOK, Created, NoRow
<1>. QED
  BY <1>7, <1>10, <1>11, <1>12 DEF PaymentInv

\* What has been reported stays as it is when a new event reports a payment.
LEMMA ReportPaymentInv ==
    ASSUME PaymentInv, NEW e \in Events, NEW p \in Payments, NEW o \in Orders,
           NEW a \in Amounts, ReportPayment(e, p, o, a)
    PROVE  PaymentInv'
<1>. DEFINE new == Captured(o, p, a)
<1>1. /\ report' = [report EXCEPT ![e] = new] /\ orders' = orders /\ credits' = credits
      /\ acknowledged' = acknowledged /\ callback' = callback
      /\ e \notin Reported /\ o \in Created
  BY DEF ReportPayment
<1>2. /\ orders \in [Orders -> Order] /\ callback \in [Callbacks -> Transaction]
      /\ report \in [Events -> Report]
  BY DEF PaymentInv, PaymentTypeOK
<1>3. new \in Report /\ new.order = o /\ new.payment = p
  BY <1>2 DEF Captured, Checkout, NoReport, Report, Order
<1>4. new # NoReport
  BY <1>3, PaymentAssumption DEF NoReport
<1>. HIDE DEF new
<1>5. /\ report' \in [Events -> Report] /\ report'[e] = new
      /\ \A x \in Events \ {e} : report'[x] = report[x]
  BY <1>1, <1>2, <1>3
<1>6. Reported' = Reported \cup {e} /\ Created' = Created
  BY <1>1, <1>4, <1>5 DEF Created, Reported
<1>7. \A x \in Reported : x # e /\ report'[x] = report[x]
  BY <1>1, <1>5 DEF Reported
<1>8. PaymentTypeOK' /\ RowsOK' /\ ReportsOK'
  BY <1>1, <1>3, <1>5, <1>6, <1>7 DEF PaymentInv, PaymentTypeOK, RowsOK, ReportsOK
<1>9. \A c \in Callbacks : callback[c].at # "idle" => ReportOf(c)' = ReportOf(c)
  BY <1>1, <1>7 DEF ReportOf, PaymentInv, DecisionsOK
<1>10. \A x \in Reported : Reused(x)' = Reused(x)
  BY <1>1, <1>6, <1>7 DEF Reused
<1>11. DecisionsOK'
  BY <1>1, <1>6, <1>9, <1>10 DEF PaymentInv, DecisionsOK, Matches
<1>12. LocksOK'
  BY <1>1, <1>9 DEF PaymentInv, LocksOK
<1>13. PaidIsCaptured'
  BY <1>1, <1>6, <1>7 DEF PaymentInv, PaymentTypeOK, PaidIsCaptured
<1>. QED
  BY <1>8, <1>11, <1>12, <1>13 DEF PaymentInv

\* A step that moves one callback and nothing else but what the provider knows.
LEMMA CallbackMoves ==
    ASSUME PaymentInv, NEW c \in Callbacks, NEW t \in Transaction,
           callback' = [callback EXCEPT ![c] = t],
           orders' = orders, credits' = credits, report' = report,
           acknowledged' = acknowledged,
           DecisionsOK', LocksOK'
    PROVE  PaymentInv'
<1>1. Reported' = Reported /\ Created' = Created
  BY DEF Created, Reported
<1>2. PaymentTypeOK' /\ RowsOK' /\ ReportsOK'
  BY <1>1 DEF PaymentInv, PaymentTypeOK, RowsOK, ReportsOK
<1>3. PaidIsCaptured'
  BY <1>1 DEF PaymentInv, PaidIsCaptured
<1>. QED
  BY <1>2, <1>3 DEF PaymentInv

LEMMA DeliverInv ==
    ASSUME PaymentInv, NEW c \in Callbacks, NEW e \in Events, Deliver(c, e)
    PROVE  PaymentInv'
<1>. DEFINE t == [at |-> "begun", event |-> e, outcome |-> "none"]
<1>1. /\ t \in Transaction /\ t.at = "begun" /\ t.event = e /\ e \in Reported
      /\ callback' = [callback EXCEPT ![c] = t]
      /\ orders' = orders /\ credits' = credits /\ report' = report
      /\ acknowledged' = acknowledged
  BY DEF Deliver, Transaction
<1>. HIDE DEF t
<1>2. /\ callback'[c] = t /\ \A d \in Callbacks \ {c} : callback'[d] = callback[d]
      /\ Reported' = Reported /\ Created' = Created
  BY <1>1 DEF PaymentInv, PaymentTypeOK, Reported, Created
<1>3. \A d \in Callbacks \ {c} : ReportOf(d)' = ReportOf(d)
  BY <1>1, <1>2 DEF ReportOf
<1>4. \A x : Reused(x)' = Reused(x)
  BY <1>1, <1>2 DEF Reused
<1>5. DecisionsOK'
  BY <1>1, <1>2, <1>3, <1>4 DEF PaymentInv, DecisionsOK, Matches
<1>6. LocksOK'
  BY <1>1, <1>2, <1>3 DEF PaymentInv, LocksOK
<1>. QED
  BY <1>1, <1>5, <1>6, CallbackMoves

LEMMA LockPaymentInv ==
    ASSUME PaymentInv, NEW c \in Callbacks, LockPayment(c)
    PROVE  PaymentInv'
<1>. DEFINE t == [callback[c] EXCEPT !.at = "locked"]
<1>0. callback[c] \in Transaction /\ callback[c].at = "begun"
  BY DEF PaymentInv, PaymentTypeOK, LockPayment
<1>1. /\ t \in Transaction /\ t.at = "locked" /\ t.event = callback[c].event
      /\ callback' = [callback EXCEPT ![c] = t]
      /\ orders' = orders /\ credits' = credits /\ report' = report
      /\ acknowledged' = acknowledged
  BY <1>0 DEF LockPayment, Transaction
<1>. HIDE DEF t
<1>2. /\ callback'[c] = t /\ \A d \in Callbacks \ {c} : callback'[d] = callback[d]
      /\ Reported' = Reported /\ Created' = Created
  BY <1>1 DEF PaymentInv, PaymentTypeOK, Reported, Created
<1>3. \A d \in Callbacks : ReportOf(d)' = ReportOf(d)
  BY <1>1, <1>2 DEF ReportOf
<1>4. \A x : Reused(x)' = Reused(x)
  BY <1>1, <1>2 DEF Reused
<1>5. DecisionsOK'
  BY <1>0, <1>1, <1>2, <1>3, <1>4 DEF PaymentInv, DecisionsOK, Matches
<1>6. \A d \in Callbacks \ {c} : callback[d].at \in {"locked", "decided"} =>
         callback[d].event # callback[c].event /\ ReportOf(d).payment # ReportOf(c).payment
  BY DEF LockPayment, Beyond
<1>7. LocksOK'
  BY <1>1, <1>2, <1>3, <1>6 DEF PaymentInv, LocksOK
<1>. QED
  BY <1>1, <1>5, <1>7, CallbackMoves

\* What the checks establish of the locked row, by their order.
LEMMA VerdictMeans ==
    ASSUME PaymentInv, NEW e \in Reported
    PROVE  /\ Verdict(e) \in {"refused", "known", "credited"}
           /\ Verdict(e) = "credited" =>
                 /\ orders[report[e].order].status = "pending"
                 /\ Matches(orders[report[e].order], report[e])
                 /\ ~Reused(e)
           /\ Verdict(e) = "known" => orders[report[e].order].payment = report[e].payment
<1>. DEFINE row == orders[report[e].order]
<1>1. row.status \in {"pending", "paid"}
  BY DEF PaymentInv, PaymentTypeOK, ReportsOK, RowsOK, Created, Order
<1>. QED
  BY <1>1 DEF Verdict, Bound

LEMMA LockOrderInv ==
    ASSUME PaymentInv, NEW c \in Callbacks, LockOrder(c)
    PROVE  PaymentInv'
<1>. DEFINE verdict == Verdict(callback[c].event)
            t == [callback[c] EXCEPT !.at = "decided", !.outcome = verdict]
<1>0. /\ callback[c] \in Transaction /\ callback[c].at = "locked"
      /\ callback[c].event \in Reported
  BY DEF PaymentInv, PaymentTypeOK, DecisionsOK, LockOrder
<1>1. /\ verdict \in {"refused", "known", "credited"}
      /\ verdict = "credited" =>
            /\ orders[ReportOf(c).order].status = "pending"
            /\ Matches(orders[ReportOf(c).order], ReportOf(c))
            /\ ~Reused(callback[c].event)
      /\ verdict = "known" => orders[ReportOf(c).order].payment = ReportOf(c).payment
  BY <1>0, VerdictMeans DEF ReportOf
<1>. HIDE DEF verdict
<1>2. /\ t \in Transaction /\ t.at = "decided" /\ t.event = callback[c].event
      /\ t.outcome = verdict
  BY <1>0, <1>1 DEF Transaction
<1>3. /\ callback' = [callback EXCEPT ![c] = t]
      /\ orders' = orders /\ credits' = credits /\ report' = report
      /\ acknowledged' = acknowledged
  BY DEF LockOrder, verdict
<1>. HIDE DEF t
<1>4. /\ callback'[c] = t /\ \A d \in Callbacks \ {c} : callback'[d] = callback[d]
      /\ Reported' = Reported /\ Created' = Created
  BY <1>3 DEF PaymentInv, PaymentTypeOK, Reported, Created
<1>5. \A d \in Callbacks : ReportOf(d)' = ReportOf(d)
  BY <1>2, <1>3, <1>4 DEF ReportOf
<1>6. \A x : Reused(x)' = Reused(x)
  BY <1>3, <1>4 DEF Reused
<1>7. DecisionsOK'
  BY <1>0, <1>1, <1>2, <1>3, <1>4, <1>5, <1>6 DEF PaymentInv, DecisionsOK, Matches
<1>8. \A d \in Callbacks \ {c} : callback[d].at = "decided" => ReportOf(d).order # ReportOf(c).order
  BY DEF LockOrder, RowFree, Beyond
<1>9. LocksOK'
  BY <1>0, <1>2, <1>4, <1>5, <1>8 DEF PaymentInv, LocksOK
<1>. QED
  BY <1>2, <1>3, <1>7, <1>9, CallbackMoves

\* The commit of a credit: the order was unpaid and the payment unused, and every
\* other transaction that has decided is about another order and payment.
LEMMA CreditInv ==
    ASSUME PaymentInv, NEW c \in Callbacks, callback[c].at = "decided",
           callback[c].outcome = "credited", CommitCallback(c)
    PROVE  PaymentInv'
<1>. DEFINE o == ReportOf(c).order
            e == callback[c].event
            row == [orders[o] EXCEPT !.status = "paid", !.payment = report[e].payment, !.event = e]
<1>1. /\ orders \in [Orders -> Order] /\ callback \in [Callbacks -> Transaction]
      /\ report \in [Events -> Report] /\ acknowledged \subseteq Reported
      /\ credits \in [Orders -> Seq(Amounts \cup {0})]
      /\ e \in Reported /\ e \in Events /\ ReportOf(c) = report[e]
      /\ o \in Created /\ o \in Orders /\ report[e].payment \in Payments
  BY DEF PaymentInv, PaymentTypeOK, DecisionsOK, ReportsOK, ReportOf, Reported, Created
<1>2. /\ orders[o].status = "pending" /\ orders[o].amount = report[e].amount
      /\ orders[o].channel = report[e].channel /\ ~Reused(e)
      /\ orders[o].payment = NoValue /\ orders[o].event = NoValue /\ credits[o] = <<>>
      /\ orders[o].amount \in Amounts \cup {0}
  BY <1>1 DEF PaymentInv, DecisionsOK, RowsOK, Matches, PaidIsCaptured, Order
<1>3. /\ orders' = [orders EXCEPT ![o] = row]
      /\ credits' = [credits EXCEPT ![o] = Append(@, orders[o].amount)]
      /\ callback' = [callback EXCEPT ![c] = Idle] /\ report' = report
      /\ acknowledged' \subseteq acknowledged \cup {e}
  BY <1>1 DEF CommitCallback, CompletePayment
<1>4. /\ row \in Order /\ row.status = "paid" /\ row.payment = report[e].payment
      /\ row.event = e /\ row.amount = orders[o].amount /\ row.channel = orders[o].channel
  BY <1>1, ZenonT(30) DEF Order
<1>. HIDE DEF row, o, e
<1>5. /\ orders' \in [Orders -> Order] /\ orders'[o] = row
      /\ \A x \in Orders \ {o} : orders'[x] = orders[x]
      /\ callback'[c] = Idle /\ \A d \in Callbacks \ {c} : callback'[d] = callback[d]
      /\ callback' \in [Callbacks -> Transaction]
  BY <1>1, <1>3, <1>4 DEF Transaction, Idle
<1>6. /\ credits' \in [Orders -> Seq(Amounts \cup {0})] /\ credits'[o] = <<orders[o].amount>>
      /\ \A x \in Orders \ {o} : credits'[x] = credits[x]
  BY <1>1, <1>2, <1>3
<1>7. Reported' = Reported /\ Created' = Created
  BY <1>1, <1>2, <1>3, <1>4, <1>5 DEF Created, Reported, NoRow
<1>8. PaymentTypeOK' /\ RowsOK' /\ ReportsOK'
  BY <1>1, <1>3, <1>4, <1>5, <1>6, <1>7 DEF PaymentInv, PaymentTypeOK, RowsOK, ReportsOK
<1>9. \A d \in Callbacks \ {c} : ReportOf(d)' = ReportOf(d)
  BY <1>3, <1>5 DEF ReportOf
<1>10. ASSUME NEW d \in Callbacks \ {c}, callback[d].at = "decided"
       PROVE  /\ ReportOf(d).order # o /\ ReportOf(d).payment # report[e].payment
              /\ callback[d].event # e /\ callback[d].event \in Reported
              /\ ReportOf(d).order \in Created
  BY <1>1, <1>10 DEF PaymentInv, LocksOK, DecisionsOK, ReportsOK, o, e, ReportOf
<1>11. ASSUME NEW d \in Callbacks \ {c}, callback[d].at = "decided", ~Reused(callback[d].event)
       PROVE  ~Reused(callback[d].event)'
  BY <1>3, <1>4, <1>5, <1>7, <1>10, <1>11 DEF Reused, ReportOf, Created
<1>12. DecisionsOK'
  <2>1. Idle.at = "idle"
    BY DEF Idle
  <2>2. ASSUME NEW d \in Callbacks \ {c}, callback[d].at = "decided"
        PROVE  orders'[ReportOf(d).order] = orders[ReportOf(d).order]
    BY <1>5, <1>10, <2>2 DEF Created
  <2>. QED
    BY <1>3, <1>5, <1>7, <1>9, <1>11, <2>1, <2>2 DEF PaymentInv, DecisionsOK, Matches
<1>13. LocksOK'
  BY <1>5, <1>9 DEF PaymentInv, LocksOK, Idle
<1>14. \A x \in Created \ {o} : orders[x].payment # report[e].payment
  BY <1>2, <1>1 DEF Reused, o, e
<1>15. PaidIsCaptured'
  <2>1. ASSUME NEW x \in Orders
        PROVE  /\ credits'[x] = IF orders'[x].status = "paid" THEN <<orders'[x].amount>> ELSE <<>>
               /\ orders'[x].status = "paid" =>
                    \E v \in Reported' : /\ report'[v].order = x
                                         /\ report'[v].payment = orders'[x].payment
                                         /\ report'[v].amount = orders'[x].amount
    <3>1. CASE x = o
      <4>1. credits'[x] = <<orders'[x].amount>>
        BY <1>4, <1>5, <1>6, <3>1
      <4>2. report[e].order = o
        BY <1>1 DEF o, e
      <4>3. /\ orders'[x].status = "paid" /\ orders'[x].payment = report'[e].payment
            /\ orders'[x].amount = report'[e].amount /\ report'[e].order = x /\ e \in Reported'
        BY <1>1, <1>2, <1>3, <1>4, <1>5, <1>7, <3>1, <4>2
      <4>. QED BY <4>1, <4>3
    <3>2. CASE x # o
      BY <1>3, <1>5, <1>6, <1>7, <3>2 DEF PaymentInv, PaidIsCaptured
    <3>. QED BY <3>1, <3>2
  <2>2. \A x, y \in Created' : orders'[x].payment = orders'[y].payment =>
           x = y \/ orders'[x].payment = NoValue
    BY <1>4, <1>5, <1>7, <1>14 DEF PaymentInv, PaidIsCaptured, Created
  <2>3. \A v \in acknowledged' : orders'[report'[v].order].payment = report'[v].payment
    <3>1. ASSUME NEW v \in acknowledged
          PROVE  report[v].order \in Created \ {o}
      BY <1>1, <1>2, <3>1, PaymentAssumption DEF PaymentInv, PaidIsCaptured, ReportsOK, Created, Reported
    <3>2. report[e].order = o
      BY <1>1 DEF o, e
    <3>. QED BY <1>3, <1>4, <1>5, <3>1, <3>2 DEF PaymentInv, PaidIsCaptured, Created
  <2>. QED BY <2>1, <2>2, <2>3 DEF PaidIsCaptured
<1>. QED
  BY <1>8, <1>12, <1>13, <1>15 DEF PaymentInv

\* A callback that ends without a credit, committed or rolled back: at most it
\* has an event acknowledged whose payment the order has.
LEMMA CallbackEnds ==
    ASSUME PaymentInv, NEW c \in Callbacks, callback' = [callback EXCEPT ![c] = Idle],
           orders' = orders, credits' = credits, report' = report,
           \/ acknowledged' = acknowledged
           \/ /\ callback[c].at = "decided" /\ callback[c].outcome = "known"
              /\ acknowledged' = acknowledged \cup {callback[c].event}
    PROVE  PaymentInv'
<1>1. /\ callback'[c] = Idle /\ \A d \in Callbacks \ {c} : callback'[d] = callback[d]
      /\ callback' \in [Callbacks -> Transaction] /\ Idle.at = "idle"
      /\ Reported' = Reported /\ Created' = Created
  BY DEF PaymentInv, PaymentTypeOK, Reported, Created, Transaction, Idle
<1>2. \A d \in Callbacks \ {c} : ReportOf(d)' = ReportOf(d)
  BY <1>1 DEF ReportOf
<1>3. \A x : Reused(x)' = Reused(x)
  BY <1>1 DEF Reused
<1>4. DecisionsOK'
  BY <1>1, <1>2, <1>3 DEF PaymentInv, DecisionsOK, Matches
<1>5. LocksOK'
  BY <1>1, <1>2 DEF PaymentInv, LocksOK
<1>6. \A v \in acknowledged' :
        v \in Reported /\ orders[report[v].order].payment = report[v].payment
  BY DEF PaymentInv, PaymentTypeOK, PaidIsCaptured, DecisionsOK, ReportOf
<1>7. PaymentTypeOK' /\ RowsOK' /\ ReportsOK' /\ PaidIsCaptured'
  BY <1>1, <1>6 DEF PaymentInv, PaymentTypeOK, RowsOK, ReportsOK, PaidIsCaptured
<1>. QED
  BY <1>4, <1>5, <1>7 DEF PaymentInv

LEMMA CommitCallbackInv ==
    ASSUME PaymentInv, NEW c \in Callbacks, CommitCallback(c)
    PROVE  PaymentInv'
<1>1. /\ callback[c].at = "decided" /\ callback[c].outcome # "none"
      /\ callback[c] \in Transaction
  BY DEF CommitCallback, PaymentInv, PaymentTypeOK, DecisionsOK
<1>2. CASE callback[c].outcome = "credited"
  BY <1>1, <1>2, CreditInv
<1>3. CASE callback[c].outcome = "refused"
  BY <1>3, CallbackEnds DEF CommitCallback
<1>4. CASE callback[c].outcome = "known"
  BY <1>4, CallbackEnds DEF CommitCallback
<1>. QED
  BY <1>1, <1>2, <1>3, <1>4 DEF Transaction

LEMMA PaymentStepInv == PaymentInv /\ [PaymentNext]_paymentVars => PaymentInv'
<1>. SUFFICES ASSUME PaymentInv, [PaymentNext]_paymentVars PROVE PaymentInv'
  OBVIOUS
<1>1. CASE \E o \in Orders, k \in OrderKeys, a \in Amounts, ch \in Channels : CreateOrder(o, k, a, ch)
  BY <1>1, CreateOrderInv
<1>2. CASE \E e \in Events, p \in Payments, o \in Orders, a \in Amounts : ReportPayment(e, p, o, a)
  BY <1>2, ReportPaymentInv
<1>3. CASE \E c \in Callbacks, e \in Events : Deliver(c, e)
  BY <1>3, DeliverInv
<1>4. ASSUME NEW c \in Callbacks, HandleCallback(c) PROVE PaymentInv'
  BY <1>4, LockPaymentInv, LockOrderInv, CommitCallbackInv DEF HandleCallback
<1>5. ASSUME NEW c \in Callbacks, RollBack(c) PROVE PaymentInv'
  BY <1>5, CallbackEnds DEF RollBack
<1>6. CASE UNCHANGED paymentVars
  BY <1>6, SMTT(30) DEF paymentVars, PaymentInv, PaymentTypeOK, RowsOK, ReportsOK, DecisionsOK, LocksOK,
     PaidIsCaptured, Reported, Created, ReportOf, Reused, Matches
<1>. QED
  BY <1>1, <1>2, <1>3, <1>4, <1>5, <1>6 DEF PaymentNext

\* The wallet is credited exactly once for each paid order, with what a reported
\* payment of it captured, however callbacks interleave, break and are repeated.
THEOREM PaymentsAreCaptured == PaymentSpec => []PaidIsCaptured
<1>1. PaymentInv => PaidIsCaptured
  BY DEF PaymentInv
<1>. QED
  BY <1>1, PaymentInitInv, PaymentStepInv, PTL DEF PaymentSpec

-----------------------------------------------------------------------------
(* The task board *)

BoardRow == [status : TaskStatuses, version : Nat, thread : Threads \cup {NoThread}, comments : Nat]

BoardTypeOK ==
    /\ board \in BoardRow
    /\ notes \in [Callers -> BoardRow]
    /\ NoThread \notin claims

\* What a caller has read is the row when the version is still the same, and a task
\* that has been worked on belongs to a thread that claimed it.
NotesOK ==
    /\ \A c \in Callers :
          /\ notes[c].version <= board.version
          /\ notes[c].version = board.version => notes[c] = board
    /\ board.thread \in claims \cup {NoThread}
    /\ board.status \in {"in_progress", "in_review", "blocked", "done"} => board.thread \in claims

BoardInv == BoardTypeOK /\ NotesOK /\ DoneAsReviewed

\* Where a task can go, and from where.
LEMMA TaskTransitions ==
    ASSUME NEW s \in TaskStatuses, NEW t \in transitions[s]
    PROVE  /\ t \in TaskStatuses /\ t # "todo" /\ s \notin {"done", "cancelled"}
           /\ t = "done" => s = "in_review"
           /\ t \in {"in_review", "blocked"} => s = "in_progress"
BY DEF TaskStatuses, transitions

LEMMA BoardInitInv == BoardInit => BoardInv
BY DEF BoardInit, BoardInv, BoardTypeOK, NotesOK, DoneAsReviewed, BoardRow, TaskStatuses, Callers

LEMMA CommentInv ==
    ASSUME BoardInv, NEW c \in Callers, addProjectTaskComment(CommentInput(c))
    PROVE  BoardInv'
<1>1. /\ board' = Commented /\ notes' = notes /\ reviewed' = reviewed /\ claims' = claims
  BY DEF addProjectTaskComment
<1>2. board \in BoardRow
  BY DEF BoardInv, BoardTypeOK
<1>3. /\ board' \in BoardRow /\ board'.version = board.version + 1 /\ board'.thread = board.thread
      /\ board'.status = board.status
  <2>1. board.version + 1 \in Nat /\ board.comments + 1 \in Nat
    BY <1>2 DEF BoardRow
  <2>. DEFINE v == board.version + 1
              n == board.comments + 1
  <2>2. board' = [board EXCEPT !.comments = n, !.version = v] /\ n \in Nat /\ v \in Nat
    BY <1>1, <2>1 DEF Commented
  <2>. HIDE DEF v, n
  <2>3. /\ board' \in BoardRow /\ board'.version = v /\ board'.thread = board.thread
        /\ board'.status = board.status
    BY ONLY <1>2, <2>2 DEF BoardRow
  <2>. QED BY <2>3 DEF v
<1>. QED
  BY <1>1, <1>2, <1>3 DEF BoardInv, BoardTypeOK, NotesOK, DoneAsReviewed, BoardRow

\* Who acts has read the row as it is.
LEMMA TransitionInv ==
    ASSUME BoardInv, NEW c \in Callers, NEW input \in TransitionInputs(c),
           transitionProjectTask(c, input)
    PROVE  BoardInv'
<1>. DEFINE owner == Owner(input.status, input.threadId)
<1>1. /\ input.status \in transitions[board.status] /\ input.threadId = c
      /\ notes[c] = board
      /\ input.status = "in_progress" => c # NoThread
  BY DEF transitionProjectTask, SameVersion, assertProjectTaskTransition, TransitionInputs,
     BoardInv, NotesOK
<1>2. board \in BoardRow /\ board.status \in TaskStatuses /\ c \in Threads \cup {NoThread}
  BY DEF BoardInv, BoardTypeOK, BoardRow, Callers
<1>3. /\ input.status \in TaskStatuses /\ board.status \notin {"done", "cancelled"}
      /\ input.status # "todo"
      /\ input.status = "done" => board.status = "in_review"
      /\ input.status \in {"in_review", "blocked"} => board.status = "in_progress"
  BY <1>1, <1>2, TaskTransitions
<1>4. /\ owner \in Threads \cup {NoThread}
      /\ board.thread # NoThread => owner = board.thread
      /\ input.status = "in_progress" => owner \in claims \cup {c}
      /\ input.status # "in_progress" => owner = board.thread
  BY <1>1, <1>2 DEF Owner, BoardRow, BoardInv, NotesOK
<1>. HIDE DEF owner
<1>5. /\ board' = [board EXCEPT !.status = input.status, !.version = board.version + 1,
                                !.thread = owner]
      /\ claims' = (IF input.status = "in_progress" THEN claims \cup {c} ELSE claims)
      /\ notes' = notes
  BY <1>1 DEF transitionProjectTask, owner
<1>6. /\ board' \in BoardRow /\ board'.version = board.version + 1 /\ board'.thread = owner
      /\ board'.status = input.status
  <2>. DEFINE v == board.version + 1
              to == input.status
  <2>1. /\ board' = [board EXCEPT !.status = to, !.version = v, !.thread = owner]
        /\ v \in Nat /\ to \in TaskStatuses
    BY <1>2, <1>3, <1>5 DEF BoardRow
  <2>. HIDE DEF v, to
  <2>2. /\ board' \in BoardRow /\ board'.version = v /\ board'.thread = owner
        /\ board'.status = to
    BY ONLY <2>1, <1>2, <1>4 DEF BoardRow
  <2>. QED BY <2>2 DEF v, to
<1>10. input.status = "done" => reviewed'.status = board.status /\ reviewed'.unread = 0
  BY <1>1, <1>2 DEF transitionProjectTask, BoardRow
<1>7. BoardTypeOK'
  BY <1>1, <1>5, <1>6 DEF BoardInv, BoardTypeOK
<1>8. NotesOK'
  BY <1>2, <1>3, <1>4, <1>5, <1>6 DEF BoardInv, BoardTypeOK, NotesOK, BoardRow
<1>9. DoneAsReviewed'
  BY <1>3, <1>4, <1>5, <1>6, <1>8, <1>10 DEF BoardInv, DoneAsReviewed, NotesOK
<1>. QED
  BY <1>7, <1>8, <1>9 DEF BoardInv

LEMMA BoardStepInv == BoardInv /\ [BoardNext]_boardVars => BoardInv'
<1>. SUFFICES ASSUME BoardInv, [BoardNext]_boardVars PROVE BoardInv'
  OBVIOUS
<1>1. ASSUME NEW c \in Callers, ReadBoard(c) PROVE BoardInv'
  BY <1>1 DEF ReadBoard, BoardInv, BoardTypeOK, NotesOK, DoneAsReviewed, BoardRow
<1>2. CASE UNCHANGED boardVars
  BY <1>2 DEF boardVars, BoardInv, BoardTypeOK, NotesOK, DoneAsReviewed
<1>. QED
  BY <1>1, <1>2, CommentInv, TransitionInv DEF BoardNext

\* A task is only done by a review of the version with all its comments, and stays with
\* the thread that first claimed it, whoever writes the board after having read an
\* earlier version of it.
THEOREM TasksAreReviewed == BoardSpec => []DoneAsReviewed
<1>1. BoardInv => DoneAsReviewed
  BY DEF BoardInv
<1>. QED
  BY <1>1, BoardInitInv, BoardStepInv, PTL DEF BoardSpec

-----------------------------------------------------------------------------
(* Compute requests *)

RequestRow == [status : DOMAIN computeRequestTransitions, form : Forms \cup {NoForm},
               key : ComputeKeys \cup {NoRequestKey}, quote : Quotes \cup {NoQuote},
               valid : BOOLEAN, decision : {"none", "accepted", "declined"}]

Unquoted == {"none", "submitted", "contacting"}

RequestsTypeOK ==
    /\ request \in [Requests -> RequestRow]
    /\ seen \in [Requests -> RequestRow]
    /\ decided \in [Requests -> Quotes \cup {NoQuote}]

\* A key that created a request is found again in its row, and an owner who has read
\* a quote has read the only one its request will have.
SeenOK ==
    /\ \A c \in created : c[1] \in Requests /\ request[c[1]].key = c[2] /\ request[c[1]] # NoRequestRow
    /\ \A r \in Requests :
          /\ request[r].status = "none" => request[r] = NoRequestRow
          /\ seen[r].status = "quoted" =>
                request[r].status \notin Unquoted /\ request[r].quote = seen[r].quote

RequestsInv == RequestsTypeOK /\ SeenOK /\ DeliveredWasAccepted

\* Delivery is entered by the owner's decision only, and nothing goes back to be
\* quoted again.
LEMMA RequestTransitions ==
    ASSUME NEW s \in RequestStatus, NEW t \in computeRequestTransitions[s]
    PROVE  /\ t \in RequestStatus
           /\ t \in Delivered => s \in Delivered
           /\ t \in Unquoted => s \in Unquoted
           /\ t \notin {"none", "quoted"}
BY DEF RequestStatus, computeRequestTransitions, Delivered, Unquoted


LEMMA RequestsInitInv == RequestsInit => RequestsInv
<1>. SUFFICES ASSUME RequestsInit PROVE RequestsInv
  OBVIOUS
<1>1. /\ NoRequestRow \in RequestRow /\ NoRequestRow.status = "none"
  BY DEF NoRequestRow, RequestRow, computeRequestTransitions
<1>2. /\ created = {}
      /\ \A r \in Requests : request[r] = NoRequestRow /\ seen[r] = NoRequestRow
  BY DEF RequestsInit
<1>3. RequestsTypeOK
  BY <1>1 DEF RequestsTypeOK, RequestsInit
<1>. QED
  BY <1>1, <1>2, <1>3 DEF RequestsInv, SeenOK, DeliveredWasAccepted, Delivered

\* A step that writes one row.  What was said of the row's key and quote is still
\* so, and it is delivered only as accepted.
LEMMA RowWritten ==
    ASSUME RequestsInv, NEW r \in Requests, NEW row \in RequestRow, NEW q \in Quotes \cup {NoQuote},
           request' = [request EXCEPT ![r] = row], decided' = [decided EXCEPT ![r] = q],
           seen' = seen,
           \/ created' = created /\ request[r] # NoRequestRow /\ row.key = request[r].key
           \/ \E f : created' = created \cup {<<r, row.key, f>>} /\ request[r] = NoRequestRow
                     /\ \A x \in Requests : request[x].key # row.key,
           row.status # "none",
           request[r].status \notin Unquoted =>
              row.status \notin Unquoted /\ row.quote = request[r].quote,
           row.status \in Delivered => row.decision = "accepted" /\ q = row.quote
    PROVE  RequestsInv'
<1>1. /\ request \in [Requests -> RequestRow] /\ seen \in [Requests -> RequestRow]
      /\ decided \in [Requests -> Quotes \cup {NoQuote}]
  BY DEF RequestsInv, RequestsTypeOK
<1>2. /\ request'[r] = row /\ decided'[r] = q
      /\ \A x \in Requests \ {r} : request'[x] = request[x] /\ decided'[x] = decided[x]
  BY <1>1
<1>3. RequestsTypeOK'
  BY <1>1 DEF RequestsTypeOK
<1>4. row # NoRequestRow
  BY DEF NoRequestRow
<1>5. \A c \in created' : /\ c[1] \in Requests /\ request'[c[1]].key = c[2]
                          /\ request'[c[1]] # NoRequestRow
  <2>1. ASSUME NEW c \in created
        PROVE  /\ c[1] \in Requests /\ request'[c[1]].key = c[2]
               /\ request'[c[1]] # NoRequestRow
    BY <1>2, <1>4 DEF RequestsInv, SeenOK
  <2>. QED BY <1>2, <1>4, <2>1
<1>6. \A x \in Requests :
          /\ request'[x].status = "none" => request'[x] = NoRequestRow
          /\ seen'[x].status = "quoted" =>
                request'[x].status \notin Unquoted /\ request'[x].quote = seen'[x].quote
  BY <1>2 DEF RequestsInv, SeenOK
<1>7. \A x \in Requests : request'[x].status \in Delivered =>
          request'[x].decision = "accepted" /\ decided'[x] = request'[x].quote
  BY <1>2 DEF RequestsInv, DeliveredWasAccepted
<1>8. \A c, d \in created' : c[2] = d[2] => c = d
  BY DEF RequestsInv, SeenOK, DeliveredWasAccepted
<1>. QED
  BY <1>3, <1>5, <1>6, <1>7, <1>8 DEF RequestsInv, SeenOK, DeliveredWasAccepted

LEMMA CreateRequestInv ==
    ASSUME RequestsInv, NEW r \in Requests, NEW k \in ComputeKeys, NEW f \in Forms,
           CreateRequest(r, k, f)
    PROVE  RequestsInv'
<1>. DEFINE row == [NoRequestRow EXCEPT !.status = "submitted", !.form = f, !.key = k]
<1>1. /\ row \in RequestRow /\ row.status = "submitted" /\ row.key = k
  BY DEF NoRequestRow, RequestRow, computeRequestTransitions
<1>2. /\ request' = [request EXCEPT ![r] = row] /\ request[r] = NoRequestRow
      /\ created' = created \cup {<<r, k, f>>} /\ seen' = seen /\ decided' = decided
      /\ \A x \in Requests : request[x].key # k
  BY DEF CreateRequest, Known
<1>. HIDE DEF row
<1>3. request[r].status \in Unquoted /\ row.status \notin Delivered
  BY <1>1, <1>2 DEF NoRequestRow, Unquoted, Delivered
<1>4. /\ decided[r] \in Quotes \cup {NoQuote}
      /\ decided' = [decided EXCEPT ![r] = decided[r]]
  BY <1>2 DEF RequestsInv, RequestsTypeOK
<1>. QED
  BY <1>1, <1>2, <1>3, <1>4, RowWritten

\* The steps that change a row there is, but not what it was created for.
LEMMA RowChanged ==
    ASSUME RequestsInv, NEW r \in Requests, NEW row \in RequestRow,
           request' = [request EXCEPT ![r] = row],
           created' = created, seen' = seen, decided' = decided,
           request[r].status # "none", row.status # "none", row.key = request[r].key,
           request[r].status \notin Unquoted =>
              row.status \notin Unquoted /\ row.quote = request[r].quote,
           row.status \in Delivered =>
              /\ request[r].status \in Delivered /\ row.quote = request[r].quote
              /\ row.decision = request[r].decision
    PROVE  RequestsInv'
<1>1. /\ decided[r] \in Quotes \cup {NoQuote}
      /\ decided' = [decided EXCEPT ![r] = decided[r]]
  BY DEF RequestsInv, RequestsTypeOK
<1>2. request[r] # NoRequestRow
  BY DEF NoRequestRow
<1>3. row.status \in Delivered => row.decision = "accepted" /\ decided[r] = row.quote
  BY DEF RequestsInv, DeliveredWasAccepted
<1>. QED
  BY <1>1, <1>2, <1>3, RowWritten

LEMMA RequestStepInv ==
    ASSUME RequestsInv, NEW r \in Requests,
           OwnerRequests(r) \/ AdminActs(r) \/ QuoteEnds(r)
    PROVE  RequestsInv'
<1>0. request[r] \in RequestRow /\ seen[r] \in RequestRow
  BY DEF RequestsInv, RequestsTypeOK
<1>1. ASSUME NEW k \in ComputeKeys, NEW f \in Forms, CreateRequest(r, k, f) PROVE RequestsInv'
  BY <1>1, CreateRequestInv
<1>2. CASE OwnerReads(r)
  BY <1>2 DEF OwnerReads, RequestsInv, RequestsTypeOK, SeenOK, DeliveredWasAccepted, Unquoted
<1>3. ASSUME NEW accept \in BOOLEAN, DecideQuoteOf(r, accept) PROVE RequestsInv'
  <2>. DEFINE row == [request[r] EXCEPT !.status = IF accept THEN "approved" ELSE "closed",
                                        !.decision = IF accept THEN "accepted" ELSE "declined"]
              q == IF accept THEN seen[r].quote ELSE decided[r]
  <2>1. /\ request' = [request EXCEPT ![r] = row] /\ decided' = [decided EXCEPT ![r] = q]
        /\ seen' = seen /\ created' = created
        /\ seen[r].status = "quoted" /\ request[r].status = "quoted"
    BY <1>3 DEF DecideQuoteOf
  <2>2. seen[r].quote = request[r].quote
    BY <2>1 DEF RequestsInv, SeenOK
  <2>3. /\ row \in RequestRow /\ q \in Quotes \cup {NoQuote}
        /\ row.status \in {"approved", "closed"} /\ row.key = request[r].key
        /\ row.quote = request[r].quote
        /\ row.status = "approved" => row.decision = "accepted" /\ q = row.quote
    BY <1>0, <2>2, ZenonT(30) DEF RequestRow, computeRequestTransitions, RequestsInv, RequestsTypeOK
  <2>4. request[r] # NoRequestRow
    BY <2>1 DEF NoRequestRow
  <2>. HIDE DEF row, q
  <2>5. /\ row.status # "none" /\ row.status \notin Unquoted
        /\ row.status \in Delivered => row.decision = "accepted" /\ q = row.quote
    BY <2>3 DEF Unquoted, Delivered
  <2>. QED
    BY <2>1, <2>3, <2>4, <2>5, RowWritten
<1>4. ASSUME NEW s \in RequestStatus, NEW e \in RequestStatus, UpdateStatus(r, s, e)
      PROVE  RequestsInv'
  <2>. DEFINE row == [request[r] EXCEPT !.status = s]
  <2>1. /\ request' = [request EXCEPT ![r] = row] /\ request[r].status = e
        /\ created' = created /\ seen' = seen /\ decided' = decided
        /\ s \in computeRequestTransitions[e]
    BY <1>4 DEF UpdateStatus
  <2>2. /\ row \in RequestRow /\ row.status = s /\ row.key = request[r].key
        /\ row.quote = request[r].quote /\ row.decision = request[r].decision
    BY <1>0 DEF RequestRow, RequestStatus
  <2>. HIDE DEF row
  <2>3. e # "none" /\ s # "none"
    BY DEF RequestStatus
  <2>. QED
    BY <2>1, <2>2, <2>3, RowChanged, RequestTransitions
<1>5. ASSUME NEW q \in Quotes, NEW e \in RequestStatus, QuoteRequest(r, q, e)
      PROVE  RequestsInv'
  <2>. DEFINE row == [request[r] EXCEPT !.status = "quoted", !.quote = q, !.valid = TRUE,
                                        !.decision = "none"]
  <2>1. /\ request' = [request EXCEPT ![r] = row] /\ request[r].status = "contacting"
        /\ created' = created /\ seen' = seen /\ decided' = decided
    BY <1>5 DEF QuoteRequest
  <2>2. /\ row \in RequestRow /\ row.status = "quoted" /\ row.key = request[r].key
    BY <1>0 DEF RequestRow, computeRequestTransitions
  <2>. HIDE DEF row
  <2>3. request[r].status \in Unquoted /\ row.status \notin Delivered
    BY <2>1, <2>2 DEF Unquoted, Delivered
  <2>. QED
    BY <2>1, <2>2, <2>3, RowChanged
<1>6. CASE QuoteEnds(r)
  <2>. DEFINE row == [request[r] EXCEPT !.valid = FALSE]
  <2>1. /\ request' = [request EXCEPT ![r] = row] /\ request[r].valid
        /\ created' = created /\ seen' = seen /\ decided' = decided
    BY <1>6 DEF QuoteEnds
  <2>2. /\ row \in RequestRow /\ row.status = request[r].status /\ row.key = request[r].key
        /\ row.quote = request[r].quote /\ row.decision = request[r].decision
    BY <1>0 DEF RequestRow
  <2>. HIDE DEF row
  <2>3. request[r].status # "none"
    BY <2>1 DEF RequestsInv, SeenOK, NoRequestRow
  <2>. QED
    BY <2>1, <2>2, <2>3, RowChanged
<1>. QED
  BY <1>1, <1>2, <1>3, <1>4, <1>5, <1>6 DEF OwnerRequests, AdminActs

LEMMA RequestsStepInv == RequestsInv /\ [RequestsNext]_requestVars => RequestsInv'
<1>1. CASE UNCHANGED requestVars
  BY <1>1 DEF requestVars, RequestsInv, RequestsTypeOK, SeenOK, DeliveredWasAccepted
<1>. QED
  BY <1>1, RequestStepInv DEF RequestsNext

\* A compute request is only delivered after its owner accepted the quote that stands
\* in it, however owner and administrators act on what they read earlier.
THEOREM DeliveriesAreAccepted == RequestsSpec => []DeliveredWasAccepted
<1>1. RequestsInv => DeliveredWasAccepted
  BY DEF RequestsInv
<1>. QED
  BY <1>1, RequestsInitInv, RequestsStepInv, PTL DEF RequestsSpec

-----------------------------------------------------------------------------
(* The administrator's list of compute requests                            *)

Statuses == DOMAIN computeRequestTransitions

Item == [id : Requests, status : Statuses, of : Filters]

ListPage == [items : Seq(Item), cursor : Requests \cup {0}]

Detail == [id : Requests \cup {0}, status : Statuses]

ListCalls == [what : Pages, arg : Filters, from : Requests \cup {0}, live : BOOLEAN,
              answer : SUBSET ListPage]

DetailCalls == [what : {"detail"}, arg : Requests, from : {0}, live : BOOLEAN, answer : SUBSET Detail]

DeskUpdate == [state : {"sent", "done", "conflict"}, id : Requests, status : RequestStatus,
               expected : Statuses, filter : Filters]

\* A list of one filter, without repetition.
Listing(list, f) ==
    /\ \A i \in DOMAIN list : list[i].of = f
    /\ \A i, j \in DOMAIN list : list[i].id = list[j].id => i = j

\* A call is answered with what it asks for, whatever has become of the list meanwhile.
WellAnswered(c) ==
    /\ c.what \in Pages =>
          c \in ListCalls /\ \A p \in c.answer : Listing(p.items, c.arg) /\ (p.items = <<>> => p.cursor = 0)
    /\ c.what \notin Pages => c \in DetailCalls /\ \A d \in c.answer : d.id = c.arg

DeskShape ==
    /\ filter \in Filters /\ items \in Seq(Item) /\ cursor \in Requests \cup {0}
    /\ loading \in BOOLEAN /\ loadingMore \in BOOLEAN /\ detailLoading \in BOOLEAN
    /\ selected \in Requests \cup {0}
    /\ detail \in Detail /\ (detail # NoDetail => detail.id \in Requests)
    /\ update # NoUpdate => update \in DeskUpdate
    /\ cursor # 0 => items # <<>>

\* The live calls: one for the first page, while the list is loading, or one for a further page
\* of the list that is shown, and one for the details of the request shown.
LiveCallsOK ==
    /\ \A c \in calls : WellAnswered(c)
    /\ \A c \in calls : c.live /\ c.what \in Pages => c.arg = filter
    /\ \A c \in calls : c.live /\ c.what = "first" => loading
    /\ \A c \in calls : c.live /\ c.what = "more" => ~loading /\ items # <<>>
    /\ \A c \in calls : c.live /\ c.what = "detail" /\ ~loading => c.arg = ShownRequest(items, selected)
    /\ \A c, d \in calls : c.live /\ d.live /\ c.what = "first" /\ d.what = "first" => c = d

\* A list that is not loading is of the filter, the selected request is in it, and the details
\* are of that one.
ShownRight ==
    ~loading =>
        /\ Listing(items, filter)
        /\ items # <<>> => \E i \in DOMAIN items : items[i].id = selected
        /\ detail # NoDetail => detail.id = ShownRequest(items, selected)

DeskInv == DeskShape /\ LiveCallsOK /\ ShownRight

\* What has become stale is still what it was answered, and what is still live was there.
LEMMA StaleWell ==
    ASSUME NEW cs, \A c \in cs : WellAnswered(c), NEW W, NEW d \in Stale(cs, W)
    PROVE  WellAnswered(d) /\ (d.live => d \in cs /\ d.what \notin W)
<1>1. PICK c \in cs : d = IF c.what \in W THEN [c EXCEPT !.live = FALSE] ELSE c
  BY DEF Stale
<1>2. CASE c.what \notin W
  BY <1>1, <1>2
<1>3. CASE c.what \in W
  <2>1. d = [c EXCEPT !.live = FALSE]
    BY <1>1, <1>3
  <2>2. CASE c.what \in Pages
    <3>1. c \in ListCalls /\ WellAnswered(c)
      BY <2>2 DEF WellAnswered
    <3>2. d \in ListCalls /\ d.what = c.what /\ d.arg = c.arg /\ d.answer = c.answer /\ ~d.live
      BY <2>1, <3>1 DEF ListCalls
    <3>. QED BY <2>2, <3>1, <3>2 DEF WellAnswered
  <2>3. CASE c.what \notin Pages
    <3>1. c \in DetailCalls /\ WellAnswered(c)
      BY <2>3 DEF WellAnswered
    <3>2. d \in DetailCalls /\ d.what = c.what /\ d.arg = c.arg /\ d.answer = c.answer /\ ~d.live
      BY <2>1, <3>1 DEF DetailCalls
    <3>. QED BY <2>3, <3>1, <3>2 DEF WellAnswered
  <2>. QED BY <2>2, <2>3
<1>. QED
  BY <1>2, <1>3

LEMMA NewListCall ==
    ASSUME NEW from \in Requests \cup {0}, NEW what \in Pages, NEW f \in Filters, NEW c,
           c = [what |-> what, arg |-> f, from |-> from, live |-> TRUE, answer |-> {}]
    PROVE  WellAnswered(c)
<1>1. c \in ListCalls /\ c.what \in Pages /\ c.answer = {}
  BY DEF ListCalls
<1>. QED
  BY <1>1 DEF WellAnswered

LEMMA NewDetailCall ==
    ASSUME NEW r \in Requests
    PROVE  /\ WellAnswered(DetailCall(r)) /\ DetailCall(r).live
           /\ DetailCall(r).arg = r /\ DetailCall(r).what = "detail"
BY DEF DetailCall, WellAnswered, DetailCalls, Pages

\* A page lists the newest request that matches, as it is, once.
LEMMA PageIsListing ==
    ASSUME RequestsInv, DeskAssumption, NEW f \in Filters, NEW from \in Requests \cup {0},
           NEW p \in Page(f, from)
    PROVE  p \in ListPage /\ Listing(p.items, f) /\ (p.items = <<>> => p.cursor = 0)
<1>1. CASE Matching(f, from) = {}
  <2>1. p = [items |-> <<>>, cursor |-> 0]
    BY <1>1 DEF Page
  <2>. QED BY <2>1 DEF ListPage, Listing
<1>2. CASE Matching(f, from) # {}
  <2>1. PICK r \in Newest(Matching(f, from)) :
           p = [items |-> <<[id |-> r, status |-> request[r].status, of |-> f]>>,
                cursor |-> IF Matching(f, from) = {r} THEN 0 ELSE r]
    BY <1>2 DEF Page
  <2>2. r \in Requests
    BY DEF Newest, Matching
  <2>3. request[r].status \in Statuses
    BY <2>2 DEF RequestsInv, RequestsTypeOK, RequestRow, Statuses
  <2>. DEFINE item == [id |-> r, status |-> request[r].status, of |-> f]
  <2>4. item \in Item /\ item.of = f
    BY <2>2, <2>3 DEF Item
  <2>5. p.items = <<item>> /\ p.cursor \in {0, r} /\ p = [items |-> p.items, cursor |-> p.cursor]
    BY <2>1
  <2>. HIDE DEF item
  <2>6. p.items \in Seq(Item) /\ p.items # <<>> /\ DOMAIN p.items = {1} /\ p.items[1] = item
    BY <2>4, <2>5
  <2>. QED BY <2>2, <2>4, <2>5, <2>6 DEF ListPage, Listing
<1>. QED
  BY <1>1, <1>2

\* The list is loaded anew: nothing of what was on its way is shown any more.
LEMMA ReloadInv ==
    ASSUME DeskInv, DeskAssumption, filter' \in Filters, Reload(calls),
           items' = items, cursor' = cursor, selected' = selected, detailLoading' \in BOOLEAN,
           detail' \in Detail, detail' # NoDetail => detail'.id \in Requests,
           update' = update \/ update' = NoUpdate
    PROVE  DeskInv'
<1>1. PICK f \in Filters : f = filter'
  OBVIOUS
<1>2. PICK first : first = [ListCall(0) EXCEPT !.arg = f]
  OBVIOUS
<1>3. /\ calls' = Stale(calls, Pages) \cup {first}
      /\ loading' = TRUE /\ loadingMore' = FALSE
  BY <1>1, <1>2 DEF Reload
<1>4. /\ WellAnswered(first) /\ first.live /\ first.arg = f /\ first.what = "first"
  <2>1. first = [what |-> "first", arg |-> f, from |-> 0, live |-> TRUE, answer |-> {}]
    BY <1>2 DEF ListCall
  <2>. QED BY <2>1, NewListCall DEF Pages
<1>5. \A c \in Stale(calls, Pages) : WellAnswered(c) /\ (c.live => c.what \notin Pages)
  BY StaleWell DEF DeskInv, LiveCallsOK
<1>6. LiveCallsOK'
  BY <1>1, <1>3, <1>4, <1>5 DEF LiveCallsOK, Pages
<1>7. DeskShape'
  BY <1>3 DEF DeskInv, DeskShape
<1>. QED
  BY <1>3, <1>6, <1>7 DEF DeskInv, ShownRight

\* A step after which nothing is live that was not, and the list is as it was.
LEMMA FewerLiveInv ==
    ASSUME DeskInv, NEW cs, \A c \in cs : WellAnswered(c) /\ (c.live => c \in calls), calls' = cs,
           UNCHANGED <<filter, items, cursor, loading, selected>>,
           detail' = detail \/ detail' = NoDetail,
           loadingMore' \in BOOLEAN, detailLoading' \in BOOLEAN,
           update' # NoUpdate => update' \in DeskUpdate
    PROVE  DeskInv'
<1>1. DeskShape'
  BY DEF DeskInv, DeskShape, NoDetail, Detail, Statuses, computeRequestTransitions
<1>2. LiveCallsOK'
  BY DEF DeskInv, LiveCallsOK
<1>3. ShownRight'
  BY DEF DeskInv, ShownRight
<1>. QED
  BY <1>1, <1>2, <1>3 DEF DeskInv

LEMMA LoadMoreInv == DeskInv /\ LoadMore => DeskInv'
<1>. SUFFICES ASSUME DeskInv, LoadMore PROVE DeskInv'
  OBVIOUS
<1>1. PICK more : more = ListCall(cursor)
  OBVIOUS
<1>2. /\ ~loading /\ cursor # 0 /\ calls' = calls \cup {more} /\ loadingMore' = TRUE
      /\ UNCHANGED <<filter, items, cursor, loading, selected, detail, detailLoading, update>>
  BY <1>1 DEF LoadMore, detailVars
<1>3. cursor \in Requests \cup {0} /\ filter \in Filters /\ items # <<>>
  BY <1>2 DEF DeskInv, DeskShape
<1>4. WellAnswered(more) /\ more.live /\ more.arg = filter /\ more.what = "more"
  <2>1. more = [what |-> "more", arg |-> filter, from |-> cursor, live |-> TRUE, answer |-> {}]
    BY <1>1, <1>2 DEF ListCall
  <2>. QED BY <1>3, <2>1, NewListCall DEF Pages
<1>5. DeskShape'
  BY <1>2 DEF DeskInv, DeskShape
<1>6. LiveCallsOK'
  BY <1>2, <1>3, <1>4 DEF DeskInv, LiveCallsOK
<1>7. ShownRight'
  BY <1>2 DEF DeskInv, ShownRight
<1>. QED
  BY <1>5, <1>6, <1>7 DEF DeskInv

LEMMA SelectInv ==
    ASSUME DeskInv, DeskAssumption, NEW i \in DOMAIN items, Select(i)
    PROVE  DeskInv'
<1>1. PICK id : id = items[i].id
  OBVIOUS
<1>2. id \in Requests /\ id # 0
  <2>1. items[i] \in Item
    BY DEF DeskInv, DeskShape
  <2>. QED BY <1>1, <2>1 DEF Item, DeskAssumption
<1>3. /\ ~loading /\ selected' = id
      /\ UNCHANGED <<filter, items, cursor, loading, loadingMore, update>>
  BY <1>1 DEF Select, listVars
<1>4. ShownRequest(items, id) = id /\ (\E j \in DOMAIN items : items[j].id = id)
  BY <1>1 DEF ShownRequest
<1>5. \A c \in Stale(calls, {"detail"}) :
          WellAnswered(c) /\ (c.live => c \in calls /\ c.what # "detail")
  BY StaleWell DEF DeskInv, LiveCallsOK
<1>6. CASE ShownRequest(items, selected) # id
  <2>1. /\ detail' = NoDetail /\ detailLoading' = TRUE
        /\ calls' = Stale(calls, {"detail"}) \cup {DetailCall(id)}
    BY <1>1, <1>2, <1>4, <1>6 DEF Select, ReadDetail
  <2>2. DeskShape'
    BY <1>2, <1>3, <2>1 DEF DeskInv, DeskShape, NoDetail, Detail, Statuses, computeRequestTransitions
  <2>3. \A c \in calls' : \/ WellAnswered(c) /\ (c.live => c \in calls /\ c.what # "detail")
                          \/ WellAnswered(c) /\ c.what = "detail" /\ c.arg = id
    BY <1>2, <1>5, <2>1, NewDetailCall
  <2>4. LiveCallsOK'
    BY <1>3, <1>4, <2>3 DEF DeskInv, LiveCallsOK, Pages
  <2>5. ShownRight'
    BY <1>3, <1>4, <2>1 DEF DeskInv, ShownRight
  <2>. QED BY <2>2, <2>4, <2>5 DEF DeskInv
<1>7. CASE ShownRequest(items, selected) = id
  <2>1. detail' = detail /\ detailLoading' = detailLoading /\ calls' = Stale(calls, {"detail"})
    BY <1>1, <1>4, <1>7 DEF Select
  <2>2. DeskShape'
    BY <1>2, <1>3, <2>1 DEF DeskInv, DeskShape
  <2>3. LiveCallsOK'
    BY <1>3, <1>5, <2>1 DEF DeskInv, LiveCallsOK, Pages
  <2>4. ShownRight'
    BY <1>3, <1>4, <1>7, <2>1 DEF DeskInv, ShownRight
  <2>. QED BY <2>2, <2>3, <2>4 DEF DeskInv
<1>. QED
  BY <1>6, <1>7

LEMMA SendInv ==
    ASSUME DeskInv, NEW s \in RequestStatus, SendUpdate(s) \/ SendQuote
    PROVE  DeskInv'
<1>1. /\ detail # NoDetail
      /\ UNCHANGED <<filter, items, cursor, loading, loadingMore, selected, detail, detailLoading, calls>>
  BY DEF SendUpdate, SendQuote, NoDetail, listVars, detailVars
<1>2. PICK t \in RequestStatus :
         update' = [state |-> "sent", id |-> detail.id, status |-> t, expected |-> detail.status,
                    filter |-> filter]
  <2>1. "quoted" \in RequestStatus
    BY DEF RequestStatus, computeRequestTransitions
  <2>. QED BY <2>1 DEF SendUpdate, SendQuote
<1>3. update' \in DeskUpdate
  BY <1>1, <1>2 DEF DeskInv, DeskShape, DeskUpdate, Detail
<1>4. \A c \in calls : WellAnswered(c)
  BY DEF DeskInv, LiveCallsOK
<1>5. loadingMore' \in BOOLEAN /\ detailLoading' \in BOOLEAN
  BY <1>1 DEF DeskInv, DeskShape
<1>. QED
  BY <1>1, <1>3, <1>4, <1>5, FewerLiveInv

LEMMA ServerReadsInv ==
    ASSUME DeskInv, RequestsInv, DeskAssumption, NEW c \in calls, ServerReads(c)
    PROVE  DeskInv'
<1>1. PICK answered : answered = [c EXCEPT !.answer =
                   IF c.what = "detail" THEN {[id |-> c.arg, status |-> request[c.arg].status]}
                   ELSE Page(c.arg, c.from)]
  OBVIOUS
<1>2. /\ calls' = (calls \ {c}) \cup {answered}
      /\ UNCHANGED <<filter, items, cursor, loading, loadingMore, selected, detail, detailLoading, update>>
  BY <1>1 DEF ServerReads, listVars, detailVars
<1>3. WellAnswered(c)
  BY DEF DeskInv, LiveCallsOK
<1>4. WellAnswered(answered) /\ answered.live = c.live /\ answered.what = c.what /\ answered.arg = c.arg
  <2>1. CASE c.what \in Pages
    <3>1. c \in ListCalls /\ c.what # "detail"
      BY <1>3, <2>1 DEF WellAnswered, Pages
    <3>2. /\ answered = [c EXCEPT !.answer = Page(c.arg, c.from)]
          /\ c.arg \in Filters /\ c.from \in Requests \cup {0}
      BY <1>1, <3>1 DEF ListCalls
    <3>3. \A p \in Page(c.arg, c.from) :
              p \in ListPage /\ Listing(p.items, c.arg) /\ (p.items = <<>> => p.cursor = 0)
      BY <3>2, PageIsListing
    <3>. DEFINE page == Page(c.arg, c.from)
    <3>4. page \in SUBSET ListPage
      BY <3>3
    <3>. HIDE DEF page
    <3>5. /\ answered \in ListCalls /\ answered.live = c.live /\ answered.what = c.what
          /\ answered.arg = c.arg /\ answered.answer = page
      <4>1. answered = [c EXCEPT !.answer = page]
        BY <3>2 DEF page
      <4>. QED BY <3>1, <3>4, <4>1 DEF ListCalls
    <3>. QED BY <2>1, <3>3, <3>5 DEF WellAnswered, page
  <2>2. CASE c.what \notin Pages
    <3>1. c \in DetailCalls /\ c.what = "detail"
      BY <1>3, <2>2 DEF WellAnswered, DetailCalls
    <3>2. c.arg \in Requests
      BY <3>1 DEF DetailCalls
    <3>. DEFINE read == [id |-> c.arg, status |-> request[c.arg].status]
    <3>3. read \in Detail /\ read.id = c.arg
      BY <3>2 DEF RequestsInv, RequestsTypeOK, RequestRow, Statuses, Detail
    <3>4. answered = [c EXCEPT !.answer = {read}]
      BY <1>1, <3>1
    <3>. HIDE DEF read
    <3>5. /\ answered \in DetailCalls /\ answered.live = c.live /\ answered.what = c.what
          /\ answered.arg = c.arg /\ answered.answer = {read}
      BY <3>1, <3>3, <3>4 DEF DetailCalls
    <3>. QED BY <2>2, <3>3, <3>5 DEF WellAnswered
  <2>. QED BY <2>1, <2>2
<1>5. DeskShape'
  BY <1>2 DEF DeskInv, DeskShape
<1>6. LiveCallsOK'
  BY <1>2, <1>4 DEF DeskInv, LiveCallsOK
<1>7. ShownRight'
  BY <1>2 DEF DeskInv, ShownRight
<1>. QED
  BY <1>5, <1>6, <1>7 DEF DeskInv

\* The details are read again, of the request that the list then shows.
LEMMA ReadDetailCalls ==
    ASSUME NEW cs, \A c \in cs : WellAnswered(c), NEW r \in Requests \cup {0}, ReadDetail(cs, r)
    PROVE  /\ detail' = NoDetail /\ detailLoading' \in BOOLEAN
           /\ \A c \in calls' : /\ WellAnswered(c)
                                /\ c.live => \/ c \in cs /\ c.what # "detail"
                                             \/ c.what = "detail" /\ c.arg = r
<1>1. \A c \in Stale(cs, {"detail"}) : WellAnswered(c) /\ (c.live => c \in cs /\ c.what # "detail")
  BY StaleWell
<1>2. /\ detail' = NoDetail /\ detailLoading' = (r # 0)
      /\ calls' = Stale(cs, {"detail"}) \cup (IF r = 0 THEN {} ELSE {DetailCall(r)})
  BY DEF ReadDetail
<1>3. CASE r = 0
  BY <1>1, <1>2, <1>3
<1>4. CASE r # 0
  BY <1>1, <1>2, <1>4, NewDetailCall
<1>. QED
  BY <1>3, <1>4

LEMMA ShowFirstInv ==
    ASSUME DeskInv, DeskAssumption, NEW c \in calls, c.live, c.what = "first", NEW page \in c.answer,
           ShowFirst(c, page), update' = update
    PROVE  DeskInv'
<1>1. /\ page \in ListPage /\ Listing(page.items, filter) /\ (page.items = <<>> => page.cursor = 0)
      /\ loading
  <2>1. c \in ListCalls /\ c.arg = filter /\ Listing(page.items, c.arg)
        /\ (page.items = <<>> => page.cursor = 0) /\ loading
    BY DEF DeskInv, LiveCallsOK, WellAnswered, Pages
  <2>. QED BY <2>1 DEF ListCalls
<1>2. /\ items' = page.items /\ cursor' = page.cursor /\ loading' = FALSE
      /\ filter' = filter /\ loadingMore' = loadingMore
      /\ selected' = ShownRequest(page.items, selected)
  BY DEF ShowFirst
<1>3. PICK r : r = ShownRequest(page.items, selected)
  OBVIOUS
<1>4. items' \in Seq(Item) /\ cursor' \in Requests \cup {0}
  BY <1>1, <1>2 DEF ListPage
<1>5. /\ r \in Requests \cup {0} /\ selected' = r
      /\ items' # <<>> => \E i \in DOMAIN items' : items'[i].id = r
      /\ ShownRequest(items', r) = r
  <2>1. CASE items' = <<>>
    BY <1>2, <1>3, <2>1 DEF ShownRequest
  <2>2. CASE items' # <<>>
    <3>2. PICK list \in Seq(Item) : list = items'
      BY <1>4
    <3>3. Len(list) # 0
      BY <2>2, <3>2
    <3>4. 1 \in DOMAIN list /\ \A i \in DOMAIN list : list[i].id \in Requests
      <4>1. Len(list) \in Nat /\ DOMAIN list = 1 .. Len(list)
        OBVIOUS
      <4>2. \A i \in DOMAIN list : list[i] \in Item
        OBVIOUS
      <4>3. 1 \in DOMAIN list
        BY <3>3, <4>1
      <4>. QED BY <4>2, <4>3 DEF Item
    <3>1. 1 \in DOMAIN items' /\ \A i \in DOMAIN items' : items'[i].id \in Requests
      BY <3>2, <3>4
    <3>. QED BY <1>2, <1>3, <2>2, <3>1 DEF ShownRequest
  <2>. QED BY <2>1, <2>2
<1>6. /\ detail' = NoDetail /\ detailLoading' \in BOOLEAN
      /\ \A d \in calls' : /\ WellAnswered(d)
                           /\ d.live => \/ d \in calls \ {c} /\ d.what # "detail"
                                        \/ d.what = "detail" /\ d.arg = r
  <2>1. ReadDetail(calls \ {c}, r)
    <3>1. ReadDetail(calls \ {c}, selected')
      BY DEF ShowFirst
    <3>. QED BY <1>5, <3>1 DEF ReadDetail
  <2>2. \A d \in calls \ {c} : WellAnswered(d)
    BY DEF DeskInv, LiveCallsOK
  <2>. QED BY <1>5, <2>1, <2>2, ReadDetailCalls
<1>7. \A d \in calls \ {c} : d.live => d.what \notin Pages
  BY <1>1 DEF DeskInv, LiveCallsOK, Pages
<1>8. DeskShape'
  BY <1>1, <1>2, <1>4, <1>5, <1>6 DEF DeskInv, DeskShape, NoDetail, Detail, Statuses, computeRequestTransitions
<1>9. LiveCallsOK'
  <2>1. \A d \in calls' : /\ WellAnswered(d)
                          /\ d.live => \/ d.what = "detail" /\ d.arg = r
                                       \/ d.what \notin Pages \cup {"detail"}
    BY <1>6, <1>7
  <2>2. ShownRequest(items', selected') = r
    BY <1>5
  <2>. QED BY <2>1, <2>2 DEF LiveCallsOK, Pages
<1>10. ShownRight'
  BY <1>1, <1>2, <1>5, <1>6 DEF ShownRight
<1>. QED
  BY <1>8, <1>9, <1>10 DEF DeskInv

LEMMA ShowMoreInv ==
    ASSUME DeskInv, DeskAssumption, NEW c \in calls, c.live, c.what = "more", NEW page \in c.answer,
           ShowMore(c, page), update' = update
    PROVE  DeskInv'
<1>1. /\ page \in ListPage /\ Listing(page.items, filter) /\ (page.items = <<>> => page.cursor = 0)
      /\ ~loading /\ items # <<>>
  <2>1. c \in ListCalls /\ c.arg = filter /\ Listing(page.items, c.arg)
        /\ (page.items = <<>> => page.cursor = 0) /\ ~loading /\ items # <<>>
    BY DEF DeskInv, LiveCallsOK, WellAnswered, Pages
  <2>. QED BY <2>1 DEF ListCalls
<1>2. /\ cursor' = page.cursor /\ loadingMore' = FALSE /\ calls' = calls \ {c}
      /\ UNCHANGED <<filter, loading, selected, detail, detailLoading>>
  BY DEF ShowMore, detailVars
<1>3. /\ page.items \in Seq(Item) /\ page.cursor \in Requests \cup {0} /\ items \in Seq(Item)
      /\ Listing(items, filter) /\ \E i \in DOMAIN items : items[i].id = selected
  BY <1>1 DEF ListPage, DeskInv, DeskShape, ShownRight
<1>4. /\ items' \in Seq(Item) /\ items' # <<>> /\ Listing(items', filter)
      /\ \E i \in DOMAIN items' : items'[i].id = selected
  <2>1. CASE \E i \in DOMAIN items, j \in DOMAIN page.items : items[i].id = page.items[j].id
    <3>1. items' = items \o <<>>
      BY <2>1 DEF ShowMore
    <3>2. items' = items
      BY <1>3, <3>1
    <3>. QED BY <1>1, <1>3, <3>2
  <2>2. CASE ~\E i \in DOMAIN items, j \in DOMAIN page.items : items[i].id = page.items[j].id
    <3>. DEFINE more == page.items
                n == Len(items)
                m == Len(more)
    <3>1. items' = items \o more
      BY <2>2 DEF ShowMore
    <3>2. /\ more \in Seq(Item) /\ n \in Nat /\ m \in Nat /\ DOMAIN items = 1 .. n /\ DOMAIN more = 1 .. m
          /\ n > 0
      BY <1>1, <1>3
    <3>3. /\ items' \in Seq(Item) /\ DOMAIN items' = 1 .. (n + m)
          /\ \A i \in 1 .. n : items'[i] = items[i]
          /\ \A j \in 1 .. m : items'[n + j] = more[j]
      BY <1>3, <3>1, <3>2
    <3>4. /\ \A i \in 1 .. n : items[i].of = filter
          /\ \A i, j \in 1 .. n : items[i].id = items[j].id => i = j
          /\ \A j \in 1 .. m : more[j].of = filter
          /\ \A i, j \in 1 .. m : more[i].id = more[j].id => i = j
          /\ \A i \in 1 .. n, j \in 1 .. m : items[i].id # more[j].id
      BY <1>1, <1>3, <2>2, <3>2 DEF Listing
    <3>. HIDE DEF n, m, more
    <3>5. \A i \in 1 .. (n + m) :
             \/ i \in 1 .. n /\ items'[i] = items[i]
             \/ \E j \in 1 .. m : i = n + j /\ items'[i] = more[j]
      <4>. SUFFICES ASSUME NEW i \in 1 .. (n + m), i \notin 1 .. n
                    PROVE  \E j \in 1 .. m : i = n + j /\ items'[i] = more[j]
        BY <3>3
      <4>1. i - n \in 1 .. m /\ i = n + (i - n)
        BY <3>2
      <4>. QED BY <3>3, <4>1
    <3>6. \A i \in 1 .. (n + m) : items'[i].of = filter
      BY <3>4, <3>5
    <3>7. \A i, j \in 1 .. (n + m) : items'[i].id = items'[j].id => i = j
      BY <3>4, <3>5
    <3>8. Listing(items', filter)
      BY <3>3, <3>6, <3>7 DEF Listing
    <3>9. \E i \in 1 .. (n + m) : items'[i].id = selected
      <4>1. PICK i \in 1 .. n : items[i].id = selected
        BY <1>3, <3>2
      <4>2. i \in 1 .. (n + m)
        BY <3>2
      <4>. QED BY <3>3, <4>1, <4>2
    <3>10. items' # <<>>
      <4>1. DOMAIN items' # {} /\ DOMAIN <<>> = {}
        BY <3>3, <3>9
      <4>. QED BY <4>1
    <3>. QED BY <3>3, <3>8, <3>9, <3>10
  <2>. QED BY <2>1, <2>2
<1>5. ShownRequest(items', selected') = selected /\ ShownRequest(items, selected) = selected
  BY <1>2, <1>3, <1>4 DEF ShownRequest
<1>6. DeskShape'
  BY <1>1, <1>2, <1>3, <1>4 DEF DeskInv, DeskShape
<1>7. LiveCallsOK'
  BY <1>1, <1>2, <1>4, <1>5 DEF DeskInv, LiveCallsOK
<1>8. ShownRight'
  BY <1>1, <1>2, <1>4, <1>5 DEF DeskInv, ShownRight
<1>. QED
  BY <1>6, <1>7, <1>8 DEF DeskInv

LEMMA DeliverListInv ==
    ASSUME DeskInv, DeskAssumption, NEW c \in calls, DeliverList(c)
    PROVE  DeskInv'
<1>1. /\ c.live /\ update' = update /\ c.what \in {"first", "more"}
      /\ \E page \in c.answer : IF c.what = "first" THEN ShowFirst(c, page) ELSE ShowMore(c, page)
  BY DEF DeliverList, Wanted, Pages
<1>2. ASSUME NEW page \in c.answer, c.what = "first", ShowFirst(c, page) PROVE DeskInv'
  BY <1>1, <1>2, ShowFirstInv
<1>3. ASSUME NEW page \in c.answer, c.what = "more", ShowMore(c, page) PROVE DeskInv'
  BY <1>1, <1>3, ShowMoreInv
<1>. QED
  BY <1>1, <1>2, <1>3

LEMMA DeliverDetailInv ==
    ASSUME DeskInv, NEW c \in calls, DeliverDetail(c)
    PROVE  DeskInv'
<1>1. PICK d \in c.answer : detail' = d
  BY DEF DeliverDetail
<1>2. /\ c.live /\ c.what = "detail" /\ detailLoading' = FALSE /\ calls' = calls \ {c}
      /\ UNCHANGED <<filter, items, cursor, loading, loadingMore, selected, update>>
  BY DEF DeliverDetail, Wanted, listVars
<1>3. d \in Detail /\ d.id = c.arg /\ d.id \in Requests
  BY <1>2 DEF DeskInv, LiveCallsOK, WellAnswered, DetailCalls, Pages
<1>4. DeskShape'
  BY <1>1, <1>2, <1>3 DEF DeskInv, DeskShape
<1>5. LiveCallsOK'
  BY <1>2 DEF DeskInv, LiveCallsOK
<1>6. ~loading => c.arg = ShownRequest(items, selected)
  BY <1>2 DEF DeskInv, LiveCallsOK
<1>7. ShownRight'
  BY <1>1, <1>2, <1>3, <1>6 DEF DeskInv, ShownRight
<1>. QED
  BY <1>4, <1>5, <1>7 DEF DeskInv

LEMMA FailInv ==
    ASSUME DeskInv, NEW c \in calls, Fail(c)
    PROVE  DeskInv'
<1>1. c.live /\ update' = update
  BY DEF Fail, Wanted
<1>2. \A d \in calls : WellAnswered(d)
  BY DEF DeskInv, LiveCallsOK
<1>3. CASE c.what = "first"
  <2>1. /\ items' = <<>> /\ cursor' = 0 /\ loading' = FALSE
        /\ UNCHANGED <<filter, loadingMore, selected>>
        /\ ReadDetail(calls \ {c}, 0)
    BY <1>3 DEF Fail
  <2>2. /\ detail' = NoDetail /\ detailLoading' = FALSE
        /\ calls' = Stale(calls \ {c}, {"detail"})
    BY <2>1 DEF ReadDetail
  <2>3. \A d \in calls' : WellAnswered(d) /\ (d.live => d \in calls \ {c} /\ d.what # "detail")
    BY <1>2, <2>2, StaleWell
  <2>4. \A d \in calls \ {c} : d.live => d.what \notin Pages
    BY <1>1, <1>3 DEF DeskInv, LiveCallsOK, Pages
  <2>5. DeskShape'
    <3>1. NoDetail \in Detail /\ <<>> \in Seq(Item)
      BY DEF NoDetail, Detail, Statuses, computeRequestTransitions
    <3>. QED BY <1>1, <2>1, <2>2, <3>1 DEF DeskInv, DeskShape
  <2>6. LiveCallsOK'
    BY <2>3, <2>4 DEF LiveCallsOK, Pages
  <2>7. ShownRight'
    BY <2>1, <2>2 DEF ShownRight, Listing
  <2>. QED BY <2>5, <2>6, <2>7 DEF DeskInv
<1>4. CASE c.what # "first"
  <2>1. /\ calls' = calls \ {c}
        /\ loadingMore' = (loadingMore /\ c.what = "detail")
        /\ detailLoading' = (detailLoading /\ c.what # "detail")
        /\ UNCHANGED <<filter, items, cursor, loading, selected, detail>>
    BY <1>4 DEF Fail
  <2>2. update' # NoUpdate => update' \in DeskUpdate
    BY <1>1 DEF DeskInv, DeskShape
  <2>. QED BY <1>1, <1>2, <2>1, <2>2, FewerLiveInv
<1>. QED
  BY <1>3, <1>4

LEMMA ServerUpdatesInv ==
    ASSUME DeskInv, ServerUpdates
    PROVE  DeskInv'
<1>1. /\ update.state = "sent"
      /\ update' = [update EXCEPT !.state = "done"] \/ update' = [update EXCEPT !.state = "conflict"]
      /\ UNCHANGED <<filter, items, cursor, loading, loadingMore, selected, detail, detailLoading, calls>>
  BY DEF ServerUpdates, listVars, detailVars
<1>2. update # NoUpdate /\ update \in DeskUpdate
  BY <1>1 DEF NoUpdate, DeskInv, DeskShape
<1>3. update' \in DeskUpdate
  BY <1>1, <1>2 DEF DeskUpdate
<1>4. /\ \A c \in calls : WellAnswered(c)
      /\ loadingMore' \in BOOLEAN /\ detailLoading' \in BOOLEAN
  BY <1>1 DEF DeskInv, DeskShape, LiveCallsOK
<1>. QED
  BY <1>1, <1>3, <1>4, FewerLiveInv

\* The list with one status renewed lists the same requests.
LEMMA RenewedListing ==
    ASSUME items \in Seq(Item), update \in DeskUpdate
    PROVE  /\ Renewed(items) \in Seq(Item) /\ DOMAIN Renewed(items) = DOMAIN items
           /\ \A i \in DOMAIN items : /\ Renewed(items)[i].id = items[i].id
                                      /\ Renewed(items)[i].of = items[i].of
<1>. DEFINE n == Len(items)
<1>1. n \in Nat /\ DOMAIN items = 1 .. n /\ \A i \in 1 .. n : items[i] \in Item
  OBVIOUS
<1>2. update.status \in Statuses
  BY DEF DeskUpdate, RequestStatus, Statuses
<1>3. DOMAIN Renewed(items) = 1 .. n
  BY <1>1 DEF Renewed
<1>4. ASSUME NEW i \in 1 .. n
      PROVE  /\ Renewed(items)[i] \in Item /\ Renewed(items)[i].id = items[i].id
             /\ Renewed(items)[i].of = items[i].of
  <2>1. \/ Renewed(items)[i] = items[i]
        \/ Renewed(items)[i] = [items[i] EXCEPT !.status = update.status]
    BY <1>1 DEF Renewed
  <2>. QED BY <1>1, <1>2, <2>1 DEF Item
<1>. HIDE DEF n
<1>5. Renewed(items) = [i \in 1 .. n |-> Renewed(items)[i]]
  BY <1>1 DEF Renewed
<1>6. Renewed(items) \in Seq(Item)
  <2>1. Renewed(items) \in [1 .. n -> Item]
    BY <1>4, <1>5
  <2>. QED BY <1>1, <2>1
<1>. QED
  BY <1>1, <1>3, <1>4, <1>6

LEMMA UpdateDoneInv ==
    ASSUME DeskInv, DeskAssumption, UpdateDone
    PROVE  DeskInv'
<1>1. /\ update.state = "done" /\ update' = NoUpdate
      /\ UNCHANGED <<cursor, selected, detailLoading>>
      /\ detail' = IF detail.id = update.id THEN [detail EXCEPT !.status = update.status] ELSE detail
  BY DEF UpdateDone
<1>2. update \in DeskUpdate
  BY <1>1 DEF NoUpdate, DeskInv, DeskShape
<1>3. /\ detail' \in Detail /\ detail'.id = detail.id
      /\ detail' # NoDetail => detail # NoDetail /\ detail'.id \in Requests
  <2>1. detail \in Detail /\ update.status \in Statuses /\ update.id \in Requests
    BY <1>2 DEF DeskUpdate, RequestStatus, Statuses, DeskInv, DeskShape
  <2>2. detail' \in Detail /\ detail'.id = detail.id
    BY <1>1, <2>1 DEF Detail
  <2>3. detail = NoDetail => detail' = NoDetail
    BY <1>1, <2>1 DEF NoDetail, DeskAssumption
  <2>. QED BY <2>2, <2>3 DEF DeskInv, DeskShape
<1>4. CASE update.filter \notin {"all", update.status}
  <2>1. UNCHANGED <<filter, items>> /\ Reload(calls)
    BY <1>4 DEF UpdateDone
  <2>2. filter' \in Filters /\ detailLoading' \in BOOLEAN
    BY <1>1, <2>1 DEF DeskInv, DeskShape
  <2>. QED BY <1>1, <1>3, <2>1, <2>2, ReloadInv
<1>5. CASE update.filter \in {"all", update.status}
  <2>1. items' = Renewed(items) /\ UNCHANGED <<filter, loading, loadingMore, calls>>
    BY <1>5 DEF UpdateDone
  <2>2. /\ items' \in Seq(Item) /\ DOMAIN items' = DOMAIN items
        /\ \A i \in DOMAIN items : items'[i].id = items[i].id /\ items'[i].of = items[i].of
    BY <1>2, <2>1, RenewedListing DEF DeskInv, DeskShape
  <2>3. (items' = <<>>) = (items = <<>>)
    <3>1. items \in Seq(Item) /\ Len(items) \in Nat /\ DOMAIN items = 1 .. Len(items)
      BY DEF DeskInv, DeskShape
    <3>2. Len(items') = Len(items)
      BY <2>2, <3>1
    <3>. QED BY <2>2, <3>1, <3>2
  <2>4. ShownRequest(items', selected') = ShownRequest(items, selected)
    <3>1. items # <<>> => 1 \in DOMAIN items
      <4>1. items \in Seq(Item) /\ Len(items) \in Nat /\ DOMAIN items = 1 .. Len(items)
        BY DEF DeskInv, DeskShape
      <4>2. items # <<>> => Len(items) # 0
        BY <4>1
      <4>. QED BY <4>1, <4>2
    <3>. QED BY <1>1, <2>2, <2>3, <3>1 DEF ShownRequest
  <2>5. DeskShape'
    BY <1>1, <1>3, <2>1, <2>2, <2>3 DEF DeskInv, DeskShape
  <2>6. LiveCallsOK'
    BY <2>1, <2>3, <2>4 DEF DeskInv, LiveCallsOK
  <2>7. ShownRight'
    <3>1. Listing(items, filter) => Listing(items', filter)
      BY <2>2 DEF Listing
    <3>. QED BY <1>1, <1>3, <2>1, <2>2, <2>3, <2>4, <3>1 DEF DeskInv, ShownRight
  <2>. QED BY <2>5, <2>6, <2>7 DEF DeskInv
<1>. QED
  BY <1>4, <1>5

LEMMA UpdateConflictInv ==
    ASSUME DeskInv, DeskAssumption, UpdateConflict
    PROVE  DeskInv'
<1>1. PICK first : first = ListCall(0)
  OBVIOUS
<1>2. PICK cs : cs = Stale(calls, Pages) \cup {first}
  OBVIOUS
<1>3. PICK r : r = ShownRequest(items, selected)
  OBVIOUS
<1>4. /\ update' = NoUpdate /\ loading' = TRUE /\ loadingMore' = FALSE
      /\ UNCHANGED <<filter, items, cursor, selected>>
      /\ ReadDetail(cs, r)
  BY <1>1, <1>2, <1>3 DEF UpdateConflict
<1>5. WellAnswered(first) /\ first.live /\ first.arg = filter /\ first.what = "first"
  <2>1. first = [what |-> "first", arg |-> filter, from |-> 0, live |-> TRUE, answer |-> {}]
    BY <1>1 DEF ListCall
  <2>2. filter \in Filters
    BY DEF DeskInv, DeskShape
  <2>. QED BY <2>1, <2>2, NewListCall DEF Pages
<1>6. \A c \in cs : WellAnswered(c) /\ (c.live => c = first \/ c.what \notin Pages)
  <2>1. \A c \in Stale(calls, Pages) : WellAnswered(c) /\ (c.live => c.what \notin Pages)
    BY StaleWell DEF DeskInv, LiveCallsOK
  <2>. QED BY <1>2, <1>5, <2>1
<1>7. r \in Requests \cup {0}
  <2>1. items \in Seq(Item) /\ selected \in Requests \cup {0}
    BY DEF DeskInv, DeskShape
  <2>2. items # <<>> => items[1] \in Item
    <3>1. Len(items) \in Nat /\ (items # <<>> => Len(items) # 0)
      BY <2>1
    <3>. QED BY <2>1, <3>1
  <2>. QED BY <1>3, <2>1, <2>2 DEF ShownRequest, Item
<1>8. /\ detail' = NoDetail /\ detailLoading' \in BOOLEAN
      /\ \A c \in calls' : /\ WellAnswered(c)
                           /\ c.live => \/ c \in cs /\ c.what # "detail"
                                        \/ c.what = "detail" /\ c.arg = r
  BY <1>4, <1>6, <1>7, ReadDetailCalls
<1>9. \A c \in calls' : c.live => c = first \/ c.what \notin Pages
  BY <1>6, <1>8 DEF Pages
<1>10. DeskShape'
  <2>1. NoDetail \in Detail
    BY DEF NoDetail, Detail, Statuses, computeRequestTransitions
  <2>. QED BY <1>4, <1>8, <2>1 DEF DeskInv, DeskShape
<1>11. LiveCallsOK'
  BY <1>4, <1>5, <1>8, <1>9 DEF LiveCallsOK, Pages
<1>12. ShownRight'
  BY <1>4 DEF ShownRight
<1>. QED
  BY <1>10, <1>11, <1>12 DEF DeskInv

\* Every step of the window is one of the requests' own, or leaves the requests alone.
LEMMA DeskStepOfRequests ==
    ASSUME DeskInv, RequestsInv, [DeskNext]_<<deskVars, requestVars>>
    PROVE  [RequestsNext]_requestVars
<1>1. ASSUME NEW r \in Requests, NEW s \in RequestStatus, NEW e, UpdateStatus(r, s, e)
      PROVE  RequestsNext
  <2>1. e \in RequestStatus
    BY <1>1 DEF UpdateStatus, RequestsInv, RequestsTypeOK, RequestRow, RequestStatus, computeRequestTransitions
  <2>. QED BY <1>1, <2>1 DEF RequestsNext, AdminActs
<1>2. CASE OtherMoves
  <2>1. "closed" \in RequestStatus
    BY DEF RequestStatus, computeRequestTransitions
  <2>2. ASSUME NEW r \in Requests, NEW k \in ComputeKeys, NEW f \in Forms, CreateRequest(r, k, f)
        PROVE  RequestsNext
    BY <2>2 DEF RequestsNext, OwnerRequests
  <2>. QED BY <1>1, <1>2, <2>1, <2>2 DEF OtherMoves
<1>3. CASE ServerUpdates
  <2>1. update \in DeskUpdate
    BY <1>3 DEF ServerUpdates, NoUpdate, DeskInv, DeskShape
  <2>2. update.id \in Requests /\ update.status \in RequestStatus
    BY <2>1 DEF DeskUpdate
  <2>3. ASSUME NEW q \in Quotes, QuoteRequest(update.id, q, update.expected) PROVE RequestsNext
    <3>1. update.expected \in RequestStatus
      BY <2>3 DEF QuoteRequest, RequestStatus, computeRequestTransitions
    <3>. QED BY <2>2, <2>3, <3>1 DEF RequestsNext, AdminActs
  <2>. QED BY <1>1, <1>3, <2>2, <2>3 DEF ServerUpdates
<1>4. CASE ~OtherMoves /\ ~ServerUpdates
  <2>1. UNCHANGED requestVars
    BY <1>4 DEF DeskNext, Resolve, ChangeFilter, TypeAndTakeBack, Refresh, LoadMore, Select, SendUpdate, SendQuote,
       ServerReads, DropStale, DeliverList, DeliverDetail, Fail, UpdateDone, UpdateConflict
  <2>. QED BY <2>1
<1>. QED
  BY <1>2, <1>3, <1>4

LEMMA DeskStepInv ==
    ASSUME DeskInv, RequestsInv, DeskAssumption, [DeskNext]_<<deskVars, requestVars>>
    PROVE  DeskInv'
<1>0. /\ \A c \in calls : WellAnswered(c)
      /\ loadingMore \in BOOLEAN /\ detailLoading \in BOOLEAN /\ filter \in Filters
      /\ detail \in Detail /\ (detail # NoDetail => detail.id \in Requests)
      /\ update # NoUpdate => update \in DeskUpdate
  BY DEF DeskInv, DeskShape, LiveCallsOK
<1>1. ASSUME NEW f \in Filters, ChangeFilter(f) PROVE DeskInv'
  BY <1>0, <1>1, ReloadInv DEF ChangeFilter, detailVars
<1>2. CASE TypeAndTakeBack
  <2>1. \A c \in Stale(calls, Pages) : WellAnswered(c) /\ (c.live => c \in calls)
    BY <1>0, StaleWell
  <2>2. /\ calls' = Stale(calls, Pages) /\ loadingMore' = FALSE
        /\ UNCHANGED <<filter, items, cursor, loading, selected, detail, detailLoading, update>>
    BY <1>2 DEF TypeAndTakeBack, detailVars
  <2>. QED BY <1>0, <2>1, <2>2, FewerLiveInv
<1>3. CASE Refresh
  BY <1>0, <1>3, ReloadInv DEF Refresh, detailVars
<1>4. ASSUME NEW c \in calls, DropStale(c) PROVE DeskInv'
  <2>1. /\ calls' = calls \ {c}
        /\ UNCHANGED <<filter, items, cursor, loading, loadingMore, selected, detail, detailLoading, update>>
    BY <1>4 DEF DropStale, listVars, detailVars
  <2>. QED BY <1>0, <2>1, FewerLiveInv
<1>5. CASE UNCHANGED deskVars
  <2>1. UNCHANGED <<calls, filter, items, cursor, loading, loadingMore, selected, detail, detailLoading, update>>
    BY <1>5 DEF deskVars
  <2>. QED BY <1>0, <2>1, FewerLiveInv
<1>6. CASE OtherMoves
  BY <1>5, <1>6 DEF OtherMoves
<1>7. ASSUME NEW c \in calls, Resolve(c) PROVE DeskInv'
  BY <1>4, <1>7, ServerReadsInv, DeliverListInv, DeliverDetailInv, FailInv DEF Resolve
<1>8. CASE SendQuote
  <2>1. "quoted" \in RequestStatus
    BY DEF RequestStatus, computeRequestTransitions
  <2>. QED BY <1>8, <2>1, SendInv
<1>9. ASSUME NEW s \in RequestStatus, SendUpdate(s) PROVE DeskInv'
  BY <1>9, SendInv
<1>. QED
  BY <1>1, <1>2, <1>3, <1>5, <1>6, <1>7, <1>8, <1>9, LoadMoreInv, SelectInv, ServerUpdatesInv, UpdateDoneInv,
     UpdateConflictInv DEF DeskNext

LEMMA DeskInitInv == DeskAssumption /\ DeskInit => DeskInv
<1>. SUFFICES ASSUME DeskAssumption, DeskInit PROVE DeskInv
  OBVIOUS
<1>1. PICK first : first = ListCall(0)
  OBVIOUS
<1>2. /\ filter = "all" /\ items = <<>> /\ cursor = 0 /\ loading = TRUE /\ loadingMore = FALSE
      /\ selected = 0 /\ detail = NoDetail /\ detailLoading = FALSE
      /\ calls = {first} /\ update = NoUpdate
  BY <1>1 DEF DeskInit
<1>3. WellAnswered(first) /\ first.arg = filter /\ first.what = "first"
  <2>1. first = [what |-> "first", arg |-> filter, from |-> 0, live |-> TRUE, answer |-> {}]
    BY <1>1 DEF ListCall
  <2>2. filter \in Filters
    BY <1>2 DEF DeskAssumption
  <2>. QED BY <2>1, <2>2, NewListCall DEF Pages
<1>4. DeskShape
  <2>1. NoDetail \in Detail /\ <<>> \in Seq(Item)
    BY DEF NoDetail, Detail, Statuses, computeRequestTransitions
  <2>. QED BY <1>2, <2>1 DEF DeskShape, DeskAssumption
<1>5. LiveCallsOK
  BY <1>2, <1>3 DEF LiveCallsOK
<1>6. ShownRight
  BY <1>2 DEF ShownRight
<1>. QED
  BY <1>4, <1>5, <1>6 DEF DeskInv

\* The window moves requests only as ComputeRequests says, whatever has become of what it shows.
THEOREM DeskRunsRequests == DeskSpec => RequestsSpec
<1>1. DeskInit => DeskInv /\ RequestsInv /\ RequestsInit
  BY DeskAssumption, DeskInitInv, RequestsInitInv DEF DeskInit
<1>2. DeskInv /\ RequestsInv /\ [DeskNext]_<<deskVars, requestVars>> =>
         DeskInv' /\ RequestsInv' /\ [RequestsNext]_requestVars
  BY DeskAssumption, DeskStepInv, DeskStepOfRequests, RequestsStepInv
<1>. QED
  BY <1>1, <1>2, PTL DEF DeskSpec, RequestsSpec

\* The list is of the filter that is set, without repetition, and the details are of the request
\* shown, however answers, changes of the filter and updates overtake each other.
THEOREM ListsAreOfTheirFilter == DeskSpec => []ListIsOfFilter
<1>1. DeskInit => DeskInv /\ RequestsInv
  BY DeskAssumption, DeskInitInv, RequestsInitInv DEF DeskInit
<1>2. DeskInv /\ RequestsInv /\ [DeskNext]_<<deskVars, requestVars>> => DeskInv' /\ RequestsInv'
  BY DeskAssumption, DeskStepInv, DeskStepOfRequests, RequestsStepInv
<1>3. DeskInv => ListIsOfFilter
  BY DEF DeskInv, ShownRight, Listing, ListIsOfFilter
<1>. QED
  BY <1>1, <1>2, <1>3, PTL DEF DeskSpec

-----------------------------------------------------------------------------
(* Hosting applications *)

HostingStatuses == DOMAIN hostingTransitions

ApplicationRow == [status : HostingStatuses, draft : Drafts \cup {NoDraft}, revision : Nat,
                   started : Nat]

MachineRow == [status : DOMAIN deviceTransitions, created : Nat]

AskedMove == [a : Applications, status : HostingStatuses, draft : Drafts \cup {NoDraft},
              revision : Nat]

HostingTypeOK ==
    /\ application \in [Applications -> ApplicationRow]
    /\ machine \in [Applications \X Machines -> MachineRow]
    /\ sent \in [Operators -> AskedMove \cup {NoRequest}]
    /\ approved \in [Applications -> SUBSET (Drafts \cup {NoDraft})]

\* An application that is not sent in yet has no approvals, one that is has the draft
\* that every operator saw who moved it.
ApprovedOK ==
    \A a \in Applications :
        /\ application[a].status \in {"none", "draft"} => approved[a] = {}
        /\ application[a].status = "none" => application[a].revision = 0 /\ application[a].started = 0
        /\ approved[a] \subseteq {application[a].draft}

\* Who asked with the present revision saw the present draft.
AskedOK ==
    \A p \in Operators : sent[p] # NoRequest =>
        /\ sent[p].revision <= application[sent[p].a].revision
        /\ sent[p].revision = application[sent[p].a].revision =>
              sent[p].draft = application[sent[p].a].draft

\* The devices of an application are there exactly when it is in service.
MachinesOK ==
    \A a \in Applications, m \in Machines :
        /\ machine[a, m] # NoMachine <=> application[a].status \in InService
        /\ machine[a, m].status = "none" => machine[a, m] = NoMachine

HostingInv == HostingTypeOK /\ ApprovedOK /\ AskedOK /\ MachinesOK

\* No transition leads back to a draft or out of service, and service begins with
\* the deployment.
LEMMA HostingTransitions ==
    ASSUME NEW s \in HostingStatuses, NEW t \in hostingTransitions[s]
    PROVE  /\ t \in HostingStatuses /\ t \notin {"none", "draft"} /\ s # "none"
           /\ s \in InService => t \in InService /\ t # "deploying"
           /\ s \notin InService /\ t \in InService => t = "deploying"
BY DEF HostingStatuses, hostingTransitions, InService

LEMMA DeviceTransitions ==
    ASSUME NEW s \in DOMAIN deviceTransitions, NEW t \in deviceTransitions[s]
    PROVE  t \in DOMAIN deviceTransitions /\ s # "none" /\ t # "none"
BY DEF deviceTransitions

LEMMA HostingInitInv == HostingInit => HostingInv
<1>. SUFFICES ASSUME HostingInit PROVE HostingInv
  OBVIOUS
<1>1. /\ NoApplication \in ApplicationRow /\ NoApplication.status = "none"
      /\ NoApplication.revision = 0 /\ NoApplication.started = 0 /\ NoMachine \in MachineRow /\ "none" \notin InService
  BY DEF NoApplication, ApplicationRow, NoMachine, MachineRow, HostingStatuses,
     hostingTransitions, deviceTransitions, InService
<1>2. /\ \A a \in Applications : application[a] = NoApplication /\ approved[a] = {}
      /\ \A a \in Applications, m \in Machines : machine[a, m] = NoMachine
      /\ \A p \in Operators : sent[p] = NoRequest
  BY DEF HostingInit
<1>3. HostingTypeOK
  BY <1>1 DEF HostingTypeOK, HostingInit
<1>. QED
  BY <1>1, <1>2, <1>3 DEF HostingInv, ApprovedOK, AskedOK, MachinesOK

\* The owner writes an application that is a draft or new, with a new revision.
LEMMA OwnerWrites ==
    ASSUME HostingInv, NEW a \in Applications, NEW row \in ApplicationRow,
           application[a].status \in {"none", "draft"}, row.status \in {"draft", "submitted"},
           row.revision > application[a].revision,
           application' = [application EXCEPT ![a] = row],
           machine' = machine, sent' = sent, approved' = approved
    PROVE  HostingInv'
<1>1. /\ application \in [Applications -> ApplicationRow] /\ application'[a] = row
      /\ \A x \in Applications \ {a} : application'[x] = application[x]
      /\ HostingTypeOK'
  BY DEF HostingInv, HostingTypeOK
<1>2. application[a].status \notin InService /\ row.status \notin InService
  BY DEF InService
<1>3. ApprovedOK' /\ MachinesOK'
  BY <1>1, <1>2 DEF HostingInv, ApprovedOK, MachinesOK
<1>4. ASSUME NEW p \in Operators, sent[p] # NoRequest
      PROVE  /\ sent[p].revision <= application'[sent[p].a].revision
             /\ sent[p].revision = application'[sent[p].a].revision =>
                   sent[p].draft = application'[sent[p].a].draft
  <2>1. sent[p] \in AskedMove /\ sent[p].revision <= application[sent[p].a].revision
    BY <1>4 DEF HostingInv, HostingTypeOK, AskedOK
  <2>2. CASE sent[p].a = a
    BY <1>1, <2>1, <2>2 DEF AskedMove, ApplicationRow
  <2>3. CASE sent[p].a # a
    BY <1>1, <1>4, <2>1, <2>3 DEF AskedMove, HostingInv, AskedOK
  <2>. QED BY <2>2, <2>3
<1>5. AskedOK'
  BY <1>4 DEF AskedOK
<1>. QED
  BY <1>1, <1>3, <1>5 DEF HostingInv

LEMMA OwnerInv ==
    ASSUME HostingInv, NEW a \in Applications, OwnerOf(a)
    PROVE  HostingInv'
<1>0. application[a] \in ApplicationRow
  BY DEF HostingInv, HostingTypeOK
<1>. PICK d \in Drafts, submit \in BOOLEAN : Apply(a, d, submit) \/ UpdateDraft(a, d, submit)
  BY DEF OwnerOf
<1>1. CASE Apply(a, d, submit)
  <2>. DEFINE row == [NoApplication EXCEPT !.status = IF submit THEN "submitted" ELSE "draft",
                                           !.draft = d, !.revision = 1]
  <2>1. /\ row \in ApplicationRow /\ row.status \in {"draft", "submitted"} /\ row.revision = 1
    BY DEF NoApplication, ApplicationRow, HostingStatuses, hostingTransitions
  <2>2. /\ application' = [application EXCEPT ![a] = row] /\ application[a].status = "none"
        /\ machine' = machine /\ sent' = sent /\ approved' = approved
    BY <1>1 DEF Apply
  <2>3. application[a].revision = 0
    BY <2>2 DEF HostingInv, ApprovedOK
  <2>. HIDE DEF row
  <2>4. row.revision > application[a].revision
    BY <2>1, <2>3
  <2>. QED
    BY <2>1, <2>2, <2>4, OwnerWrites
<1>2. CASE UpdateDraft(a, d, submit)
  <2>. DEFINE v == application[a].revision + 1
              s == IF submit THEN "submitted" ELSE application[a].status
              row == [application[a] EXCEPT !.status = s, !.draft = d, !.revision = v]
  <2>1. /\ application' = [application EXCEPT ![a] = row] /\ application[a].status = "draft"
        /\ machine' = machine /\ sent' = sent /\ approved' = approved
    BY <1>2 DEF UpdateDraft, Editable
  <2>2. v \in Nat /\ v > application[a].revision /\ s \in {"draft", "submitted"}
        /\ s \in HostingStatuses
    BY <1>0, <2>1 DEF ApplicationRow, HostingStatuses, hostingTransitions
  <2>. HIDE DEF v, s
  <2>3. row \in ApplicationRow /\ row.status = s /\ row.revision = v
    BY <1>0, <2>2 DEF ApplicationRow
  <2>. HIDE DEF row
  <2>. QED
    BY <2>1, <2>2, <2>3, OwnerWrites
<1>. QED
  BY <1>1, <1>2

LEMMA AskMoveInv ==
    ASSUME HostingInv, NEW p \in Operators, NEW a \in Applications, NEW s \in HostingStatuses,
           AskMove(p, a, s)
    PROVE  HostingInv'
<1>. DEFINE r == [a |-> a, status |-> s, draft |-> application[a].draft,
                  revision |-> application[a].revision]
<1>1. application[a] \in ApplicationRow
  BY DEF HostingInv, HostingTypeOK
<1>2. /\ r \in AskedMove /\ r.a = a /\ r.draft = application[a].draft
      /\ r.revision = application[a].revision /\ r.revision \in Nat
  BY <1>1 DEF AskedMove, ApplicationRow
<1>3. /\ sent' = [sent EXCEPT ![p] = r] /\ application' = application /\ machine' = machine
      /\ approved' = approved
  BY DEF AskMove
<1>. HIDE DEF r
<1>4. HostingTypeOK' /\ ApprovedOK' /\ MachinesOK'
  BY <1>2, <1>3 DEF HostingInv, HostingTypeOK, ApprovedOK, MachinesOK
<1>5. AskedOK'
  BY <1>2, <1>3 DEF HostingInv, HostingTypeOK, AskedOK
<1>. QED
  BY <1>4, <1>5 DEF HostingInv

\* An operator's transition: the one who asked saw the draft there is.
LEMMA MoveApplicationInv ==
    ASSUME HostingInv, NEW p \in Operators, MoveApplication(p)
    PROVE  HostingInv'
<1>. DEFINE r == sent[p]
            row == application[r.a]
<1>0. /\ application \in [Applications -> ApplicationRow] /\ r \in AskedMove
      /\ machine \in [Applications \X Machines -> MachineRow]
      /\ sent \in [Operators -> AskedMove \cup {NoRequest}]
      /\ approved \in [Applications -> SUBSET (Drafts \cup {NoDraft})]
      /\ r.a \in Applications /\ row \in ApplicationRow /\ sent[p] # NoRequest
      /\ r.draft \in Drafts \cup {NoDraft}
  BY DEF HostingInv, HostingTypeOK, MoveApplication, AskedMove
<1>1. sent' = [sent EXCEPT ![p] = NoRequest]
  BY DEF MoveApplication
<1>2. sent'[p] = NoRequest /\ \A q \in Operators \ {p} : sent'[q] = sent[q]
  BY <1>0, <1>1
<1>3. CASE UNCHANGED <<application, machine, approved>>
  BY <1>0, <1>1, <1>2, <1>3 DEF HostingInv, HostingTypeOK, ApprovedOK, AskedOK, MachinesOK
<1>4. CASE /\ Fresh(r) /\ r.status \in hostingTransitions[row.status]
           /\ application' = [application EXCEPT ![r.a] =
                 [row EXCEPT !.status = r.status, !.revision = @ + 1, !.started = Started(row, r.status)]]
           /\ machine' = IF r.status = "deploying" THEN Deployed(r.a) ELSE machine
           /\ approved' = [approved EXCEPT ![r.a] = @ \cup {r.draft}]
  <2>. DEFINE v == row.revision + 1
              t == Started(row, r.status)
              new == [row EXCEPT !.status = r.status, !.revision = v, !.started = t]
              a == r.a
  <2>1. row.status \in HostingStatuses /\ row.revision \in Nat /\ v \in Nat /\ t \in Nat
    BY <1>0 DEF ApplicationRow, Started
  <2>2. /\ r.status \in HostingStatuses /\ r.status \notin {"none", "draft"}
        /\ row.status # "none"
        /\ row.status \in InService => r.status \in InService /\ r.status # "deploying"
        /\ row.status \notin InService /\ r.status \in InService => r.status = "deploying"
    BY <1>4, <2>1, HostingTransitions
  <2>3. row.revision = r.revision /\ row.draft = r.draft
    BY <1>0, <1>4 DEF Fresh, HostingInv, AskedOK
  <2>4. application' = [application EXCEPT ![a] = new]
    BY <1>4
  <2>5. /\ new \in ApplicationRow /\ new.status = r.status /\ new.revision = v
        /\ new.draft = row.draft
    <3>. HIDE DEF v, t
    <3>. QED BY <1>0, <2>1, <2>2 DEF ApplicationRow
  <2>. HIDE DEF new
  <2>6. /\ application' \in [Applications -> ApplicationRow] /\ application'[a] = new
        /\ \A x \in Applications \ {a} : application'[x] = application[x]
    BY <1>0, <2>4, <2>5
  <2>7. /\ approved' \in [Applications -> SUBSET (Drafts \cup {NoDraft})]
        /\ approved'[a] = approved[a] \cup {r.draft}
        /\ \A x \in Applications \ {a} : approved'[x] = approved[x]
    BY <1>0, <1>4
  <2>8. ApprovedOK'
    BY <1>0, <2>2, <2>3, <2>5, <2>6, <2>7 DEF HostingInv, ApprovedOK
  <2>9. ASSUME NEW q \in Operators, sent'[q] # NoRequest
        PROVE  /\ sent'[q].revision <= application'[sent'[q].a].revision
               /\ sent'[q].revision = application'[sent'[q].a].revision =>
                     sent'[q].draft = application'[sent'[q].a].draft
    <3>1. /\ q # p /\ sent'[q] = sent[q] /\ sent[q] \in AskedMove
          /\ sent[q].revision <= application[sent[q].a].revision
          /\ sent[q].revision = application[sent[q].a].revision =>
                sent[q].draft = application[sent[q].a].draft
          /\ sent[q].a \in Applications /\ sent[q].revision \in Nat
      BY <1>0, <1>2, <2>9 DEF HostingInv, AskedOK, AskedMove
    <3>2. CASE sent[q].a = a
      BY <2>1, <2>5, <2>6, <3>1, <3>2
    <3>3. CASE sent[q].a # a
      BY <2>6, <3>1, <3>3
    <3>. QED BY <3>2, <3>3
  <2>10. AskedOK'
    BY <2>9 DEF AskedOK
  <2>11. /\ machine' \in [Applications \X Machines -> MachineRow]
         /\ \A x \in Applications, m \in Machines : x # a => machine'[x, m] = machine[x, m]
         /\ \A m \in Machines :
               /\ machine'[a, m] # NoMachine <=> r.status \in InService
               /\ machine'[a, m].status = "none" => machine'[a, m] = NoMachine
    <3>1. \A m \in Machines :
             /\ machine[a, m] # NoMachine <=> row.status \in InService
             /\ machine[a, m].status = "none" => machine[a, m] = NoMachine
      BY <1>0 DEF HostingInv, MachinesOK
    <3>2. CASE r.status # "deploying"
      <4>1. machine' = machine
        BY <1>4, <3>2
      <4>2. r.status \in InService <=> row.status \in InService
        BY <2>2, <3>2
      <4>. QED BY <1>0, <3>1, <4>1, <4>2
    <3>3. CASE r.status = "deploying"
      <4>. DEFINE one == [status |-> "deploying", created |-> row.revision]
      <4>1. row.status \notin InService /\ r.status \in InService
        BY <2>2, <3>3 DEF InService
      <4>2. ~\E m \in Machines : machine[a, m] # NoMachine
        BY <3>1, <4>1
      <4>3. machine' = [d \in DOMAIN machine |-> IF d[1] = a THEN one ELSE machine[d]]
        BY <1>4, <3>3, <4>2 DEF Deployed
      <4>4. one \in MachineRow /\ one # NoMachine /\ one.status # "none"
        BY <2>1 DEF MachineRow, NoMachine, deviceTransitions
      <4>. HIDE DEF one
      <4>5. machine' = [d \in Applications \X Machines |-> IF d[1] = a THEN one ELSE machine[d]]
        BY <1>0, <4>3
      <4>6. \A x \in Applications, m \in Machines :
               machine'[x, m] = IF x = a THEN one ELSE machine[x, m]
        BY <4>5
      <4>7. machine' \in [Applications \X Machines -> MachineRow]
        BY <1>0, <4>4, <4>5
      <4>. QED BY <1>0, <4>1, <4>4, <4>6, <4>7
    <3>. QED BY <3>2, <3>3
  <2>12. MachinesOK'
    BY <2>5, <2>6, <2>11, ZenonT(30) DEF HostingInv, MachinesOK
  <2>13. HostingTypeOK'
    BY <1>0, <1>1, <2>6, <2>7, <2>11 DEF HostingTypeOK
  <2>. QED
    BY <2>8, <2>10, <2>12, <2>13 DEF HostingInv
<1>. QED
  BY <1>3, <1>4 DEF MoveApplication

LEMMA MoveMachineInv ==
    ASSUME HostingInv, NEW a \in Applications, NEW m \in Machines,
           NEW s \in DOMAIN deviceTransitions, MoveMachine(a, m, s)
    PROVE  HostingInv'
<1>1. /\ machine \in [Applications \X Machines -> MachineRow] /\ machine[a, m] \in MachineRow
      /\ machine' = [machine EXCEPT ![<<a, m>>] = [machine[a, m] EXCEPT !.status = s]]
      /\ application' = application /\ sent' = sent /\ approved' = approved
  BY DEF MoveMachine, HostingInv, HostingTypeOK
<1>2. machine[a, m].status # "none" /\ s # "none"
  BY <1>1, DeviceTransitions DEF MoveMachine, MachineRow
<1>. DEFINE one == [machine[a, m] EXCEPT !.status = s]
<1>3. one \in MachineRow /\ one.status = s
  BY <1>1 DEF MachineRow
<1>. HIDE DEF one
<1>4. machine[a, m] # NoMachine /\ one # NoMachine
  <2>1. NoMachine.status = "none"
    BY DEF NoMachine
  <2>. QED BY <1>2, <1>3, <2>1
<1>5. /\ machine' \in [Applications \X Machines -> MachineRow] /\ machine'[a, m] = one
      /\ \A x \in Applications, n \in Machines :
            <<x, n>> # <<a, m>> => machine'[x, n] = machine[x, n]
  BY <1>1, <1>3 DEF one
<1>6. \A x \in Applications, n \in Machines :
          /\ machine[x, n] # NoMachine <=> application[x].status \in InService
          /\ machine[x, n].status = "none" => machine[x, n] = NoMachine
  BY DEF HostingInv, MachinesOK
<1>7. ASSUME NEW x \in Applications, NEW n \in Machines
      PROVE  /\ machine'[x, n] # NoMachine <=> application'[x].status \in InService
             /\ machine'[x, n].status = "none" => machine'[x, n] = NoMachine
  <2>1. CASE x = a /\ n = m
    BY <1>1, <1>2, <1>3, <1>4, <1>5, <1>6, <2>1
  <2>2. CASE ~(x = a /\ n = m)
    <3>1. <<x, n>> # <<a, m>>
      BY <2>2
    <3>2. machine'[x, n] = machine[x, n]
      BY <1>5, <3>1
    <3>3. application'[x] = application[x]
      BY <1>1
    <3>. QED BY <1>6, <3>2, <3>3
  <2>. QED BY <2>1, <2>2
<1>8. MachinesOK'
  BY <1>7 DEF MachinesOK
<1>. QED
  BY <1>1, <1>5, <1>8 DEF HostingInv, HostingTypeOK, ApprovedOK, AskedOK

LEMMA HostingStepInv == HostingInv /\ [HostingNext]_hostingVars => HostingInv'
<1>. SUFFICES ASSUME HostingInv, [HostingNext]_hostingVars PROVE HostingInv'
  OBVIOUS
<1>1. CASE UNCHANGED hostingVars
  BY <1>1 DEF hostingVars, HostingInv, HostingTypeOK, ApprovedOK, AskedOK, MachinesOK
<1>. QED
  BY <1>1, OwnerInv, AskMoveInv, MoveApplicationInv, MoveMachineInv
     DEF HostingNext, OperatorRoutes, HostingStatuses

\* An application goes into service with the draft its operators had seen, and its
\* devices exist exactly from then on, in any order of owner and operator routes.
THEOREM DeploymentsAreReviewed == HostingSpec => []DeployedAsReviewed
<1>1. HostingInv => DeployedAsReviewed
  BY DEF HostingInv, ApprovedOK, MachinesOK, DeployedAsReviewed
<1>. QED
  BY <1>1, HostingInitInv, HostingStepInv, PTL DEF HostingSpec

\* The term of an application begins once, and a device is created once.
THEOREM TermsBeginOnce == HostingSpec => TermBeginsOnce
<1>. DEFINE Kept == \A a \in Applications :
                /\ application[a].started # 0 => application'[a].started = application[a].started
                /\ \A m \in Machines : machine[a, m] # NoMachine =>
                      machine'[a, m].created = machine[a, m].created
<1>1. HostingInv /\ HostingNext => Kept
  <2>. SUFFICES ASSUME HostingInv, HostingNext PROVE Kept
    OBVIOUS
  <2>0. /\ application \in [Applications -> ApplicationRow]
        /\ machine \in [Applications \X Machines -> MachineRow]
    BY DEF HostingInv, HostingTypeOK
  <2>1. ASSUME NEW a \in Applications, OwnerOf(a) PROVE Kept
    <3>1. machine' = machine
      BY <2>1 DEF OwnerOf, Apply, UpdateDraft
    <3>2. \A x \in Applications : application[x].started # 0 =>
             application'[x].started = application[x].started
      <4>. PICK d \in Drafts, submit \in BOOLEAN : Apply(a, d, submit) \/ UpdateDraft(a, d, submit)
        BY <2>1 DEF OwnerOf
      <4>1. CASE Apply(a, d, submit)
        BY <2>0, <4>1 DEF Apply, HostingInv, ApprovedOK
      <4>2. CASE UpdateDraft(a, d, submit)
        <5>. DEFINE row == [application[a] EXCEPT !.status = IF submit THEN "submitted" ELSE @,
                                                  !.draft = d, !.revision = @ + 1]
        <5>1. application' = [application EXCEPT ![a] = row]
          BY <4>2 DEF UpdateDraft
        <5>2. row.started = application[a].started
          BY <2>0 DEF ApplicationRow
        <5>. HIDE DEF row
        <5>. QED BY <2>0, <5>1, <5>2
      <4>. QED BY <4>1, <4>2
    <3>. QED BY <3>1, <3>2
  <2>2. ASSUME NEW p \in Operators, NEW a \in Applications, NEW s \in HostingStatuses,
               AskMove(p, a, s)
        PROVE  Kept
    BY <2>2 DEF AskMove
  <2>3. ASSUME NEW p \in Operators, MoveApplication(p) PROVE Kept
    <3>. DEFINE r == sent[p]
                row == application[r.a]
                t == Started(row, r.status)
    <3>1. CASE UNCHANGED <<application, machine, approved>>
      BY <3>1
    <3>2. CASE /\ application' = [application EXCEPT ![r.a] =
                     [row EXCEPT !.status = r.status, !.revision = @ + 1, !.started = t]]
               /\ machine' = IF r.status = "deploying" THEN Deployed(r.a) ELSE machine
      <4>1. r.a \in Applications /\ row \in ApplicationRow
        BY <2>3 DEF HostingInv, HostingTypeOK, MoveApplication, AskedMove
      <4>2. row.started # 0 => t = row.started
        BY DEF Started
      <4>. HIDE DEF t
      <4>3. \A x \in Applications : application[x].started # 0 =>
               application'[x].started = application[x].started
        BY <2>0, <3>2, <4>1, <4>2 DEF ApplicationRow
      <4>4. ASSUME NEW x \in Applications, NEW m \in Machines, machine[x, m] # NoMachine
            PROVE  machine'[x, m] = machine[x, m]
        <5>1. CASE r.status = "deploying" /\ x = r.a
          BY <3>2, <4>4, <5>1 DEF Deployed
        <5>2. CASE r.status = "deploying" /\ x # r.a
          <6>1. CASE \E n \in Machines : machine[r.a, n] # NoMachine
            BY <3>2, <5>2, <6>1 DEF Deployed
          <6>2. CASE ~\E n \in Machines : machine[r.a, n] # NoMachine
            <7>. DEFINE one == [status |-> "deploying", created |-> application[r.a].revision]
            <7>1. machine' = [d \in Applications \X Machines |-> IF d[1] = r.a THEN one ELSE machine[d]]
              BY <2>0, <3>2, <5>2, <6>2 DEF Deployed
            <7>. HIDE DEF one
            <7>2. machine'[x, m] = IF x = r.a THEN one ELSE machine[x, m]
              BY <7>1
            <7>. QED BY <5>2, <7>2
          <6>. QED BY <6>1, <6>2
        <5>3. CASE r.status # "deploying"
          BY <3>2, <5>3
        <5>. QED BY <5>1, <5>2, <5>3
      <4>. QED BY <4>3, <4>4
    <3>. QED BY <2>3, <3>1, <3>2 DEF MoveApplication
  <2>4. ASSUME NEW a \in Applications, NEW m \in Machines, NEW s \in DOMAIN deviceTransitions,
               MoveMachine(a, m, s)
        PROVE  Kept
    <3>1. /\ machine' = [machine EXCEPT ![<<a, m>>] = [machine[a, m] EXCEPT !.status = s]]
          /\ application' = application /\ machine[a, m] \in MachineRow
      BY <2>0, <2>4 DEF MoveMachine
    <3>. DEFINE one == [machine[a, m] EXCEPT !.status = s]
    <3>2. one.created = machine[a, m].created
      BY <3>1 DEF MachineRow
    <3>. HIDE DEF one
    <3>3. ASSUME NEW x \in Applications, NEW n \in Machines
          PROVE  machine'[x, n].created = machine[x, n].created
      <4>1. CASE x = a /\ n = m
        <5>1. machine'[a, m] = one
          BY <2>0, <3>1 DEF one
        <5>. QED BY <3>2, <4>1, <5>1
      <4>2. CASE ~(x = a /\ n = m)
        <5>1. <<x, n>> # <<a, m>>
          BY <4>2
        <5>. QED BY <2>0, <3>1, <5>1
      <4>. QED BY <4>1, <4>2
    <3>. QED BY <3>1, <3>3
  <2>. QED
    BY <2>1, <2>2, <2>3, <2>4 DEF HostingNext, OperatorRoutes, HostingStatuses
<1>2. HostingInv /\ [HostingNext]_hostingVars => [Kept]_hostingVars
  BY <1>1
<1>. QED
  BY <1>2, HostingInitInv, HostingStepInv, PTL DEF HostingSpec, TermBeginsOnce

\* The three together, as one run checks them.
THEOREM WorkAdvancesAsRead == ReviewedSpec => []AdvancedAsRead
BY TasksAreReviewed, DeliveriesAreAccepted, DeploymentsAreReviewed, PTL
   DEF ReviewedSpec, AdvancedAsRead

-----------------------------------------------------------------------------
(* What an answer costs *)

Prices == {NoPrice} \cup (UNION {o.rows : o \in Offers})
ChatSteps == {"idle", "selected", "claimed", "calling", "sent", "returned", "answered", "failed", "cancelled"}
Reservable == {"calling", "sent", "returned", "answered"}

ChatShape ==
    chat \in [at : ChatSteps, model : Models \cup {NoModel}, fallback : Models \cup {NoModel}, reserved : Nat,
              on : Models \cup {NoModel}, attempt : {0, 1}, calls : Nat, aborted : BOOLEAN,
              answer : Answers \cup {NoAnswer}, price : Prices, fallbackPrice : Prices,
              usage : [input : Nat, output : Nat], charge : Nat]

\* What an offer becomes when it is loaded.
From(o, c) ==
    /\ c.callable = Callable(o)
    /\ \A m \in Models : c.price[m] = IF m \in Listed(o) THEN PriceIn(o, m) ELSE NoPrice

\* The copy is an offer that the provider once made, or is empty and not used.
CatalogOK == offer \in Offers /\ (fresh => \E o \in Offers : From(o, catalog))

\* A price that a chat goes by was listed, the one of the model asked for while it was
\* advertised.
ListedAt(o, m, price) == o.status /\ PricesOf(o, m) = {price}

PricesTrue ==
    /\ chat.at \notin {"idle", "failed", "cancelled"} =>
          /\ chat.model \in Models
          /\ \E o \in Offers : ListedAt(o, chat.model, chat.price) /\ chat.model \in o.advertised
    /\ chat.fallback # NoModel =>
          /\ chat.fallback # chat.model
          /\ \E o \in Offers : ListedAt(o, chat.fallback, chat.fallbackPrice)
    /\ chat.at \in {"selected", "claimed"} => chat.on = chat.model
    /\ chat.at \in {"idle", "selected"} => chat.fallback = NoModel
    /\ chat.at \in Reservable =>
          /\ chat.on = chat.model \/ (chat.on = chat.fallback /\ chat.fallback # NoModel)
          /\ chat.reserved = Reserved(chat)

\* Two calls for each model.
CallsCounted ==
    /\ chat.calls <= 4
    /\ chat.at \in {"idle", "selected", "claimed"} => chat.calls = 0 /\ chat.attempt = 0
    /\ chat.at = "calling" => chat.calls <= chat.attempt + (IF chat.on = chat.model THEN 0 ELSE 2)
    /\ chat.at \in {"sent", "returned"} =>
          chat.calls <= chat.attempt + 1 + (IF chat.on = chat.model THEN 0 ELSE 2)

ModelInv == ChatShape /\ CatalogOK /\ PricesTrue /\ CallsCounted /\ PricedAsListed

\* What is listed for a model is its only valid price.
LEMMA OnlyPrice ==
  ASSUME NEW o \in Offers, NEW m \in Listed(o)
  PROVE  /\ o.status /\ PricesOf(o, m) = {PriceIn(o, m)} /\ PriceIn(o, m) # NoPrice /\ PriceIn(o, m) \in o.rows
         /\ (Authenticated(o) => m \in o.advertised)
<1>1. o.status /\ Cardinality(PricesOf(o, m)) = 1 /\ m \in {row.id : row \in ValidRows(o)} BY DEF Listed
<1>2. PricesOf(o, m) \subseteq o.rows BY DEF PricesOf, ValidRows
<1>3. IsFiniteSet(PricesOf(o, m)) BY <1>2, ProviderAssumption, FS_Subset
<1>4. PICK row : PricesOf(o, m) = {row} BY <1>1, <1>3, FS_Singleton
<1>5. PriceIn(o, m) = row BY <1>4 DEF PriceIn
<1>6. row \in ValidRows(o) /\ row.id = m BY <1>4 DEF PricesOf
<1>7. row.valid /\ row \in o.rows /\ (Authenticated(o) => m \in o.advertised) BY <1>6 DEF ValidRows
<1>8. row # NoPrice BY <1>7 DEF NoPrice
<1> QED BY <1>1, <1>4, <1>5, <1>7, <1>8

\* A source is what some offer becomes.
LEMMA SourceIsOffer ==
  ASSUME CatalogOK
  PROVE  \E o \in Offers :
            /\ Sources.callable => Authenticated(o)
            /\ \A m \in Models : Offered(m) =>
                  /\ ListedAt(o, m, Sources.price[m]) /\ Sources.price[m] \in Prices
                  /\ Authenticated(o) => m \in o.advertised
<1>1. PICK o \in Offers : From(o, Sources)
  <2>1. CASE fresh BY <2>1 DEF CatalogOK, Sources
  <2>2. CASE ~fresh
    <3>1. Loaded.callable = Callable(offer) BY DEF Loaded
    <3>2. \A m \in Models : Loaded.price[m] = IF m \in Listed(offer) THEN PriceIn(offer, m) ELSE NoPrice BY DEF Loaded
    <3> QED BY <2>2, <3>1, <3>2 DEF CatalogOK, Sources, From
  <2> QED BY <2>1, <2>2
<1>2. Sources.callable => Authenticated(o) BY <1>1 DEF From, Callable
<1>3. ASSUME NEW m \in Models, Offered(m)
      PROVE  /\ ListedAt(o, m, Sources.price[m]) /\ Sources.price[m] \in Prices
             /\ Authenticated(o) => m \in o.advertised
  <2>1. m \in Listed(o) /\ Sources.price[m] = PriceIn(o, m) BY <1>1, <1>3 DEF From, Offered
  <2> QED BY <2>1, OnlyPrice DEF ListedAt, Prices
<1> QED BY <1>2, <1>3

LEMMA SourceKept ==
  ASSUME CatalogOK, ListSources, UNCHANGED offer PROVE CatalogOK'
<1>1. catalog' = Sources /\ fresh' BY DEF ListSources
<1>2. \E o \in Offers : From(o, Sources)
  <2>1. CASE fresh BY <2>1 DEF CatalogOK, Sources
  <2>2. CASE ~fresh
    <3>1. Loaded.callable = Callable(offer) BY DEF Loaded
    <3>2. \A m \in Models : Loaded.price[m] = IF m \in Listed(offer) THEN PriceIn(offer, m) ELSE NoPrice BY DEF Loaded
    <3> QED BY <2>2, <3>1, <3>2 DEF CatalogOK, Sources, From
  <2> QED BY <2>1, <2>2
<1>3. PICK o \in Offers : From(o, Sources) BY <1>2
<1>4. From(o, catalog') BY <1>1, <1>3
<1> QED BY <1>1, <1>4 DEF CatalogOK

LEMMA OthersDiffer == ASSUME NEW m, Fallback(m) # NoModel
  PROVE Fallback(m) \in Models /\ Fallback(m) # m /\ Offered(Fallback(m))
<1> DEFINE P(i) == \A j \in Others(m) : i <= j
           k == CHOOSE i \in Others(m) : P(i)
<1>1. Others(m) # {} /\ Fallback(m) = Preferred[k] BY DEF Fallback
<1>2. Others(m) \subseteq 1..Len(Preferred) BY ProviderAssumption DEF Others
<1>3. \E i \in Others(m) : P(i)
  <2>1. Others(m) \subseteq Nat BY <1>2
  <2>2. PICK i \in Others(m) : \A j \in Others(m) : <<j, i>> \notin OpToRel(<, Nat)
    BY <1>1, <2>1, NatLessThanWellFounded, WFMin
  <2>3. ASSUME NEW j \in Others(m) PROVE i <= j
    <3>1. i \in Nat /\ j \in Nat BY <2>1
    <3>2. ~(j < i) BY <2>2, <3>1 DEF OpToRel
    <3> QED BY <3>1, <3>2
  <2> QED BY <2>3
<1>4. k \in Others(m) BY <1>3
<1> QED BY <1>1, <1>2, <1>4, ProviderAssumption DEF Others


\* The cost of what was used grows with it, and is at least a cent.
LEMMA ProductGrows == ASSUME NEW a \in Nat, NEW b \in Nat, NEW c \in Nat, a <= b
  PROVE a * c \in Nat /\ b * c \in Nat /\ a * c <= b * c
<1> DEFINE d == b - a
<1>1. d \in Nat /\ b = a + d OBVIOUS
<1> HIDE DEF d
<1>2. d * c \in Nat /\ a * c \in Nat BY <1>1
<1>3. (a + d) * c = a * c + d * c BY <1>1
<1> QED BY <1>1, <1>2, <1>3

Use == [input : Nat, output : Nat]

LEMMA PricesAreNumbers == ASSUME NEW p \in Prices PROVE p.input \in Nat /\ p.output \in Nat
<1>1. CASE p = NoPrice BY <1>1 DEF NoPrice
<1>2. CASE \E o \in Offers : p \in o.rows BY <1>2, ProviderAssumption
<1>3. p \in UNION {o.rows : o \in Offers} => \E o \in Offers : p \in o.rows OBVIOUS
<1> QED BY <1>1, <1>2, <1>3 DEF Prices

LEMMA CostGrows ==
  ASSUME NEW p \in Prices, NEW u \in Use, NEW v \in Use
  PROVE  /\ CostCents(p, u) \in Nat
         /\ u.input + u.output > 0 => CostCents(p, u) >= 1
         /\ u.input <= v.input /\ u.output <= v.output => CostCents(p, u) <= CostCents(p, v)
<1> DEFINE a == u.input * p.input
           b == u.output * p.output
           c == v.input * p.input
           d == v.output * p.output
<1>1. p.input \in Nat /\ p.output \in Nat BY PricesAreNumbers
<1>2. u.input \in Nat /\ u.output \in Nat /\ v.input \in Nat /\ v.output \in Nat BY DEF Use
<1>3. a \in Nat /\ b \in Nat /\ c \in Nat /\ d \in Nat BY <1>1, <1>2
<1>4. u.input <= v.input => a <= c BY <1>1, <1>2, ProductGrows
<1>5. u.output <= v.output => b <= d BY <1>1, <1>2, ProductGrows
<1>6. /\ CostCents(p, u) = IF u.input + u.output = 0 THEN 0
                           ELSE IF CeilDiv(a + b, 10) < 1 THEN 1 ELSE CeilDiv(a + b, 10)
      /\ CostCents(p, v) = IF v.input + v.output = 0 THEN 0
                           ELSE IF CeilDiv(c + d, 10) < 1 THEN 1 ELSE CeilDiv(c + d, 10)
  BY DEF CostCents
<1> HIDE DEF a, b, c, d
<1>7. CeilDiv(a + b, 10) \in Nat /\ CeilDiv(c + d, 10) \in Nat BY <1>3 DEF CeilDiv
<1>8. a <= c /\ b <= d => CeilDiv(a + b, 10) <= CeilDiv(c + d, 10) BY <1>3 DEF CeilDiv
<1> QED BY <1>2, <1>4, <1>5, <1>6, <1>7, <1>8


LEMMA ReservedBy ==
  ASSUME NEW c, NEW d, c.price = d.price, c.fallback = d.fallback, c.fallbackPrice = d.fallbackPrice
  PROVE  Reserved(c) = Reserved(d)
BY DEF Reserved

\* What is reserved covers the estimate for either model.
LEMMA ReservedCovers ==
  ASSUME NEW c, c.price \in Prices, c.fallbackPrice \in Prices
  PROVE  /\ Reserved(c) \in Nat /\ CostCents(c.price, Estimate) <= Reserved(c)
         /\ c.fallback # NoModel => CostCents(c.fallbackPrice, Estimate) <= Reserved(c)
<1>1. Estimate \in Use BY ProviderAssumption DEF Estimate, Use
<1>2. CostCents(c.price, Estimate) \in Nat /\ CostCents(c.fallbackPrice, Estimate) \in Nat BY <1>1, CostGrows
<1> HIDE DEF CostCents
<1> QED BY <1>2 DEF Reserved

LEMMA ModelInitHolds == ASSUME GatewayInit PROVE ModelInv
<1>1. ChatShape BY DEF GatewayInit, ChatShape, IdleChat, NoAnswer, ChatSteps, Prices
<1>2. chat = IdleChat BY DEF GatewayInit
<1>3. CatalogOK BY DEF GatewayInit, CatalogOK
<1>4. PricesTrue BY <1>2 DEF PricesTrue, IdleChat, Reservable
<1>5. CallsCounted BY <1>2 DEF CallsCounted, IdleChat
<1>6. PricedAsListed BY <1>2 DEF PricedAsListed, ChatAt, IdleChat
<1> QED BY <1>1, <1>3, <1>4, <1>5, <1>6 DEF ModelInv

\* The two steps that choose a model.
LEMMA GetModelKeeps == ASSUME ModelInv, NEW m \in Models, GetModel(m) PROVE ModelInv'
<1>1. CatalogOK' BY SourceKept DEF ModelInv, GetModel
<1>2. ChatShape /\ PricesTrue /\ CallsCounted /\ chat.at = "idle" BY DEF ModelInv, GetModel, ChatAt
<1>3. CASE Sources.callable /\ Offered(m)
  <2>1. PICK o \in Offers : ListedAt(o, m, Sources.price[m]) /\ Sources.price[m] \in Prices /\ m \in o.advertised
    BY <1>3, SourceIsOffer DEF ModelInv
  <2> DEFINE p == Sources.price[m]
  <2>2. chat' = [chat EXCEPT !.at = "selected", !.model = m, !.on = m, !.price = p] BY <1>3 DEF GetModel
  <2>3. ListedAt(o, m, p) /\ p \in Prices /\ m \in o.advertised BY <2>1
  <2> HIDE DEF p
  <2>4. ChatShape' BY <1>2, <2>2, <2>3 DEF ChatShape, ChatSteps
  <2>5. /\ chat'.at = "selected" /\ chat'.model = m /\ chat'.on = m /\ chat'.price = p
        /\ chat'.fallback = NoModel /\ chat'.calls = 0 /\ chat'.attempt = 0
    BY <1>2, <2>2 DEF ChatShape, PricesTrue, CallsCounted
  <2>6. PricesTrue' BY <2>3, <2>5 DEF PricesTrue, Reservable
  <2>7. CallsCounted' BY <2>5 DEF CallsCounted
  <2>8. PricedAsListed' BY <2>5 DEF PricedAsListed, ChatAt
  <2> QED BY <1>1, <2>4, <2>6, <2>7, <2>8 DEF ModelInv
<1>4. CASE ~(Sources.callable /\ Offered(m))
  <2>1. chat' = [chat EXCEPT !.at = "failed"] BY <1>4 DEF GetModel
  <2>2. ChatShape' BY <1>2, <2>1 DEF ChatShape, ChatSteps
  <2>3. chat'.at = "failed" /\ chat'.fallback = NoModel /\ chat'.calls = 0
    BY <1>2, <2>1 DEF ChatShape, PricesTrue, CallsCounted
  <2>4. PricesTrue' BY <2>3 DEF PricesTrue, Reservable
  <2>5. CallsCounted' BY <2>3 DEF CallsCounted
  <2>6. PricedAsListed' BY <2>3 DEF PricedAsListed, ChatAt
  <2> QED BY <1>1, <2>2, <2>4, <2>5, <2>6 DEF ModelInv
<1> QED BY <1>3, <1>4

LEMMA GetFallbackKeeps == ASSUME ModelInv, GetFallback PROVE ModelInv'
<1>1. CatalogOK' BY SourceKept DEF ModelInv, GetFallback
<1>2. ChatShape /\ PricesTrue /\ CallsCounted /\ chat.at = "selected" BY DEF ModelInv, GetFallback, ChatAt
<1> DEFINE f == Fallback(chat.model)
           p == IF f = NoModel THEN NoPrice ELSE Sources.price[f]
<1>3. chat' = [chat EXCEPT !.at = "claimed", !.fallback = f, !.fallbackPrice = p] BY DEF GetFallback
<1>4. /\ f \in Models \cup {NoModel} /\ p \in Prices
      /\ f # NoModel => f # chat.model /\ \E o \in Offers : ListedAt(o, f, p)
  <2>1. CASE f = NoModel BY <2>1 DEF Prices
  <2>2. CASE f # NoModel
    <3>1. f \in Models /\ f # chat.model /\ Offered(f) BY <2>2, OthersDiffer
    <3> HIDE DEF f
    <3>2. \E o \in Offers : ListedAt(o, f, Sources.price[f]) /\ Sources.price[f] \in Prices
      BY <3>1, SourceIsOffer DEF ModelInv
    <3> QED BY <2>2, <3>1, <3>2
  <2> QED BY <2>1, <2>2
<1> HIDE DEF f, p
<1>5. ChatShape' BY <1>2, <1>3, <1>4 DEF ChatShape, ChatSteps
<1>6. /\ chat'.at = "claimed" /\ chat'.model = chat.model /\ chat'.on = chat.on /\ chat'.price = chat.price
      /\ chat'.fallback = f /\ chat'.fallbackPrice = p /\ chat'.calls = chat.calls /\ chat'.attempt = chat.attempt
  BY <1>2, <1>3 DEF ChatShape
<1>7. PricesTrue' BY <1>2, <1>4, <1>6 DEF PricesTrue, Reservable
<1>8. CallsCounted' BY <1>2, <1>6 DEF CallsCounted
<1>9. PricedAsListed' BY <1>2, <1>6 DEF PricedAsListed, ChatAt, CallsCounted
<1> QED BY <1>1, <1>5, <1>7, <1>8, <1>9 DEF ModelInv

LEMMA ReserveKeeps == ASSUME ModelInv, ReserveEither PROVE ModelInv'
<1>1. CatalogOK' BY DEF ModelInv, ReserveEither, catalogVars, CatalogOK, From
<1>2. ChatShape /\ PricesTrue /\ CallsCounted /\ chat.at = "claimed" BY DEF ModelInv, ReserveEither, ChatAt
<1> DEFINE r == Reserved(chat)
<1>3. chat' = [chat EXCEPT !.at = "calling", !.reserved = r] BY DEF ReserveEither
<1>4. r \in Nat BY <1>2, ReservedCovers DEF ChatShape
<1>5. r = Reserved(chat) OBVIOUS
<1> HIDE DEF r
<1>6. ChatShape' BY <1>2, <1>3, <1>4 DEF ChatShape, ChatSteps
<1>7. /\ chat'.at = "calling" /\ chat'.model = chat.model /\ chat'.on = chat.on /\ chat'.price = chat.price
      /\ chat'.fallback = chat.fallback /\ chat'.fallbackPrice = chat.fallbackPrice /\ chat'.calls = chat.calls
      /\ chat'.attempt = chat.attempt /\ chat'.reserved = r
  BY <1>2, <1>3 DEF ChatShape
<1>8. Reserved(chat)' = r BY <1>5, <1>7, ReservedBy
<1>9. PricesTrue' BY <1>2, <1>7, <1>8 DEF PricesTrue, Reservable
<1>10. CallsCounted' BY <1>2, <1>7 DEF CallsCounted
<1>11. PricedAsListed' BY <1>2, <1>7 DEF PricedAsListed, ChatAt, CallsCounted
<1> QED BY <1>1, <1>6, <1>9, <1>10, <1>11 DEF ModelInv

\* What stays true of the prices while the provider is called.
LEMMA PricesKept ==
  ASSUME ChatShape, PricesTrue, chat.at \in Reservable, chat'.at \in Reservable \cup {"failed", "cancelled"},
         chat'.model = chat.model, chat'.price = chat.price, chat'.fallback = chat.fallback,
         chat'.fallbackPrice = chat.fallbackPrice, chat'.reserved = chat.reserved,
         chat'.on = chat.on \/ (chat'.on = chat.fallback /\ chat.fallback # NoModel)
  PROVE  PricesTrue'
<1>1. Reserved(chat)' = Reserved(chat) BY ReservedBy
<1> QED BY <1>1 DEF PricesTrue, Reservable

LEMMA CallKeeps == ASSUME ModelInv, CallProvider PROVE ModelInv'
<1>1. CatalogOK' BY DEF ModelInv, CallProvider, catalogVars, CatalogOK, From
<1>2. ChatShape /\ PricesTrue /\ CallsCounted /\ chat.at = "calling" BY DEF ModelInv, CallProvider, ChatAt
<1> DEFINE n == chat.calls + 1
<1>3. \/ chat' = [chat EXCEPT !.at = "cancelled"] \/ chat' = [chat EXCEPT !.at = "sent", !.calls = n]
  BY DEF CallProvider, EndChat
<1>9. n \in Nat /\ n = chat.calls + 1 BY <1>2 DEF ChatShape
<1> HIDE DEF n
<1>4. ChatShape'
  <2>1. CASE chat' = [chat EXCEPT !.at = "cancelled"] BY <1>2, <2>1 DEF ChatShape, ChatSteps
  <2>2. CASE chat' = [chat EXCEPT !.at = "sent", !.calls = n] BY <1>2, <1>9, <2>2 DEF ChatShape, ChatSteps
  <2> QED BY <1>3, <2>1, <2>2
<1>5. /\ chat'.model = chat.model /\ chat'.on = chat.on /\ chat'.price = chat.price
      /\ chat'.fallback = chat.fallback /\ chat'.fallbackPrice = chat.fallbackPrice
      /\ chat'.attempt = chat.attempt /\ chat'.reserved = chat.reserved
      /\ \/ chat'.at = "cancelled" /\ chat'.calls = chat.calls
         \/ chat'.at = "sent" /\ chat'.calls = chat.calls + 1
  <2>1. CASE chat' = [chat EXCEPT !.at = "cancelled"] BY <1>2, <2>1 DEF ChatShape
  <2>2. CASE chat' = [chat EXCEPT !.at = "sent", !.calls = n] BY <1>2, <1>9, <2>2 DEF ChatShape
  <2> QED BY <1>3, <2>1, <2>2
<1>6. PricesTrue' BY <1>2, <1>5, PricesKept DEF Reservable
<1>7. CallsCounted' BY <1>2, <1>5 DEF CallsCounted, ChatShape
<1>8. PricedAsListed' BY <1>5, <1>7 DEF PricedAsListed, ChatAt, CallsCounted
<1> QED BY <1>1, <1>4, <1>6, <1>7, <1>8 DEF ModelInv

LEMMA AnswerKeeps == ASSUME ModelInv, NEW a \in Answers, ProviderAnswers(a) PROVE ModelInv'
<1>1. CatalogOK' BY DEF ModelInv, ProviderAnswers, catalogVars, CatalogOK, From
<1>2. ChatShape /\ PricesTrue /\ CallsCounted /\ chat.at = "sent" BY DEF ModelInv, ProviderAnswers, ChatAt
<1>3. \/ chat' = [chat EXCEPT !.at = "cancelled"] \/ chat' = [chat EXCEPT !.at = "failed"]
      \/ chat.attempt = 0 /\ chat' = [chat EXCEPT !.at = "calling", !.attempt = 1]
      \/ chat' = [chat EXCEPT !.at = "returned", !.answer = a]
  BY Zenon DEF ProviderAnswers, EndChat
<1>4. ChatShape'
  <2>1. CASE chat' = [chat EXCEPT !.at = "cancelled"] BY <1>2, <2>1 DEF ChatShape, ChatSteps
  <2>2. CASE chat' = [chat EXCEPT !.at = "failed"] BY <1>2, <2>2 DEF ChatShape, ChatSteps
  <2>3. CASE chat' = [chat EXCEPT !.at = "calling", !.attempt = 1] BY <1>2, <2>3 DEF ChatShape, ChatSteps
  <2>4. CASE chat' = [chat EXCEPT !.at = "returned", !.answer = a] BY <1>2, <2>4 DEF ChatShape, ChatSteps
  <2> QED BY <1>3, <2>1, <2>2, <2>3, <2>4
<1>5. /\ chat'.model = chat.model /\ chat'.on = chat.on /\ chat'.price = chat.price
      /\ chat'.fallback = chat.fallback /\ chat'.fallbackPrice = chat.fallbackPrice
      /\ chat'.reserved = chat.reserved /\ chat'.calls = chat.calls
      /\ \/ chat'.at \in {"cancelled", "failed", "returned"} /\ chat'.attempt = chat.attempt
         \/ chat.attempt = 0 /\ chat'.at = "calling" /\ chat'.attempt = 1
  <2>1. CASE chat' = [chat EXCEPT !.at = "cancelled"] BY <1>2, <2>1 DEF ChatShape
  <2>2. CASE chat' = [chat EXCEPT !.at = "failed"] BY <1>2, <2>2 DEF ChatShape
  <2>3. CASE chat.attempt = 0 /\ chat' = [chat EXCEPT !.at = "calling", !.attempt = 1]
    BY <1>2, <2>3 DEF ChatShape
  <2>4. CASE chat' = [chat EXCEPT !.at = "returned", !.answer = a] BY <1>2, <2>4 DEF ChatShape
  <2> QED BY <1>3, <2>1, <2>2, <2>3, <2>4
<1>6. PricesTrue' BY <1>2, <1>5, PricesKept DEF Reservable
<1>7. CallsCounted' BY <1>2, <1>5 DEF CallsCounted, ChatShape
<1>8. PricedAsListed' BY <1>5, <1>7 DEF PricedAsListed, ChatAt, CallsCounted
<1> QED BY <1>1, <1>4, <1>6, <1>7, <1>8 DEF ModelInv

LEMMA TryFallbackKeeps == ASSUME ModelInv, TryFallback PROVE ModelInv'
<1>1. CatalogOK' BY DEF ModelInv, TryFallback, catalogVars, CatalogOK, From
<1>2. /\ ChatShape /\ PricesTrue /\ CallsCounted /\ chat.at = "returned"
      /\ chat.on = chat.model /\ chat.fallback # NoModel
  BY DEF ModelInv, TryFallback, ChatAt
<1>3. chat' = [chat EXCEPT !.at = "calling", !.attempt = 0, !.on = chat.fallback] BY DEF TryFallback
<1>4. ChatShape' BY <1>2, <1>3 DEF ChatShape, ChatSteps
<1>5. /\ chat'.model = chat.model /\ chat'.on = chat.fallback /\ chat'.price = chat.price
      /\ chat'.fallback = chat.fallback /\ chat'.fallbackPrice = chat.fallbackPrice
      /\ chat'.reserved = chat.reserved /\ chat'.calls = chat.calls /\ chat'.at = "calling" /\ chat'.attempt = 0
  BY <1>2, <1>3 DEF ChatShape
<1>6. PricesTrue' BY <1>2, <1>5, PricesKept DEF Reservable
<1>7. CallsCounted'
  <2>1. chat.fallback # chat.model BY <1>2 DEF PricesTrue
  <2>2. chat.calls <= 2 /\ chat.calls \in Nat BY <1>2 DEF CallsCounted, ChatShape
  <2> QED BY <1>5, <2>1, <2>2 DEF CallsCounted
<1>8. PricedAsListed' BY <1>5, <1>7 DEF PricedAsListed, ChatAt, CallsCounted
<1> QED BY <1>1, <1>4, <1>6, <1>7, <1>8 DEF ModelInv

LEMMA GiveUpKeeps == ASSUME ModelInv, GiveUp PROVE ModelInv'
<1>1. CatalogOK' BY DEF ModelInv, GiveUp, catalogVars, CatalogOK, From
<1>2. ChatShape /\ PricesTrue /\ CallsCounted /\ chat.at = "returned" BY DEF ModelInv, GiveUp, ChatAt
<1>3. \/ chat' = [chat EXCEPT !.at = "cancelled"] \/ chat' = [chat EXCEPT !.at = "failed"] BY DEF GiveUp, EndChat
<1>4. ChatShape' BY <1>2, <1>3 DEF ChatShape, ChatSteps
<1>5. /\ chat'.model = chat.model /\ chat'.on = chat.on /\ chat'.price = chat.price
      /\ chat'.fallback = chat.fallback /\ chat'.fallbackPrice = chat.fallbackPrice
      /\ chat'.reserved = chat.reserved /\ chat'.calls = chat.calls /\ chat'.at \in {"cancelled", "failed"}
  BY <1>2, <1>3 DEF ChatShape
<1>6. PricesTrue' BY <1>2, <1>5, PricesKept DEF Reservable
<1>7. CallsCounted' BY <1>2, <1>5 DEF CallsCounted, ChatShape
<1>8. PricedAsListed' BY <1>5, <1>7 DEF PricedAsListed, ChatAt, CallsCounted
<1> QED BY <1>1, <1>4, <1>6, <1>7, <1>8 DEF ModelInv

LEMMA AbortKeeps == ASSUME ModelInv, AbortChat PROVE ModelInv'
<1>1. CatalogOK' BY DEF ModelInv, AbortChat, catalogVars, CatalogOK, From
<1>2. ChatShape /\ PricesTrue /\ CallsCounted /\ chat.at \in {"calling", "sent", "returned"}
  BY DEF ModelInv, AbortChat
<1>3. chat' = [chat EXCEPT !.aborted = TRUE] BY DEF AbortChat
<1>4. ChatShape' BY <1>2, <1>3 DEF ChatShape
<1>5. /\ chat'.model = chat.model /\ chat'.on = chat.on /\ chat'.price = chat.price
      /\ chat'.fallback = chat.fallback /\ chat'.fallbackPrice = chat.fallbackPrice
      /\ chat'.reserved = chat.reserved /\ chat'.calls = chat.calls /\ chat'.at = chat.at
      /\ chat'.attempt = chat.attempt
  BY <1>2, <1>3 DEF ChatShape
<1>6. PricesTrue' BY <1>2, <1>5, PricesKept DEF Reservable
<1>7. CallsCounted' BY <1>2, <1>5 DEF CallsCounted
<1>8. PricedAsListed' BY <1>2, <1>5, <1>7 DEF PricedAsListed, ChatAt, CallsCounted
<1> QED BY <1>1, <1>4, <1>6, <1>7, <1>8 DEF ModelInv

\* An answer is charged.
LEMMA ChargeKeeps ==
  ASSUME ModelInv, NEW u \in Usages, NEW text \in {1, OutputLimit}, Charge(u, text) PROVE ModelInv'
<1>1. CatalogOK' BY DEF ModelInv, Charge, catalogVars, CatalogOK, From
<1>2. /\ ChatShape /\ PricesTrue /\ CallsCounted /\ chat.at = "returned" /\ WholeAnswer(chat.answer)
  BY DEF ModelInv, Charge, ChatAt
<1> DEFINE usage == Counted(u, text)
           price == PriceCharged
           cost == CostCents(price, usage)
<1>3. chat' = [chat EXCEPT !.at = "answered", !.usage = usage, !.charge = cost] BY DEF Charge
<1>4. usage \in Use /\ usage.input + usage.output > 0
  <2>1. u \in Use /\ InputEstimate \in Nat /\ OutputLimit \in Nat \ {0} BY ProviderAssumption DEF Use
  <2> QED BY <2>1 DEF Counted, Use
<1>5. /\ price = IF chat.on = chat.model THEN chat.price ELSE chat.fallbackPrice
      /\ price \in Prices
  BY <1>2 DEF PriceCharged, ChatShape
<1>6. Estimate \in Use /\ Estimate.input = InputEstimate /\ Estimate.output = OutputLimit
  BY ProviderAssumption DEF Estimate, Use
<1> HIDE DEF usage, price
<1>7. /\ cost \in Nat /\ cost >= 1
      /\ usage.input <= InputEstimate /\ usage.output <= OutputLimit => cost <= CostCents(price, Estimate)
  <2>1. /\ CostCents(price, usage) \in Nat
        /\ usage.input + usage.output > 0 => CostCents(price, usage) >= 1
        /\ usage.input <= Estimate.input /\ usage.output <= Estimate.output =>
              CostCents(price, usage) <= CostCents(price, Estimate)
    BY <1>4, <1>5, <1>6, CostGrows
  <2> QED BY <1>4, <1>6, <2>1
<1> HIDE DEF cost
<1>8. ChatShape' BY <1>2, <1>3, <1>4, <1>7 DEF ChatShape, ChatSteps, Use
<1>9. /\ chat'.model = chat.model /\ chat'.on = chat.on /\ chat'.price = chat.price
      /\ chat'.fallback = chat.fallback /\ chat'.fallbackPrice = chat.fallbackPrice
      /\ chat'.reserved = chat.reserved /\ chat'.calls = chat.calls /\ chat'.at = "answered"
      /\ chat'.answer = chat.answer /\ chat'.usage = usage /\ chat'.charge = cost
  BY <1>2, <1>3 DEF ChatShape
<1>10. PricesTrue' BY <1>2, <1>9, PricesKept DEF Reservable
<1>11. CallsCounted' BY <1>2, <1>9 DEF CallsCounted, ChatShape
<1>12. PricedAsListed'
  <2>1. PriceCharged' = price BY <1>5, <1>9 DEF PriceCharged
  <2>2. /\ CostCents(chat.price, Estimate) <= Reserved(chat) /\ Reserved(chat) \in Nat
        /\ chat.fallback # NoModel => CostCents(chat.fallbackPrice, Estimate) <= Reserved(chat)
        /\ CostCents(chat.price, Estimate) \in Nat /\ CostCents(chat.fallbackPrice, Estimate) \in Nat
    BY <1>2, <1>6, ReservedCovers, CostGrows DEF ChatShape
  <2>3. /\ chat.reserved = Reserved(chat) /\ chat.model \in Models
        /\ chat.on = chat.model \/ (chat.on = chat.fallback /\ chat.fallback # NoModel)
        /\ \E o \in Offers : ListedAt(o, chat.model, chat.price) /\ chat.model \in o.advertised
        /\ chat.fallback # NoModel => /\ chat.fallback # chat.model
                                      /\ \E o \in Offers : ListedAt(o, chat.fallback, chat.fallbackPrice)
    BY <1>2 DEF PricesTrue, Reservable
  <2>4. CostCents(price, Estimate) <= chat.reserved /\ CostCents(price, Estimate) \in Nat BY <1>5, <2>2, <2>3
  <2>5. \E o \in Offers : /\ o.status /\ (chat.on = chat.model => chat.on \in o.advertised)
                          /\ PricesOf(o, chat.on) = {price}
    BY <1>5, <2>3 DEF ListedAt
  <2>6. \E o \in Offers : /\ o.status /\ (chat.on = chat.model => chat.on \in o.advertised)
                          /\ {row \in ValidRows(o) : row.id = chat.on} = {price}
    BY <2>5 DEF PricesOf
  <2>7. chat.reserved \in Nat BY <1>2 DEF ChatShape
  <2>8. usage.input <= InputEstimate /\ usage.output <= OutputLimit => cost <= chat.reserved
    BY <1>7, <2>4, <2>7
  <2>9. chat.calls <= 4 BY <1>2 DEF CallsCounted
  <2> QED BY <1>2, <1>7, <1>9, <2>1, <2>6, <2>8, <2>9 DEF PricedAsListed, ChatAt
<1> QED BY <1>1, <1>8, <1>10, <1>11, <1>12 DEF ModelInv

\* The catalogue changes, or the copy grows old.
LEMMA CatalogMoves == ASSUME ModelInv, Reprice \/ Outdate PROVE ModelInv'
<1>1. UNCHANGED chat BY DEF Reprice, Outdate
<1>2. CatalogOK' BY DEF ModelInv, Reprice, Outdate, CatalogOK, From
<1>3. PriceCharged' = PriceCharged BY <1>1 DEF PriceCharged
<1>4. ChatShape' /\ PricesTrue' /\ CallsCounted' BY <1>1 DEF ModelInv, ChatShape, PricesTrue, CallsCounted
<1>5. PricedAsListed' BY <1>1, <1>3 DEF ModelInv, PricedAsListed, ChatAt
<1> QED BY <1>2, <1>4, <1>5 DEF ModelInv

ModelSpec == GatewayInit /\ [][GatewayNext]_gatewayVars

LEMMA ModelInvHolds == ModelSpec => []ModelInv
<1>1. GatewayInit => ModelInv BY ModelInitHolds
<1>2. ModelInv /\ [GatewayNext]_gatewayVars => ModelInv'
  <2> SUFFICES ASSUME ModelInv, [GatewayNext]_gatewayVars PROVE ModelInv' OBVIOUS
  <2>1. CASE \E m \in Models : GetModel(m) BY <2>1, GetModelKeeps
  <2>2. CASE GetFallback BY <2>2, GetFallbackKeeps
  <2>3. CASE ReserveEither BY <2>3, ReserveKeeps
  <2>4. CASE CallProvider BY <2>4, CallKeeps
  <2>5. CASE TryFallback BY <2>5, TryFallbackKeeps
  <2>6. CASE GiveUp BY <2>6, GiveUpKeeps
  <2>7. CASE AbortChat BY <2>7, AbortKeeps
  <2>8. CASE Reprice \/ Outdate BY <2>8, CatalogMoves
  <2>9. CASE \E a \in Answers : ProviderAnswers(a) BY <2>9, AnswerKeeps
  <2>10. CASE \E u \in Usages, text \in {1, OutputLimit} : Charge(u, text) BY <2>10, ChargeKeeps
  <2>11. CASE UNCHANGED gatewayVars
    <3>1. UNCHANGED <<offer, catalog, fresh, chat>> BY <2>11 DEF gatewayVars
    <3>2. PriceCharged' = PriceCharged BY <3>1 DEF PriceCharged
    <3> QED BY <3>1, <3>2 DEF ModelInv, ChatShape, CatalogOK, From, PricesTrue, CallsCounted, PricedAsListed, ChatAt
  <2> QED BY <2>1, <2>2, <2>3, <2>4, <2>5, <2>6, <2>7, <2>8, <2>9, <2>10, <2>11 DEF GatewayNext
<1> QED BY <1>1, <1>2, PTL DEF ModelSpec

\* An answer costs what a price list of the provider asked for the model that gave it,
\* and no more than was reserved if it kept within the limits of the request.
THEOREM AnswersArePricedAsListed == ModelSpec => []PricedAsListed
<1>1. ModelInv => PricedAsListed BY DEF ModelInv
<1> QED BY <1>1, ModelInvHolds, PTL

-----------------------------------------------------------------------------
(* The upgrade of an earlier release's tables                              *)

LedgerRow ==
    [key : {row.key : row \in OldEntries} \cup {OpeningKey, ChargeKey},
     type : WalletTypes \cup CreditTypes \cup {"opening_balance"},
     amount : Int, wallet : Int, credit : Int]

HoldRow == [status : {"none", "reserved"}, amount : Int, wallet : Int, lease : {"none", "live", "past"}]

WorkRow == [status : {"draft", "running", "complete", "failed"}, lease : {"none", "partial", "live", "past"}]

UpgradeShape ==
    /\ wallet \in Int /\ held \in HoldRow /\ work \in WorkRow
    /\ ledger \subseteq LedgerRow /\ IsFiniteSet(ledger)
    /\ leases \in [check : {"absent", "strict", "compat", "valid"}, trigger : BOOLEAN]
    /\ boot \in [Servers -> {"down", "started", "schema", "serving"}]

\* What the ledger says of an amount: all of it is allocated, and credit is no money.
Explained(row) ==
    /\ row.amount = row.wallet + row.credit
    /\ row.type \in CreditTypes => row.wallet = 0

\* Until the schema runs, every entry is one that its backfill explains.
Explicable ==
    ~migrated => \A row \in ledger : row.key # OpeningKey /\ Explained(Allocated(row))

MigratedOK ==
    migrated =>
        /\ wallet + HeldWallet = WalletEntries(ledger)
        /\ \A row \in ledger : Explained(row)
        /\ \A x, y \in ledger : x.key = OpeningKey /\ y.key = OpeningKey => x = y
        /\ leases.check \in {"compat", "valid"} /\ leases.trigger
        /\ \A c \in Constraints : checks[c] = "new"

BootOK ==
    /\ \A s \in Servers : boot[s] \in {"schema", "serving"} => migrated
    /\ \A s \in Servers : boot[s] = "serving" => leases.check = "valid"
    /\ leases.check = "valid" => migrated /\ Coherent(work)

UpgradeInv == UpgradeShape /\ Explicable /\ MigratedOK /\ BootOK

\* One entry more adds what it has of the wallet.
LEMMA WalletOfOneMore ==
    ASSUME NEW rows, IsFiniteSet(rows), \A x \in rows : x.wallet \in Int, NEW row, row \notin rows, row.wallet \in Int
    PROVE  WalletEntries(rows \cup {row}) = WalletEntries(rows) + row.wallet
<1>. SUFFICES ASSUME NEW more, NEW f, NEW h, more = rows \cup {row}, f = [x \in rows |-> x.wallet],
                     h = [x \in more |-> x.wallet]
              PROVE  SumFunctionOnSet(h, more) = SumFunctionOnSet(f, rows) + h[row] /\ h[row] = row.wallet
  BY DEF WalletEntries
<1>1. more = rows \cup {row} /\ row \notin rows
  OBVIOUS
<1>2. IsFiniteSet(rows)
  OBVIOUS
<1>3. \A x \in rows : f[x] \in Int
  OBVIOUS
<1>4. \A x \in rows : h[x] = f[x]
  OBVIOUS
<1>5. h[row] = row.wallet /\ h[row] \in Int
  OBVIOUS
<1>6. SumFunctionOnSet(h, more) = SumFunctionOnSet(f, rows) + h[row]
  BY ONLY <1>1, <1>2, <1>3, <1>4, <1>5, SumInsert
<1>. QED
  BY <1>5, <1>6

LEMMA WalletEntriesInt ==
    ASSUME NEW rows, IsFiniteSet(rows), \A x \in rows : x.wallet \in Int
    PROVE  WalletEntries(rows) \in Int
<1>. DEFINE f == [x \in rows |-> x.wallet]
<1>1. \A x \in rows : f[x] \in Int
  OBVIOUS
<1>. HIDE DEF f
<1>2. SumFunctionOnSet(f, rows) \in Int
  BY <1>1, SumInt
<1>. QED
  BY <1>2 DEF WalletEntries, f

\* The backfill of the allocation leaves the entries their keys.
LEMMA AllocatedRow ==
    ASSUME NEW row \in LedgerRow
    PROVE  Allocated(row) \in LedgerRow /\ Allocated(row).key = row.key
BY DEF Allocated, LedgerRow

LEMMA AllocatedLedger ==
    ASSUME NEW rows, rows \subseteq LedgerRow, IsFiniteSet(rows)
    PROVE  LET all == {Allocated(row) : row \in rows} IN all \subseteq LedgerRow /\ IsFiniteSet(all)
<1>. DEFINE all == {Allocated(row) : row \in rows}
            f == [row \in rows |-> Allocated(row)]
<1>1. all \subseteq LedgerRow
  BY AllocatedRow
<1>2. f \in Surjection(rows, all)
  BY DEF Surjection
<1>3. IsFiniteSet(all)
  <2>. HIDE DEF f, all
  <2>. QED BY <1>2, FS_Surjection
<1>. QED
  BY <1>1, <1>3

\* What an earlier release leaves is explained by the backfill.
LEMMA UpgradeInitInv == OldEntriesAssumption /\ UpgradeInit => UpgradeInv
<1>. SUFFICES ASSUME OldEntriesAssumption, UpgradeInit PROVE UpgradeInv
  OBVIOUS
<1>1. ASSUME NEW row \in OldEntries
      PROVE  /\ row \in LedgerRow /\ row.key # OpeningKey /\ Explained(Allocated(row))
             /\ Unallocated(row) \in LedgerRow /\ Unallocated(row).key # OpeningKey
             /\ Explained(Allocated(Unallocated(row)))
  <2>1. /\ row.wallet \in Int /\ row.credit \in Int /\ row.key # OpeningKey
        /\ row.type \in WalletTypes \cup CreditTypes /\ (row.type \in CreditTypes => row.wallet = 0)
        /\ row = [key |-> row.key, type |-> row.type, amount |-> row.wallet + row.credit,
                  wallet |-> row.wallet, credit |-> row.credit]
    BY DEF OldEntriesAssumption, Entry
  <2>2. PICK amount \in Int : amount = row.wallet + row.credit
    BY <2>1
  <2>3. row \in LedgerRow /\ row.amount = amount
    BY <2>1, <2>2 DEF LedgerRow
  <2>4. Explained(Allocated(row))
    BY <2>1, <2>2, <2>3 DEF Explained, Allocated, WalletTypes, CreditTypes, LedgerRow
  <2>5. /\ Unallocated(row) \in LedgerRow /\ Unallocated(row).key = row.key
        /\ Unallocated(row).type = row.type /\ Unallocated(row).amount = amount
        /\ Unallocated(row).wallet = 0 /\ Unallocated(row).credit = 0
    <3>2. PICK half : half = [row EXCEPT !.wallet = 0]
      OBVIOUS
    <3>3. half \in LedgerRow /\ half.key = row.key /\ half.type = row.type /\ half.amount = amount /\ half.wallet = 0
      BY <2>3, <3>2 DEF LedgerRow
    <3>4. Unallocated(row) = [half EXCEPT !.credit = 0]
      BY <3>2 DEF Unallocated
    <3>. QED BY <3>3, <3>4 DEF LedgerRow
  <2>6. Explained(Allocated(Unallocated(row)))
    <3>. DEFINE bare == Unallocated(row)
    <3>1. bare \in LedgerRow /\ bare.wallet = 0 /\ bare.credit = 0 /\ bare.type \in WalletTypes \cup CreditTypes
          /\ bare.amount \in Int
      BY <2>1, <2>5
    <3>. HIDE DEF bare
    <3>2. Explained(Allocated(bare))
      BY <3>1 DEF Explained, Allocated, WalletTypes, CreditTypes, LedgerRow
    <3>. QED BY <3>2 DEF bare
  <2>. QED BY <2>1, <2>3, <2>4, <2>5, <2>6
<1>2. PICK rows \in SUBSET OldEntries : ledger = IF earlier = "ancient" THEN {Unallocated(row) : row \in rows} ELSE rows
  BY DEF UpgradeInit
<1>3. IsFiniteSet(rows)
  BY FS_Subset DEF OldEntriesAssumption
<1>4. ledger \subseteq LedgerRow /\ \A row \in ledger : row.key # OpeningKey /\ Explained(Allocated(row))
  <2>1. CASE earlier = "ancient"
    <3>1. \A row \in ledger : \E old \in OldEntries : row = Unallocated(old)
      BY <1>2, <2>1
    <3>. QED BY <1>1, <3>1
  <2>2. CASE earlier # "ancient"
    BY <1>1, <1>2, <2>2
  <2>. QED BY <2>1, <2>2
<1>5. IsFiniteSet(ledger)
  <2>. DEFINE all == {Unallocated(row) : row \in rows}
              f == [row \in rows |-> Unallocated(row)]
  <2>1. f \in Surjection(rows, all)
    BY DEF Surjection
  <2>2. IsFiniteSet(all)
    <3>. HIDE DEF f, all
    <3>. QED BY <1>3, <2>1, FS_Surjection
  <2>. QED BY <1>2, <1>3, <2>2
<1>6. /\ wallet \in Int /\ ~migrated /\ leases.check \in {"absent", "strict"} /\ leases.trigger = FALSE
      /\ leases = [check |-> leases.check, trigger |-> leases.trigger]
      /\ boot = [s \in Servers |-> "down"]
  BY DEF UpgradeInit, OldEntriesAssumption
<1>7. held \in HoldRow
  BY DEF UpgradeInit, HoldRow, NotHeld, OldHold
<1>8. work \in WorkRow
  BY DEF UpgradeInit, WorkRow
<1>9. UpgradeShape
  BY <1>4, <1>5, <1>6, <1>7, <1>8 DEF UpgradeShape
<1>. QED
  BY <1>4, <1>6, <1>9 DEF UpgradeInv, Explicable, MigratedOK, BootOK

\* The opening balance is what the entries lack, and is only entered when they lack something.
LEMMA OpenedExplains ==
    ASSUME NEW rows, rows \subseteq LedgerRow, IsFiniteSet(rows), NEW h \in HoldRow, wallet \in Int,
           \A row \in rows : Explained(row),
           OpeningOf(rows, h) = 0 \/ \A row \in rows : row.key # OpeningKey,
           \A x, y \in rows : x.key = OpeningKey /\ y.key = OpeningKey => x = y
    PROVE  /\ Opened(rows, h) \subseteq LedgerRow /\ IsFiniteSet(Opened(rows, h))
           /\ wallet + (IF h.status = "reserved" THEN h.wallet ELSE 0) = WalletEntries(Opened(rows, h))
           /\ \A row \in Opened(rows, h) : Explained(row)
           /\ \A x, y \in Opened(rows, h) : x.key = OpeningKey /\ y.key = OpeningKey => x = y
<1>1. PICK all : all = WalletEntries(rows)
  OBVIOUS
<1>2. PICK hold : hold = IF h.status = "reserved" THEN h.wallet ELSE 0
  OBVIOUS
<1>3. \A x \in rows : x.wallet \in Int
  BY DEF LedgerRow
<1>4. all \in Int /\ hold \in Int /\ OpeningOf(rows, h) = (wallet + hold) - all
  BY <1>1, <1>2, <1>3, WalletEntriesInt DEF HoldRow, OpeningOf
<1>5. CASE OpeningOf(rows, h) = 0
  <2>1. Opened(rows, h) = rows /\ wallet + hold = all
    BY <1>4, <1>5 DEF Opened
  <2>. QED BY <1>1, <1>2, <2>1
<1>6. CASE OpeningOf(rows, h) # 0
  <2>1. PICK opening \in Int : opening = (wallet + hold) - all
    BY <1>4
  <2>2. PICK row : row = [key |-> OpeningKey, type |-> "opening_balance", amount |-> opening,
                          wallet |-> opening, credit |-> 0]
    OBVIOUS
  <2>3. opening + 0 = opening
    BY <2>1
  <2>4. Opened(rows, h) = rows \cup {row}
    BY <1>4, <1>6, <2>1, <2>2, <2>3 DEF Opened, Entry
  <2>5. /\ row \in LedgerRow /\ row \notin rows /\ row.key = OpeningKey /\ row.wallet = opening
        /\ Explained(row)
    BY <1>6, <2>2 DEF LedgerRow, Explained, CreditTypes
  <2>6. WalletEntries(rows \cup {row}) = all + opening
    BY <1>1, <1>3, <2>1, <2>5, WalletOfOneMore
  <2>7. wallet + hold = all + opening
    BY <1>4, <2>1
  <2>8. IsFiniteSet(rows \cup {row})
    BY FS_AddElement
  <2>. QED BY <1>2, <1>6, <2>4, <2>5, <2>6, <2>7, <2>8
<1>. QED
  BY <1>5, <1>6

LEMMA SchemaInv ==
    ASSUME UpgradeInv, NEW s \in Servers, Schema(s)
    PROVE  UpgradeInv'
<1>1. PICK rows : rows = IF migrated THEN ledger ELSE {Allocated(row) : row \in ledger}
  OBVIOUS
<1>2. PICK hold : hold = IF migrated THEN held ELSE Backfilled(held)
  OBVIOUS
<1>3. /\ ledger' = Opened(rows, hold) /\ held' = hold /\ migrated' = TRUE /\ leases' = LeaseSchema
      /\ boot' = [boot EXCEPT ![s] = "schema"] /\ wallet' = wallet /\ work' = work
      /\ \A c \in Constraints : checks'[c] = "new"
  BY <1>1, <1>2 DEF Schema, Widened
<1>4. rows \subseteq LedgerRow /\ IsFiniteSet(rows)
  BY <1>1, AllocatedLedger DEF UpgradeInv, UpgradeShape
<1>5. hold \in HoldRow
  BY <1>2 DEF UpgradeInv, UpgradeShape, Backfilled, HoldRow
<1>6. /\ \A row \in rows : Explained(row)
      /\ \A x, y \in rows : x.key = OpeningKey /\ y.key = OpeningKey => x = y
      /\ OpeningOf(rows, hold) = 0 \/ \A row \in rows : row.key # OpeningKey
  <2>1. CASE migrated
    <3>1. rows = ledger /\ hold = held
      BY <1>1, <1>2, <2>1
    <3>2. PICK all : all = WalletEntries(ledger)
      OBVIOUS
    <3>3. all \in Int /\ HeldWallet \in Int /\ wallet \in Int /\ wallet + HeldWallet = all
      BY <2>1, <3>2, WalletEntriesInt DEF UpgradeInv, UpgradeShape, MigratedOK, LedgerRow, HoldRow, HeldWallet
    <3>4. OpeningOf(rows, hold) = 0
      BY <3>1, <3>2, <3>3 DEF OpeningOf, HeldWallet
    <3>. QED BY <2>1, <3>1, <3>4 DEF UpgradeInv, MigratedOK
  <2>2. CASE ~migrated
    <3>1. \A row \in rows : \E old \in ledger : row = Allocated(old)
      BY <1>1, <2>2
    <3>2. \A old \in ledger : Explained(Allocated(old)) /\ Allocated(old).key # OpeningKey
      BY <2>2, AllocatedRow DEF UpgradeInv, UpgradeShape, Explicable
    <3>. QED BY <3>1, <3>2
  <2>. QED BY <2>1, <2>2
<1>7. wallet \in Int
  BY DEF UpgradeInv, UpgradeShape
<1>8. /\ ledger' \subseteq LedgerRow /\ IsFiniteSet(ledger')
      /\ wallet' + HeldWallet' = WalletEntries(ledger')
      /\ \A row \in ledger' : Explained(row)
      /\ \A x, y \in ledger' : x.key = OpeningKey /\ y.key = OpeningKey => x = y
  BY <1>3, <1>4, <1>5, <1>6, <1>7, OpenedExplains DEF HeldWallet
<1>9. /\ leases' \in [check : {"compat", "valid"}, trigger : {TRUE}]
      /\ leases'.check = "valid" => leases.check = "valid"
      /\ leases.check = "valid" => leases'.check = "valid"
  BY <1>3 DEF LeaseSchema
<1>10. UpgradeShape'
  BY <1>3, <1>5, <1>7, <1>8, <1>9 DEF UpgradeInv, UpgradeShape
<1>11. BootOK'
  BY <1>3, <1>9 DEF UpgradeInv, UpgradeShape, BootOK, Coherent, Running
<1>12. MigratedOK' /\ Explicable'
  BY <1>3, <1>8, <1>9 DEF MigratedOK, Explicable
<1>. QED
  BY <1>10, <1>11, <1>12 DEF UpgradeInv

LEMMA LeasesInv ==
    ASSUME UpgradeInv, NEW s \in Servers, Leases(s)
    PROVE  UpgradeInv'
<1>1. /\ boot[s] = "schema" /\ migrated
      /\ work' = IF LeaseExpired THEN Failed ELSE IF ~Running(work) THEN [work EXCEPT !.lease = "none"] ELSE work
      /\ held' = IF held.lease = "past" THEN NotHeld ELSE held
      /\ wallet' = wallet + (IF held.lease = "past" THEN HeldWallet ELSE 0)
      /\ UNCHANGED <<checks, migrated, ledger>>
  BY DEF Leases, UpgradeInv, BootOK
<1>2. work' \in WorkRow /\ Coherent(work')
  BY <1>1 DEF UpgradeInv, UpgradeShape, WorkRow, Failed, LeaseExpired, Running, Coherent
<1>3. leases' = [leases EXCEPT !.check = "valid"] /\ boot' = [boot EXCEPT ![s] = "serving"]
  BY <1>2 DEF Leases
<1>4. /\ held' \in HoldRow /\ wallet' \in Int /\ wallet' + HeldWallet' = wallet + HeldWallet
  <2>1. CASE held.lease = "past"
    BY <1>1, <2>1 DEF UpgradeInv, UpgradeShape, HoldRow, HeldWallet, NotHeld
  <2>2. CASE held.lease # "past"
    BY <1>1, <2>2 DEF UpgradeInv, UpgradeShape, HoldRow, HeldWallet
  <2>. QED BY <2>1, <2>2
<1>5. leases'.check = "valid" /\ leases'.trigger = leases.trigger
      /\ leases' \in [check : {"absent", "strict", "compat", "valid"}, trigger : BOOLEAN]
  BY <1>3 DEF UpgradeInv, UpgradeShape
<1>6. UpgradeShape'
  BY <1>1, <1>2, <1>3, <1>4, <1>5 DEF UpgradeInv, UpgradeShape
<1>7. MigratedOK' /\ Explicable'
  BY <1>1, <1>4, <1>5 DEF UpgradeInv, MigratedOK, Explicable
<1>8. BootOK'
  BY <1>1, <1>2, <1>3, <1>5 DEF UpgradeInv, BootOK
<1>. QED
  BY <1>6, <1>7, <1>8 DEF UpgradeInv

\* A task's row is written by whoever it is: the constraint in force binds it.
LEMMA WriteInv ==
    ASSUME UpgradeInv, NEW w \in WorkRow, Write(w),
           UNCHANGED <<earlier, checks, leases, migrated, wallet, ledger, held, boot>>
    PROVE  UpgradeInv'
<1>1. work' = Normalized(w) /\ Admitted(work')
  BY DEF Write
<1>2. work' \in WorkRow
  BY <1>1 DEF Normalized, WorkRow
<1>3. leases.check = "valid" => Coherent(work')
  BY <1>1 DEF Admitted
<1>. QED
  BY <1>2, <1>3 DEF UpgradeInv, UpgradeShape, Explicable, MigratedOK, BootOK, HeldWallet

LEMMA SettleHeldInv ==
    ASSUME UpgradeInv, NEW s \in Servers, SettleHeld(s)
    PROVE  UpgradeInv'
<1>1. PICK cost : cost = -held.wallet
  OBVIOUS
<1>2. PICK row : row = [key |-> ChargeKey, type |-> "usage", amount |-> cost, wallet |-> cost, credit |-> 0]
  OBVIOUS
<1>3. held.wallet \in Int /\ cost \in Int /\ cost + 0 = cost
  BY <1>1 DEF UpgradeInv, UpgradeShape, HoldRow
<1>4. /\ boot[s] = "serving" /\ held.status = "reserved" /\ \A x \in ledger : x.key # ChargeKey
      /\ ledger' = ledger \cup {row} /\ held' = NotHeld
      /\ UNCHANGED <<checks, leases, migrated, wallet, work, boot>>
  BY <1>1, <1>2, <1>3 DEF SettleHeld, Entry
<1>5. migrated
  BY <1>4 DEF UpgradeInv, BootOK
<1>6. /\ row \in LedgerRow /\ row.key # OpeningKey /\ Explained(row) /\ row.wallet = cost /\ row \notin ledger
  BY <1>2, <1>3, <1>4 DEF LedgerRow, Explained, WalletTypes, CreditTypes, OpeningKey, ChargeKey
<1>7. PICK all : all = WalletEntries(ledger)
  OBVIOUS
<1>8. IsFiniteSet(ledger) /\ \A x \in ledger : x.wallet \in Int
  BY DEF UpgradeInv, UpgradeShape, LedgerRow
<1>9. WalletEntries(ledger') = all + cost
  BY <1>3, <1>4, <1>6, <1>7, <1>8, WalletOfOneMore
<1>10. /\ wallet' \in Int /\ wallet' = wallet /\ HeldWallet' = 0 /\ wallet + held.wallet = all
  BY <1>4, <1>5, <1>7 DEF UpgradeInv, UpgradeShape, MigratedOK, HeldWallet, NotHeld
<1>11. wallet' + HeldWallet' = WalletEntries(ledger')
  BY <1>1, <1>3, <1>9, <1>10
<1>12. IsFiniteSet(ledger') /\ ledger' \subseteq LedgerRow
  BY <1>4, <1>6, <1>8, FS_AddElement DEF UpgradeInv, UpgradeShape
<1>13. held' \in HoldRow
  BY <1>4 DEF NotHeld, HoldRow
<1>14. UpgradeShape'
  BY <1>4, <1>10, <1>12, <1>13 DEF UpgradeInv, UpgradeShape
<1>15. MigratedOK' /\ Explicable'
  BY <1>4, <1>5, <1>6, <1>11 DEF UpgradeInv, MigratedOK, Explicable
<1>16. BootOK'
  BY <1>4 DEF UpgradeInv, BootOK, Coherent, Running
<1>. QED
  BY <1>14, <1>15, <1>16 DEF UpgradeInv

LEMMA UpgradeStepInv == OldEntriesAssumption /\ UpgradeInv /\ [UpgradeNext]_upgradeVars => UpgradeInv'
<1>. SUFFICES ASSUME OldEntriesAssumption, UpgradeInv, [UpgradeNext]_upgradeVars PROVE UpgradeInv'
  OBVIOUS
<1>. USE DEF HeldWallet
<1>1. CASE UNCHANGED upgradeVars
  BY <1>1 DEF upgradeVars, UpgradeInv, UpgradeShape, Explicable, MigratedOK, BootOK, Coherent, Running
<1>2. ASSUME NEW s \in Servers, Start(s) PROVE UpgradeInv'
  <2>1. /\ boot' = [boot EXCEPT ![s] = "started"]
        /\ UNCHANGED <<earlier, checks, leases, migrated, wallet, ledger, held, work>>
    BY <1>2 DEF Start
  <2>. QED BY <2>1 DEF UpgradeInv, UpgradeShape, Explicable, MigratedOK, BootOK, Coherent, Running
<1>3. ASSUME NEW s \in Servers, Stop(s) PROVE UpgradeInv'
  <2>1. /\ boot' = [boot EXCEPT ![s] = "down"]
        /\ UNCHANGED <<earlier, checks, leases, migrated, wallet, ledger, held, work>>
    BY <1>3 DEF Stop
  <2>. QED BY <2>1 DEF UpgradeInv, UpgradeShape, Explicable, MigratedOK, BootOK, Coherent, Running
<1>4. CASE OldStart
  <2>. DEFINE w == [status |-> "running", lease |-> IF earlier = "strict" THEN "live" ELSE work.lease]
  <2>1. w \in WorkRow
    BY DEF UpgradeInv, UpgradeShape, WorkRow
  <2>2. Write(w) /\ UNCHANGED <<earlier, checks, leases, migrated, wallet, ledger, held, boot>>
    BY <1>4 DEF OldStart
  <2>. HIDE DEF w
  <2>. QED BY <2>1, <2>2, WriteInv
<1>5. CASE OldFinish
  <2>. DEFINE w == [status |-> "complete", lease |-> IF earlier = "strict" THEN "none" ELSE work.lease]
  <2>1. w \in WorkRow
    BY DEF UpgradeInv, UpgradeShape, WorkRow
  <2>2. Write(w) /\ UNCHANGED <<earlier, checks, leases, migrated, wallet, ledger, held, boot>>
    BY <1>5 DEF OldFinish
  <2>. HIDE DEF w
  <2>. QED BY <2>1, <2>2, WriteInv
<1>6. ASSUME NEW s \in Servers, ClaimLeased(s) PROVE UpgradeInv'
  <2>. DEFINE w == [status |-> "running", lease |-> "live"]
  <2>1. w \in WorkRow
    BY DEF WorkRow
  <2>2. Write(w) /\ UNCHANGED <<earlier, checks, leases, migrated, wallet, ledger, held, boot>>
    BY <1>6 DEF ClaimLeased
  <2>. HIDE DEF w
  <2>. QED BY <2>1, <2>2, WriteInv
<1>7. CASE OldGift
  <2>1. wallet' = wallet + 1 /\ ~migrated /\ UNCHANGED <<earlier, checks, leases, migrated, ledger, held, work, boot>>
    BY <1>7 DEF OldGift
  <2>. QED BY <2>1 DEF UpgradeInv, UpgradeShape, Explicable, MigratedOK, BootOK, Coherent, Running
<1>8. CASE LeaseLapses
  <2>1. /\ work' = [work EXCEPT !.lease = IF work.lease = "live" THEN "past" ELSE work.lease]
        /\ held' = [held EXCEPT !.lease = IF held.lease = "live" THEN "past" ELSE held.lease]
        /\ UNCHANGED <<earlier, checks, leases, migrated, wallet, ledger, boot>>
    BY <1>8 DEF LeaseLapses
  <2>2. work' \in WorkRow /\ (Coherent(work) => Coherent(work'))
    BY <2>1 DEF UpgradeInv, UpgradeShape, WorkRow, Coherent, Running
  <2>3. held' \in HoldRow /\ held'.status = held.status /\ held'.wallet = held.wallet
    BY <2>1 DEF UpgradeInv, UpgradeShape, HoldRow
  <2>. QED BY <2>1, <2>2, <2>3 DEF UpgradeInv, UpgradeShape, Explicable, MigratedOK, BootOK
<1>9. ASSUME NEW s \in Servers, Reserve(s) PROVE UpgradeInv'
  <2>1. /\ held' = [status |-> "reserved", amount |-> 1, wallet |-> 1, lease |-> "live"] /\ held = NotHeld
        /\ wallet' = wallet - 1 /\ UNCHANGED <<earlier, checks, leases, migrated, ledger, work, boot>>
    BY <1>9 DEF Reserve
  <2>2. held' \in HoldRow /\ wallet \in Int
    BY <2>1 DEF HoldRow, UpgradeInv, UpgradeShape
  <2>3. wallet' \in Int /\ wallet' + HeldWallet' = wallet + HeldWallet
    BY <2>1, <2>2 DEF NotHeld
  <2>. QED BY <2>1, <2>2, <2>3 DEF UpgradeInv, UpgradeShape, Explicable, MigratedOK, BootOK, Coherent, Running
<1>. QED
  BY <1>1, <1>2, <1>3, <1>4, <1>5, <1>6, <1>7, <1>8, <1>9, SchemaInv, LeasesInv, SettleHeldInv DEF UpgradeNext

\* Whatever an earlier release has left and still writes, and however servers of this one start
\* and stop: from the schema on, the ledger explains the wallet and what is reserved of it, the
\* constraints hold and refuse nothing of the earlier release, and only an upgraded server serves.
THEOREM UpgradesAreSafe == UpgradeSpec => []UpgradeSafe
<1>1. UpgradeInv => LedgerExplains
  <2>. SUFFICES ASSUME UpgradeInv, migrated PROVE LedgerExplains
    BY DEF LedgerExplains
  <2>. DEFINE openings == {row \in ledger : row.key = OpeningKey}
  <2>1. openings = {} \/ \E x : openings = {x}
    BY DEF UpgradeInv, MigratedOK
  <2>2. Cardinality(openings) \in {0, 1}
    <3>. HIDE DEF openings
    <3>. QED BY <2>1, FS_EmptySet, FS_Singleton
  <2>3. Cardinality(openings) <= 1
    BY <2>2
  <2>. QED BY <2>3 DEF LedgerExplains, UpgradeInv, MigratedOK, Explained
<1>2. UpgradeInv => EarlierReleaseWrites
  <2>. SUFFICES ASSUME UpgradeInv PROVE EarlierReleaseWrites
    OBVIOUS
  <2>1. ASSUME migrated, leases.trigger, Coherent(work), NEW status \in {"running", "complete"}
        PROVE  Admitted(Normalized([work EXCEPT !.status = status]))
    <3>1. PICK w : w = Normalized([work EXCEPT !.status = status])
      OBVIOUS
    <3>2. Coherent(w)
      BY <2>1, <3>1 DEF Normalized, Coherent, Running, UpgradeInv, UpgradeShape, WorkRow
    <3>3. leases.check \in {"compat", "valid"}
      BY <2>1 DEF UpgradeInv, MigratedOK
    <3>. QED BY <3>1, <3>2, <3>3 DEF Admitted
  <2>. QED BY <2>1 DEF EarlierReleaseWrites, UpgradeInv, BootOK
<1>3. UpgradeInv => ServesUpgraded
  BY DEF UpgradeInv, BootOK, MigratedOK, ServesUpgraded
<1>4. UpgradeInv => UpgradeSafe
  BY <1>1, <1>2, <1>3 DEF UpgradeSafe
<1>. QED
  BY <1>4, OldEntriesAssumption, UpgradeInitInv, UpgradeStepInv, PTL DEF UpgradeSpec

-----------------------------------------------------------------------------
(* The proxy between a window and its agent                                *)

FrameRow ==
    [method : {"answer", "refused", "session/new", "session/prompt"}, cwd : {"none", "bound", "other"}, session : Nat]

ProxyShape ==
    /\ closed \in BOOLEAN /\ activeClient \in Clients \cup {NoClient}
    /\ renderer \in [Clients -> {"away", "open", "closing", "closed"}]
    /\ upstream \in [Clients -> {"none", "connecting", "open", "closing", "closed"}]
    /\ queuedFrames \in [Clients -> Seq(FrameRow)] /\ framesSent \in [Clients -> Seq(FrameRow)]
    /\ got \in [Clients -> Seq(FrameRow)]
    /\ creation \in [Clients -> {"none", "pending", "over"}]
    /\ boundSessionId \in [Clients -> Nat] /\ madeFor \in Seq(Clients)

\* A client that is served has a connection to the agent of its own, and the other way round.
SocketsOK ==
    /\ \A c \in Clients : renderer[c] = "open" <=> upstream[c] \in {"connecting", "open"}
    /\ \A c \in Clients : renderer[c] = "open" => activeClient = c
    /\ \A c \in Clients : renderer[c] = "away" => upstream[c] = "none" /\ boundSessionId[c] = 0
    /\ closed => \A c \in Clients : upstream[c] \in {"none", "closed"}

\* Of the frames s that come from c: one session, in the approved directory, before its
\* prompts; made is for whom the agent has made its sessions.
BoundFrames(c, s, made) ==
    /\ \A i, j \in DOMAIN s : s[i].method = "session/new" /\ s[j].method = "session/new" => i = j /\ s[i].cwd = "bound"
    /\ \A i \in DOMAIN s : s[i].method = "session/prompt" =>
          /\ s[i].session \in DOMAIN made /\ made[s[i].session] = c
          /\ \E j \in 1 .. (i - 1) : s[j].method = "session/new"

\* That a session was asked for.
AsksSession(s) == \E i \in DOMAIN s : s[i].method = "session/new"

\* What the agent has taken from a client or will, s for what the client has sent and q for
\* what waits; a client that may still send has asked for its session before it got one.
FramesOK(c, s, q, g, made) ==
    /\ BoundFrames(c, g \o q, made)
    /\ IsPrefix(g \o q, s)
    /\ renderer[c] = "away" => s = <<>> /\ q = <<>> /\ g = <<>>
    /\ renderer[c] = "open" => g \o q = s
    /\ upstream[c] = "open" => q = <<>>
    /\ creation[c] = "none" => ~AsksSession(g \o q)
    /\ boundSessionId[c] # 0 =>
          /\ boundSessionId[c] \in DOMAIN made /\ made[boundSessionId[c]] = c
          /\ renderer[c] = "open" => AsksSession(g)

FramesInv == \A c \in Clients : FramesOK(c, framesSent[c], queuedFrames[c], got[c], madeFor)

ProxyInv == ProxyShape /\ SocketsOK /\ FramesInv

LEMMA FramesAppend ==
  ASSUME NEW s \in Seq(FrameRow), NEW f \in FrameRow
  PROVE  /\ Append(s, f) \in Seq(FrameRow) /\ Len(Append(s, f)) = Len(s) + 1
         /\ DOMAIN Append(s, f) = 1 .. (Len(s) + 1) /\ DOMAIN s = 1 .. Len(s) /\ Len(s) \in Nat
         /\ Append(s, f)[Len(s) + 1] = f
         /\ \A i \in DOMAIN s : Append(s, f)[i] = s[i]
<1>1. Len(s) \in Nat /\ DOMAIN s = 1 .. Len(s) BY LenProperties
<1> QED BY <1>1, AppendProperties

LEMMA FramesJoin ==
  ASSUME NEW s \in Seq(FrameRow), NEW t \in Seq(FrameRow)
  PROVE  /\ s \o t \in Seq(FrameRow) /\ Len(s \o t) = Len(s) + Len(t)
         /\ Len(s) \in Nat /\ Len(t) \in Nat /\ DOMAIN s = 1 .. Len(s) /\ DOMAIN t = 1 .. Len(t)
         /\ DOMAIN (s \o t) = 1 .. (Len(s) + Len(t))
         /\ \A i \in DOMAIN s : (s \o t)[i] = s[i]
         /\ \A f \in FrameRow : Append(s \o t, f) = s \o Append(t, f)
         /\ s \o <<>> = s
<1>1. /\ Len(s) \in Nat /\ Len(t) \in Nat /\ DOMAIN s = 1 .. Len(s) /\ DOMAIN t = 1 .. Len(t)
  BY LenProperties
<1>2. PICK joined : joined = s \o t OBVIOUS
<1>3. /\ joined \in Seq(FrameRow) /\ Len(joined) = Len(s) + Len(t)
      /\ \A i \in 1 .. (Len(s) + Len(t)) : joined[i] = IF i <= Len(s) THEN s[i] ELSE t[i - Len(s)]
  BY <1>2, ConcatProperties
<1>4. DOMAIN joined = 1 .. (Len(s) + Len(t)) BY <1>3, LenProperties
<1>5. ASSUME NEW i \in DOMAIN s PROVE joined[i] = s[i]
  <2>1. i \in 1 .. (Len(s) + Len(t)) /\ i <= Len(s) BY <1>1
  <2> QED BY <1>3, <2>1
<1>6. ASSUME NEW f \in FrameRow PROVE Append(s \o t, f) = s \o Append(t, f)
  <2>1. Append(s \o t, f) = (s \o t) \o <<f>> BY <1>2, <1>3, AppendIsConcat
  <2>2. Append(t, f) = t \o <<f>> BY AppendIsConcat
  <2>3. <<f>> \in Seq(FrameRow) OBVIOUS
  <2>4. (s \o t) \o <<f>> = s \o (t \o <<f>>) BY <2>3, ConcatAssociative
  <2> QED BY <2>1, <2>2, <2>4
<1>7. s \o <<>> = s BY ConcatEmptySeq
<1> QED BY <1>1, <1>2, <1>3, <1>4, <1>5, <1>6, <1>7

\* What has asked for a session has asked, whatever comes after.
LEMMA AsksJoin ==
  ASSUME NEW s \in Seq(FrameRow), NEW t \in Seq(FrameRow), AsksSession(s) PROVE AsksSession(s \o t)
<1>1. PICK i \in DOMAIN s : s[i].method = "session/new" BY DEF AsksSession
<1>2. i \in DOMAIN (s \o t) /\ (s \o t)[i] = s[i] BY FramesJoin
<1> QED BY <1>1, <1>2 DEF AsksSession

\* The element i of a prefix is that of the sequence.
LEMMA PrefixByElements ==
  ASSUME NEW s \in Seq(FrameRow), NEW t \in Seq(FrameRow)
  PROVE  IsPrefix(s, t) <=> Len(s) <= Len(t) /\ \A i \in 1 .. Len(s) : s[i] = t[i]
<1>1. Len(s) \in Nat /\ Len(t) \in Nat BY LenProperties
<1>2. ASSUME Len(s) <= Len(t) PROVE SubSeq(s, 1, Len(s)) = SubSeq(t, 1, Len(s)) <=> \A i \in 1 .. Len(s) : s[i] = t[i]
  <2>1. /\ SubSeq(s, 1, Len(s)) = [i \in 1 .. Len(s) |-> s[i]]
        /\ SubSeq(t, 1, Len(s)) = [i \in 1 .. Len(s) |-> t[i]]
    BY <1>1, <1>2
  <2> QED BY <2>1
<1> QED BY <1>1, <1>2 DEF IsPrefix

LEMMA PrefixFacts ==
  ASSUME NEW s \in Seq(FrameRow), NEW t \in Seq(FrameRow), NEW f \in FrameRow
  PROVE  /\ IsPrefix(s, s)
         /\ IsPrefix(s, t) => IsPrefix(s, Append(t, f))
<1>1. IsPrefix(s, s) BY LenProperties DEF IsPrefix
<1>2. ASSUME IsPrefix(s, t) PROVE IsPrefix(s, Append(t, f))
  <2>1. Len(s) <= Len(t) /\ \A i \in 1 .. Len(s) : s[i] = t[i] BY <1>2, PrefixByElements
  <2>2. Len(s) \in Nat /\ Len(t) \in Nat BY LenProperties
  <2>3. Append(t, f) \in Seq(FrameRow) /\ Len(s) <= Len(Append(t, f)) BY <2>1, <2>2, FramesAppend
  <2>4. \A i \in 1 .. Len(s) : s[i] = Append(t, f)[i] BY <2>1, <2>2, FramesAppend
  <2> QED BY <2>3, <2>4, PrefixByElements
<1> QED BY <1>1, <1>2

\* Sessions that the agent makes later do not change whose the earlier ones are.
Grown(made, later) == later \in Seq(Clients) /\ \A i \in DOMAIN made : i \in DOMAIN later /\ later[i] = made[i]

LEMMA BoundGrown ==
  ASSUME NEW c, NEW s, NEW made, NEW later, Grown(made, later), BoundFrames(c, s, made)
  PROVE  BoundFrames(c, s, later)
BY DEF Grown, BoundFrames

LEMMA BoundAppend ==
  ASSUME NEW c, NEW s \in Seq(FrameRow), NEW f \in FrameRow, NEW made, BoundFrames(c, s, made),
         f.method = "session/new" => ~AsksSession(s) /\ f.cwd = "bound",
         f.method = "session/prompt" => f.session \in DOMAIN made /\ made[f.session] = c /\ AsksSession(s)
  PROVE  BoundFrames(c, Append(s, f), made)
<1> DEFINE t == Append(s, f)
<1>1. /\ DOMAIN t = 1 .. (Len(s) + 1) /\ DOMAIN s = 1 .. Len(s) /\ Len(s) \in Nat
      /\ t[Len(s) + 1] = f /\ \A i \in DOMAIN s : t[i] = s[i]
  BY FramesAppend
<1> HIDE DEF t
<1>2. ASSUME NEW i \in DOMAIN t, NEW j \in DOMAIN t, t[i].method = "session/new", t[j].method = "session/new"
      PROVE  i = j /\ t[i].cwd = "bound"
  <2>1. CASE f.method = "session/new"
    <3>1. i = Len(s) + 1 /\ j = Len(s) + 1 BY <1>1, <1>2, <2>1 DEF AsksSession
    <3> QED BY <3>1, <1>1, <2>1
  <2>2. CASE f.method # "session/new"
    <3>1. i \in DOMAIN s /\ j \in DOMAIN s BY <1>1, <1>2, <2>2
    <3> QED BY <3>1, <1>1, <1>2 DEF BoundFrames
  <2> QED BY <2>1, <2>2
<1>3. ASSUME NEW i \in DOMAIN t, t[i].method = "session/prompt"
      PROVE  /\ t[i].session \in DOMAIN made /\ made[t[i].session] = c
             /\ \E j \in 1 .. (i - 1) : t[j].method = "session/new"
  <2>1. CASE i = Len(s) + 1
    <3>1. PICK j \in DOMAIN s : s[j].method = "session/new" BY <2>1, <1>1, <1>3 DEF AsksSession
    <3>2. j \in 1 .. (i - 1) /\ t[j].method = "session/new" BY <3>1, <2>1, <1>1
    <3> QED BY <3>2, <2>1, <1>1, <1>3
  <2>2. CASE i \in DOMAIN s
    <3>1. s[i] = t[i] BY <1>1, <2>2
    <3>2. PICK j \in 1 .. (i - 1) : s[j].method = "session/new" BY <3>1, <1>3, <2>2 DEF BoundFrames
    <3>3. j \in DOMAIN s BY <3>2, <2>2, <1>1
    <3>4. t[j].method = "session/new" BY <3>2, <3>3, <1>1
    <3> QED BY <3>1, <3>2, <3>4, <1>3, <2>2 DEF BoundFrames
  <2> QED BY <2>1, <2>2, <1>1
<1> QED BY <1>2, <1>3 DEF BoundFrames, t

\* A client whose frames stay as they were, or are forgotten.
LEMMA ClientKept ==
  ASSUME NEW c \in Clients, NEW s, NEW q, NEW g, NEW made, NEW later, NEW s1, NEW q1, NEW g1,
         FramesOK(c, s, q, g, made), Grown(made, later),
         boundSessionId'[c] = boundSessionId[c], creation'[c] = creation[c],
         renderer'[c] = "open" => renderer[c] = "open", renderer'[c] = "away" => renderer[c] = "away",
         upstream'[c] = "open" => upstream[c] = "open",
         \/ s1 = s /\ q1 = q /\ g1 = g
         \/ s1 = <<>> /\ q1 = <<>> /\ g1 = <<>> /\ renderer'[c] # "open"
  PROVE  FramesOK(c, s1, q1, g1, later)'
<1>1. CASE s1 = s /\ q1 = q /\ g1 = g
  <2>1. BoundFrames(c, g1 \o q1, later) BY <1>1, BoundGrown DEF FramesOK
  <2> QED BY <1>1, <2>1 DEF FramesOK, Grown
<1>2. CASE s1 = <<>> /\ q1 = <<>> /\ g1 = <<>> /\ renderer'[c] # "open"
  <2>1. g1 \o q1 = <<>> /\ DOMAIN (g1 \o q1) = {} BY <1>2
  <2>2. BoundFrames(c, g1 \o q1, later) /\ ~AsksSession(g1 \o q1) BY <2>1 DEF BoundFrames, AsksSession
  <2>3. IsPrefix(g1 \o q1, s1) BY <1>2, <2>1 DEF IsPrefix
  <2>4. boundSessionId'[c] # 0 => boundSessionId'[c] \in DOMAIN later /\ later[boundSessionId'[c]] = c
    BY DEF FramesOK, Grown
  <2> QED BY <1>2, <2>2, <2>3, <2>4 DEF FramesOK
<1> QED BY <1>1, <1>2

LEMMA ProxyStart == ProxyInit => ProxyInv
<1> SUFFICES ASSUME ProxyInit PROVE ProxyInv
  OBVIOUS
<1>0. <<>> \in Seq(FrameRow) /\ <<>> \in Seq(Clients) OBVIOUS
<1>1. ProxyShape
  <2>1. /\ [c \in Clients |-> <<>>] \in [Clients -> Seq(FrameRow)]
        /\ [c \in Clients |-> "away"] \in [Clients -> {"away", "open", "closing", "closed"}]
        /\ [c \in Clients |-> "none"] \in [Clients -> {"none", "connecting", "open", "closing", "closed"}]
        /\ [c \in Clients |-> "none"] \in [Clients -> {"none", "pending", "over"}]
        /\ [c \in Clients |-> 0] \in [Clients -> Nat]
    BY <1>0
  <2> QED BY <1>0, <2>1 DEF ProxyInit, ProxyShape
<1>3. SocketsOK BY DEF ProxyInit, SocketsOK, NoClient
<1>2. ASSUME NEW c \in Clients PROVE FramesOK(c, framesSent[c], queuedFrames[c], got[c], madeFor)
  <2>1. got[c] = <<>> /\ queuedFrames[c] = <<>> /\ framesSent[c] = <<>> /\ got[c] \o queuedFrames[c] = <<>>
    BY DEF ProxyInit
  <2>2. boundSessionId[c] = 0 BY DEF ProxyInit
  <2> QED BY <2>1, <2>2 DEF FramesOK, BoundFrames, AsksSession, IsPrefix
<1> QED BY <1>1, <1>2, <1>3 DEF ProxyInv, FramesInv

\* The clients that a step does not concern.
LEMMA OthersKept ==
  ASSUME ProxyInv, NEW c \in Clients, Grown(madeFor, madeFor'),
         framesSent'[c] = framesSent[c], queuedFrames'[c] = queuedFrames[c], got'[c] = got[c],
         boundSessionId'[c] = boundSessionId[c], creation'[c] = creation[c],
         renderer'[c] = "open" => renderer[c] = "open", renderer'[c] = "away" => renderer[c] = "away",
         upstream'[c] = "open" => upstream[c] = "open"
  PROVE  FramesOK(c, framesSent[c], queuedFrames[c], got[c], madeFor)'
<1>1. PICK s, q, g, later : s = framesSent'[c] /\ q = queuedFrames'[c] /\ g = got'[c] /\ later = madeFor'
  OBVIOUS
<1>2. PICK made : made = madeFor OBVIOUS
<1>3. FramesOK(c, s, q, g, made) BY <1>1, <1>2 DEF ProxyInv, FramesInv
<1>4. Grown(made, later) BY <1>1, <1>2
<1>5. FramesOK(c, s, q, g, later)' BY <1>3, <1>4, ClientKept
<1> QED BY <1>1, <1>5 DEF FramesOK

LEMMA SameMade == ASSUME ProxyShape PROVE Grown(madeFor, madeFor)
BY DEF ProxyShape, Grown

LEMMA AcceptSafe ==
  ASSUME ProxyInv, NEW c \in Clients, Accept(c) PROVE ProxyInv'
<1>1. ProxyShape' BY DEF ProxyInv, ProxyShape, Accept, acpSessionVars
<1>2. SocketsOK'
  <2>1. CASE closed \/ activeClient # NoClient
    BY <2>1 DEF ProxyInv, ProxyShape, SocketsOK, Accept, acpSessionVars
  <2>2. CASE ~(closed \/ activeClient # NoClient)
    <3>1. \A d \in Clients : renderer[d] # "open"
      BY <2>2, ClientsAssumption DEF ProxyInv, SocketsOK
    <3> QED BY <2>2, <3>1 DEF ProxyInv, ProxyShape, SocketsOK, Accept, acpSessionVars
  <2> QED BY <2>1, <2>2
<1>3. ASSUME NEW d \in Clients PROVE FramesOK(d, framesSent[d], queuedFrames[d], got[d], madeFor)'
  <2>0. Grown(madeFor, madeFor') BY SameMade DEF ProxyInv, Accept, acpSessionVars
  <2>1. CASE d # c
    BY <2>0, <2>1, OthersKept DEF ProxyInv, ProxyShape, Accept, acpSessionVars
  <2>2. CASE d = c
    <3>0. /\ framesSent' = framesSent /\ queuedFrames' = queuedFrames /\ got' = got
          /\ boundSessionId' = boundSessionId /\ renderer[c] = "away"
      BY DEF Accept, acpSessionVars
    <3>a. FramesOK(c, framesSent[c], queuedFrames[c], got[c], madeFor) /\ SocketsOK BY DEF ProxyInv, FramesInv
    <3>b. got[c] = <<>> /\ queuedFrames[c] = <<>> /\ framesSent[c] = <<>> BY <3>0, <3>a DEF FramesOK
    <3>1. /\ got[c] = <<>> /\ queuedFrames[c] = <<>> /\ framesSent[c] = <<>>
          /\ got[c] \o queuedFrames[c] = <<>> /\ boundSessionId[c] = 0
      BY <3>0, <3>a, <3>b DEF SocketsOK
    <3> QED BY <2>2, <3>0, <3>1 DEF FramesOK, BoundFrames, AsksSession, IsPrefix
  <2> QED BY <2>1, <2>2
<1> QED BY <1>1, <1>2, <1>3 DEF ProxyInv, FramesInv

\* What has waited goes to the agent.
LEMMA OpensSafe ==
  ASSUME ProxyInv, NEW c \in Clients, UpstreamOpens(c) PROVE ProxyInv'
<1>0. /\ ProxyShape /\ got[c] \in Seq(FrameRow) /\ queuedFrames[c] \in Seq(FrameRow)
      /\ got[c] \o queuedFrames[c] \in Seq(FrameRow)
  BY FramesJoin DEF ProxyInv, ProxyShape
<1>1. ProxyShape'
  <2>1. got' \in [Clients -> Seq(FrameRow)] /\ queuedFrames' \in [Clients -> Seq(FrameRow)]
    BY <1>0 DEF ProxyShape, UpstreamOpens
  <2> QED BY <1>0, <2>1 DEF ProxyShape, UpstreamOpens, acpSessionVars
<1>2. SocketsOK' BY DEF ProxyInv, ProxyShape, SocketsOK, UpstreamOpens, acpSessionVars
<1>3. ASSUME NEW d \in Clients PROVE FramesOK(d, framesSent[d], queuedFrames[d], got[d], madeFor)'
  <2>0. Grown(madeFor, madeFor') BY SameMade DEF ProxyInv, UpstreamOpens, acpSessionVars
  <2>1. CASE d # c
    BY <2>0, <2>1, OthersKept DEF ProxyInv, ProxyShape, UpstreamOpens, acpSessionVars
  <2>2. CASE d = c
    <3>1. PICK g, q, s : g = got[c] /\ q = queuedFrames[c] /\ s = framesSent[c] OBVIOUS
    <3>2. /\ FramesOK(c, s, q, g, madeFor) /\ g \in Seq(FrameRow) /\ q \in Seq(FrameRow)
      BY <1>0, <3>1 DEF ProxyInv, FramesInv
    <3>3. /\ got'[c] = g \o q /\ queuedFrames'[c] = <<>> /\ framesSent'[c] = s /\ (g \o q) \o <<>> = g \o q
          /\ renderer' = renderer /\ creation' = creation /\ boundSessionId' = boundSessionId /\ madeFor' = madeFor
          /\ renderer[c] = "open"
      BY <1>0, <3>1 DEF ProxyShape, ProxyInv, SocketsOK, UpstreamOpens, acpSessionVars
    <3>4. AsksSession(g) => AsksSession(g \o q) BY <3>2, AsksJoin
    <3> QED BY <2>2, <3>2, <3>3, <3>4 DEF FramesOK
  <2> QED BY <2>1, <2>2
<1> QED BY <1>1, <1>2, <1>3 DEF ProxyInv, FramesInv

\* What is forgotten keeps the invariant of the frames.
LEMMA ForgetsSafe ==
  ASSUME ProxyInv, ForgetsClosed, madeFor' = madeFor, boundSessionId' = boundSessionId, creation' = creation,
         renderer' \in [Clients -> {"away", "open", "closing", "closed"}],
         \A c \in Clients : /\ renderer'[c] = "open" => renderer[c] = "open"
                            /\ renderer'[c] = "away" => renderer[c] = "away"
                            /\ upstream'[c] = "open" => upstream[c] = "open"
  PROVE  FramesInv' /\ queuedFrames' \in [Clients -> Seq(FrameRow)] /\ got' \in [Clients -> Seq(FrameRow)]
         /\ framesSent' \in [Clients -> Seq(FrameRow)]
<1>1. ASSUME NEW c \in Clients PROVE FramesOK(c, framesSent[c], queuedFrames[c], got[c], madeFor)'
  <2>1. PICK s, q, g, made : s = framesSent[c] /\ q = queuedFrames[c] /\ g = got[c] /\ made = madeFor
    OBVIOUS
  <2>2. PICK s1, q1, g1 : s1 = framesSent'[c] /\ q1 = queuedFrames'[c] /\ g1 = got'[c]
    OBVIOUS
  <2>3. \/ s1 = s /\ q1 = q /\ g1 = g
        \/ s1 = <<>> /\ q1 = <<>> /\ g1 = <<>> /\ renderer'[c] # "open"
    BY <2>1, <2>2 DEF ForgetsClosed, Blank
  <2>4. FramesOK(c, s, q, g, made) /\ Grown(made, made)
    BY <2>1, SameMade DEF ProxyInv, FramesInv
  <2>5. FramesOK(c, s1, q1, g1, made)' BY <2>3, <2>4, ClientKept
  <2> QED BY <2>1, <2>2, <2>5 DEF FramesOK
<1>2. \A c \in Clients : queuedFrames[c] \in Seq(FrameRow) /\ got[c] \in Seq(FrameRow) /\ framesSent[c] \in Seq(FrameRow)
  BY DEF ProxyInv, ProxyShape
<1>3. <<>> \in Seq(FrameRow) OBVIOUS
<1> QED BY <1>1, <1>2, <1>3 DEF FramesInv, ForgetsClosed, Blank

LEMMA GoesSafe ==
  ASSUME ProxyInv, NEW c \in Clients, UpstreamCloses(c) \/ ClientCloses(c) PROVE ProxyInv'
<1>1. /\ renderer' \in [Clients -> {"away", "open", "closing", "closed"}]
      /\ upstream' \in [Clients -> {"none", "connecting", "open", "closing", "closed"}]
      /\ activeClient' \in Clients \cup {NoClient} /\ closed' = closed
      /\ ForgetsClosed /\ madeFor' = madeFor /\ boundSessionId' = boundSessionId /\ creation' = creation
  <2>1. CASE UpstreamCloses(c) BY <2>1 DEF ProxyInv, ProxyShape, UpstreamCloses, Closing, acpSessionVars
  <2>2. CASE ClientCloses(c) BY <2>2 DEF ProxyInv, ProxyShape, ClientCloses, Closing, acpSessionVars
  <2> QED BY <2>1, <2>2
<1>2. /\ SocketsOK'
      /\ \A d \in Clients : /\ renderer'[d] = "open" => renderer[d] = "open"
                            /\ renderer'[d] = "away" => renderer[d] = "away"
                            /\ upstream'[d] = "open" => upstream[d] = "open"
  <2>1. CASE UpstreamCloses(c)
    BY <2>1 DEF ProxyInv, ProxyShape, SocketsOK, UpstreamCloses, Closing, acpSessionVars
  <2>2. CASE ClientCloses(c)
    BY <2>2 DEF ProxyInv, ProxyShape, SocketsOK, ClientCloses, Closing, acpSessionVars
  <2> QED BY <2>1, <2>2
<1>3. /\ FramesInv' /\ queuedFrames' \in [Clients -> Seq(FrameRow)] /\ got' \in [Clients -> Seq(FrameRow)]
      /\ framesSent' \in [Clients -> Seq(FrameRow)]
  BY <1>1, <1>2, ForgetsSafe
<1> QED BY <1>1, <1>2, <1>3 DEF ProxyInv, ProxyShape

LEMMA CloseAllSafe ==
  ASSUME ProxyInv, CloseAll PROVE ProxyInv'
<1>1. /\ renderer' \in [Clients -> {"away", "open", "closing", "closed"}]
      /\ upstream' \in [Clients -> {"none", "connecting", "open", "closing", "closed"}]
      /\ activeClient' = NoClient /\ closed' = TRUE
      /\ ForgetsClosed /\ madeFor' = madeFor /\ boundSessionId' = boundSessionId /\ creation' = creation
  BY DEF ProxyInv, ProxyShape, CloseAll, acpSessionVars
<1>2. /\ SocketsOK'
      /\ \A d \in Clients : /\ renderer'[d] = "open" => renderer[d] = "open"
                            /\ renderer'[d] = "away" => renderer[d] = "away"
                            /\ upstream'[d] = "open" => upstream[d] = "open"
  BY DEF ProxyInv, ProxyShape, SocketsOK, CloseAll, acpSessionVars
<1>3. /\ FramesInv' /\ queuedFrames' \in [Clients -> Seq(FrameRow)] /\ got' \in [Clients -> Seq(FrameRow)]
      /\ framesSent' \in [Clients -> Seq(FrameRow)]
  BY <1>1, <1>2, ForgetsSafe
<1> QED BY <1>1, <1>2, <1>3 DEF ProxyInv, ProxyShape

\* The agent answers session/new.
LEMMA AnswersSafe ==
  ASSUME ProxyInv, NEW c \in Clients, NEW ok \in BOOLEAN, AgentAnswers(c, ok) PROVE ProxyInv'
<1>0. /\ ProxyShape /\ Len(madeFor) \in Nat /\ Append(madeFor, c) \in Seq(Clients)
      /\ Len(Append(madeFor, c)) = Len(madeFor) + 1 /\ DOMAIN madeFor = 1 .. Len(madeFor)
      /\ DOMAIN Append(madeFor, c) = 1 .. (Len(madeFor) + 1)
      /\ Append(madeFor, c)[Len(madeFor) + 1] = c
      /\ \A i \in DOMAIN madeFor : Append(madeFor, c)[i] = madeFor[i]
  <2>1. ProxyShape /\ madeFor \in Seq(Clients) BY DEF ProxyInv, ProxyShape
  <2> QED BY <2>1
<1>a. /\ madeFor' = Append(madeFor, c) \/ madeFor' = madeFor
      /\ boundSessionId' \in [Clients -> Nat]
  <2>1. CASE ok BY <2>1, <1>0, SMTT(30) DEF AgentAnswers, ProxyShape
  <2>2. CASE ~ok BY <2>2, <1>0 DEF AgentAnswers, ProxyShape
  <2> QED BY <2>1, <2>2
<1>1. Grown(madeFor, madeFor')
  <2>1. CASE madeFor' = Append(madeFor, c) BY <1>0, <2>1 DEF Grown
  <2>2. CASE madeFor' = madeFor BY <1>0, <2>2, SameMade
  <2> QED BY <1>a, <2>1, <2>2
<1>2. ProxyShape'
  BY <1>0, <1>a DEF ProxyShape, AgentAnswers
<1>3. SocketsOK'
  BY <1>0 DEF ProxyInv, ProxyShape, SocketsOK, AgentAnswers
<1>4. ASSUME NEW d \in Clients PROVE FramesOK(d, framesSent[d], queuedFrames[d], got[d], madeFor)'
  <2>1. CASE d # c
    BY <1>0, <1>1, <2>1, OthersKept DEF ProxyShape, AgentAnswers
  <2>2. CASE d = c
    <3>1. PICK g, q, s, made, later : /\ g = got[c] /\ q = queuedFrames[c] /\ s = framesSent[c]
                                      /\ made = madeFor /\ later = madeFor' OBVIOUS
    <3>2. FramesOK(c, s, q, g, made) /\ Grown(made, later) BY <1>1, <3>1 DEF ProxyInv, FramesInv
    <3>3. BoundFrames(c, g \o q, later) BY <3>2, BoundGrown DEF FramesOK
    <3>4. got'[c] = g /\ queuedFrames'[c] = q /\ framesSent'[c] = s /\ renderer' = renderer /\ upstream' = upstream
      BY <3>1 DEF AgentAnswers
    <3>5. AsksSession(g) /\ creation'[c] = "over" BY <1>0, <3>1 DEF AgentAnswers, AsksSession, ProxyShape
    <3>6. boundSessionId'[c] # 0 => boundSessionId'[c] \in DOMAIN later /\ later[boundSessionId'[c]] = c
      <4>1. CASE ok BY <4>1, <1>0, <3>1, SMTT(30) DEF AgentAnswers, ProxyShape
      <4>2. CASE ~ok BY <4>2, <1>0, <3>1, <3>2 DEF AgentAnswers, ProxyShape, FramesOK
      <4> QED BY <4>1, <4>2
    <3>7. renderer[c] # "away" BY DEF ProxyInv, SocketsOK, AgentAnswers
    <3> QED BY <2>2, <3>1, <3>2, <3>3, <3>4, <3>5, <3>6, <3>7 DEF FramesOK
  <2> QED BY <2>1, <2>2
<1> QED BY <1>2, <1>3, <1>4 DEF ProxyInv, FramesInv

\* A frame that may pass, g and q being what its client has had taken so far.
LEMMA ValidBound ==
  ASSUME NEW c \in Clients, NEW s \in Seq(FrameRow), NEW q \in Seq(FrameRow), NEW g \in Seq(FrameRow),
         NEW f \in FrameRow, NEW made,
         FramesOK(c, s, q, g, made), renderer[c] = "open", Permitted(f), ValidFrame(c, f)
  PROVE  BoundFrames(c, Append(g \o q, f), made)
<1>1. g \o q \in Seq(FrameRow) BY FramesJoin
<1>2. BoundFrames(c, g \o q, made) BY DEF FramesOK
<1>3. f.method = "session/new" => ~AsksSession(g \o q) /\ f.cwd = "bound" BY DEF FramesOK, Permitted, ValidFrame
<1>4. AsksSession(g) => AsksSession(g \o q) BY AsksJoin
<1>5. f.method = "session/prompt" => f.session \in DOMAIN made /\ made[f.session] = c /\ AsksSession(g \o q)
  BY <1>4 DEF FramesOK, ValidFrame
<1> QED BY <1>1, <1>2, <1>3, <1>5, BoundAppend

\* It leaves a session that was not asked for not asked for, unless it asks for one.
LEMMA StillUnasked ==
  ASSUME NEW s \in Seq(FrameRow), NEW f \in FrameRow, ~AsksSession(s), f.method # "session/new"
  PROVE  ~AsksSession(Append(s, f))
BY FramesAppend DEF AsksSession

LEMMA FrameRows == ASSUME NEW f \in Frames, ProxyShape PROVE f \in FrameRow
<1>1. Len(madeFor) \in Nat BY LenProperties DEF ProxyShape
<1> QED BY <1>1 DEF Frames, Frame, FrameRow

\* The three ways of a frame: to the agent, among those that wait, or to nobody.
LEMMA ReceiveWays ==
  ASSUME ProxyInv, NEW c \in Clients, NEW f \in FrameRow, Receive(c, f)
  PROVE  \/ /\ Permitted(f) /\ ValidFrame(c, f) /\ upstream[c] = "open" /\ renderer' = renderer /\ upstream' = upstream
            /\ got' = [got EXCEPT ![c] = Append(got[c], f)] /\ queuedFrames' = queuedFrames
            /\ f.method = "session/new" => creation' = [creation EXCEPT ![c] = "pending"]
         \/ /\ Permitted(f) /\ ValidFrame(c, f) /\ upstream[c] = "connecting" /\ renderer' = renderer /\ upstream' = upstream
            /\ queuedFrames' = [queuedFrames EXCEPT ![c] = Append(queuedFrames[c], f)] /\ got' = got
            /\ f.method = "session/new" => creation' = [creation EXCEPT ![c] = "pending"]
         \/ rejectFrame(c) /\ got' = got /\ queuedFrames' = queuedFrames
<1>1. CASE Permitted(f) /\ ValidFrame(c, f)
  <2>1. CASE upstream[c] = "open" BY <1>1, <2>1 DEF Receive
  <2>2. CASE upstream[c] = "connecting" /\ Len(queuedFrames[c]) < MaxQueuedFrames BY <1>1, <2>2 DEF Receive
  <2>3. CASE ~(upstream[c] = "open") /\ ~(upstream[c] = "connecting" /\ Len(queuedFrames[c]) < MaxQueuedFrames)
    BY <1>1, <2>3 DEF Receive
  <2> QED BY <2>1, <2>2, <2>3
<1>2. CASE ~(Permitted(f) /\ ValidFrame(c, f)) BY <1>2 DEF Receive
<1> QED BY <1>1, <1>2

LEMMA ReceiveSafe ==
  ASSUME ProxyInv, NEW c \in Clients, NEW f \in FrameRow, Receive(c, f) PROVE ProxyInv'
<1>0. /\ ProxyShape /\ SocketsOK /\ FramesOK(c, framesSent[c], queuedFrames[c], got[c], madeFor)
      /\ framesSent[c] \in Seq(FrameRow) /\ queuedFrames[c] \in Seq(FrameRow) /\ got[c] \in Seq(FrameRow)
  BY DEF ProxyInv, FramesInv, ProxyShape
<1> DEFINE s == framesSent[c]
           q == queuedFrames[c]
           g == got[c]
<1>1. /\ Append(s, f) \in Seq(FrameRow) /\ Append(q, f) \in Seq(FrameRow) /\ Append(g, f) \in Seq(FrameRow)
      /\ g \o q \in Seq(FrameRow) /\ Append(g \o q, f) = g \o Append(q, f)
      /\ g \o <<>> = g /\ Append(g, f) \o <<>> = Append(g, f)
  <2>1. Append(s, f) \in Seq(FrameRow) /\ Append(q, f) \in Seq(FrameRow) /\ Append(g, f) \in Seq(FrameRow)
    BY <1>0, FramesAppend
  <2>2. g \o q \in Seq(FrameRow) /\ Append(g \o q, f) = g \o Append(q, f) /\ g \o <<>> = g
    BY <1>0, FramesJoin, ZenonT(30)
  <2>3. Append(g, f) \o <<>> = Append(g, f) BY <1>0, <2>1, FramesJoin
  <2> QED BY <2>1, <2>2, <2>3
<1>2. /\ framesSent' = [framesSent EXCEPT ![c] = Append(s, f)]
      /\ closed' = closed /\ activeClient' = activeClient /\ boundSessionId' = boundSessionId /\ madeFor' = madeFor
      /\ creation' = creation \/ creation' = [creation EXCEPT ![c] = "pending"]
      /\ renderer[c] # "away"
  BY DEF Receive
<1>3. /\ renderer' \in [Clients -> {"away", "open", "closing", "closed"}]
      /\ upstream' \in [Clients -> {"none", "connecting", "open", "closing", "closed"}]
      /\ SocketsOK'
      /\ \A d \in Clients : /\ renderer'[d] = "open" => renderer[d] = "open"
                            /\ renderer'[d] = "away" => renderer[d] = "away"
                            /\ upstream'[d] = "open" => upstream[d] = "open"
  <2>1. CASE renderer' = renderer /\ upstream' = upstream
    BY <1>0, <1>2, <2>1 DEF ProxyShape, SocketsOK
  <2>2. CASE rejectFrame(c)
    BY <1>0, <1>2, <2>2 DEF ProxyShape, SocketsOK, rejectFrame, Closing
  <2> QED BY <2>1, <2>2, ReceiveWays
<1>4. ProxyShape'
  <2>1. framesSent' \in [Clients -> Seq(FrameRow)] BY <1>0, <1>1, <1>2 DEF ProxyShape
  <2>2. queuedFrames' \in [Clients -> Seq(FrameRow)] /\ got' \in [Clients -> Seq(FrameRow)]
    BY <1>0, <1>1, ReceiveWays, ZenonT(30) DEF ProxyShape
  <2>3. creation' \in [Clients -> {"none", "pending", "over"}] BY <1>0, <1>2 DEF ProxyShape
  <2> QED BY <1>0, <1>2, <1>3, <2>1, <2>2, <2>3 DEF ProxyShape
<1>5. Grown(madeFor, madeFor') BY <1>0, <1>2, SameMade
<1>6. ASSUME NEW d \in Clients, d # c PROVE FramesOK(d, framesSent[d], queuedFrames[d], got[d], madeFor)'
  <2>1. framesSent'[d] = framesSent[d] /\ creation'[d] = creation[d] BY <1>0, <1>2, <1>6 DEF ProxyShape
  <2>2. queuedFrames'[d] = queuedFrames[d] /\ got'[d] = got[d] BY <1>0, <1>6, ReceiveWays DEF ProxyShape
  <2> QED BY <1>2, <1>3, <1>5, <2>1, <2>2, OthersKept
<1>7. FramesOK(c, framesSent[c], queuedFrames[c], got[c], madeFor)'
  <2>0. framesSent'[c] = Append(s, f) BY <1>0, <1>2 DEF ProxyShape
  <2>1. CASE /\ Permitted(f) /\ ValidFrame(c, f) /\ upstream[c] = "open" /\ renderer' = renderer /\ upstream' = upstream
             /\ got' = [got EXCEPT ![c] = Append(got[c], f)] /\ queuedFrames' = queuedFrames
             /\ f.method = "session/new" => creation' = [creation EXCEPT ![c] = "pending"]
    <3>1. renderer[c] = "open" /\ q = <<>> /\ g = s BY <1>0, <1>1, <2>1 DEF SocketsOK, FramesOK
    <3>2. BoundFrames(c, Append(g, f), madeFor) BY <1>0, <1>1, <2>1, <3>1, ValidBound
    <3>3. got'[c] = Append(g, f) /\ queuedFrames'[c] = <<>> BY <1>0, <2>1, <3>1 DEF ProxyShape
    <3>4. creation'[c] = "none" => ~AsksSession(Append(g, f))
      <4>1. CASE f.method = "session/new" BY <4>1, <1>0, <2>1 DEF ProxyShape
      <4>2. CASE f.method # "session/new"
        <5>1. ASSUME creation'[c] = "none" PROVE ~AsksSession(g)
          BY <5>1, <1>0, <1>1, <1>2, <3>1 DEF FramesOK, ProxyShape
        <5> QED BY <4>2, <5>1, <1>0, StillUnasked
      <4> QED BY <4>1, <4>2
    <3>5. AsksSession(g) => AsksSession(Append(g, f)) BY <1>0, FramesAppend DEF AsksSession
    <3>6. IsPrefix(Append(g, f), Append(s, f)) BY <3>1, <1>1, PrefixFacts
    <3> HIDE DEF g, q, s
    <3>7. boundSessionId[c] # 0 => /\ boundSessionId[c] \in DOMAIN madeFor /\ madeFor[boundSessionId[c]] = c
                                   /\ AsksSession(Append(g, f))
      BY <1>0, <3>1, <3>5 DEF FramesOK, g
    <3> QED BY <1>1, <1>2, <2>0, <2>1, <3>1, <3>2, <3>3, <3>4, <3>6, <3>7 DEF FramesOK
  <2>2. CASE /\ Permitted(f) /\ ValidFrame(c, f) /\ upstream[c] = "connecting" /\ renderer' = renderer /\ upstream' = upstream
             /\ queuedFrames' = [queuedFrames EXCEPT ![c] = Append(queuedFrames[c], f)] /\ got' = got
             /\ f.method = "session/new" => creation' = [creation EXCEPT ![c] = "pending"]
    <3>1. renderer[c] = "open" /\ g \o q = s BY <1>0, <2>2 DEF SocketsOK, FramesOK
    <3>2. BoundFrames(c, Append(g \o q, f), madeFor) BY <1>0, <2>2, <3>1, ValidBound
    <3>3. got'[c] = g /\ queuedFrames'[c] = Append(q, f) BY <1>0, <2>2 DEF ProxyShape
    <3>4. creation'[c] = "none" => ~AsksSession(Append(g \o q, f))
      <4>1. CASE f.method = "session/new" BY <4>1, <1>0, <2>2 DEF ProxyShape
      <4>2. CASE f.method # "session/new"
        <5>1. ASSUME creation'[c] = "none" PROVE ~AsksSession(g \o q)
          BY <5>1, <1>0, <1>2 DEF FramesOK, ProxyShape
        <5> QED BY <4>2, <5>1, <1>1, StillUnasked
      <4> QED BY <4>1, <4>2
    <3>6. IsPrefix(Append(s, f), Append(s, f)) BY <1>1, PrefixFacts
    <3>7. boundSessionId[c] # 0 => /\ boundSessionId[c] \in DOMAIN madeFor /\ madeFor[boundSessionId[c]] = c
                                   /\ AsksSession(g)
      BY <1>0, <3>1 DEF FramesOK
    <3> HIDE DEF g, q, s
    <3> QED BY <1>1, <1>2, <2>0, <2>2, <3>1, <3>2, <3>3, <3>4, <3>6, <3>7 DEF FramesOK
  <2>3. CASE rejectFrame(c) /\ got' = got /\ queuedFrames' = queuedFrames
    <3>1. renderer'[c] # "open" /\ renderer'[c] # "away" /\ upstream'[c] # "open"
      BY <1>0, <1>2, <2>3 DEF rejectFrame, Closing, ProxyShape
    <3>2. IsPrefix(g \o q, Append(s, f)) BY <1>0, <1>1, PrefixFacts DEF FramesOK
    <3>3. creation'[c] = "none" => creation[c] = "none" BY <1>0, <1>2 DEF ProxyShape
    <3>4. got'[c] = g /\ queuedFrames'[c] = q BY <2>3
    <3> HIDE DEF g, q, s
    <3>5. FramesOK(c, s, q, g, madeFor) BY <1>0 DEF g, q, s
    <3> QED BY <1>2, <2>0, <3>1, <3>2, <3>3, <3>4, <3>5 DEF FramesOK
  <2> QED BY <2>1, <2>2, <2>3, ReceiveWays
<1> QED BY <1>3, <1>4, <1>6, <1>7 DEF ProxyInv, FramesInv

\* What holds of the frames holds of those that came first.
LEMMA BoundPart ==
  ASSUME NEW c, NEW g, NEW t, NEW made, NEW n \in Nat, BoundFrames(c, t, made),
         DOMAIN g = 1 .. n, \A i \in DOMAIN g : i \in DOMAIN t /\ t[i] = g[i]
  PROVE  BoundFrames(c, g, made)
<1>1. ASSUME NEW i \in DOMAIN g, NEW j \in DOMAIN g, g[i].method = "session/new", g[j].method = "session/new"
      PROVE  i = j /\ g[i].cwd = "bound"
  <2>1. i \in DOMAIN t /\ j \in DOMAIN t /\ t[i] = g[i] /\ t[j] = g[j] OBVIOUS
  <2> QED BY <1>1, <2>1 DEF BoundFrames
<1>2. ASSUME NEW i \in DOMAIN g, g[i].method = "session/prompt"
      PROVE  /\ g[i].session \in DOMAIN made /\ made[g[i].session] = c
             /\ \E j \in 1 .. (i - 1) : g[j].method = "session/new"
  <2>1. i \in DOMAIN t /\ t[i] = g[i] OBVIOUS
  <2>2. PICK j \in 1 .. (i - 1) : t[j].method = "session/new" BY <1>2, <2>1 DEF BoundFrames
  <2>3. j \in DOMAIN g BY <2>2
  <2>4. g[j].method = "session/new" BY <2>2, <2>3
  <2> QED BY <1>2, <2>1, <2>2, <2>4 DEF BoundFrames
<1> QED BY <1>1, <1>2 DEF BoundFrames

LEMMA ProxyImplies == ASSUME ProxyInv PROVE ProxySafe
<1>1. ASSUME NEW c \in Clients
      PROVE /\ IsPrefix(got[c] \o queuedFrames[c], framesSent[c])
            /\ renderer[c] = "open" => got[c] \o queuedFrames[c] = framesSent[c]
  BY DEF ProxyInv, FramesInv, FramesOK
<1>2. ASSUME NEW c \in Clients
      PROVE  LET taken == got[c] IN
             /\ \A i, j \in DOMAIN taken :
                   taken[i].method = "session/new" /\ taken[j].method = "session/new" => i = j /\ taken[i].cwd = "bound"
             /\ \A i \in DOMAIN taken : taken[i].method = "session/prompt" =>
                   /\ madeFor[taken[i].session] = c
                   /\ \E j \in 1..(i - 1) : taken[j].method = "session/new"
  <2>1. PICK g, q : /\ g = got[c] /\ q = queuedFrames[c] /\ g \in Seq(FrameRow) /\ q \in Seq(FrameRow)
                    /\ BoundFrames(c, g \o q, madeFor)
    BY DEF ProxyInv, ProxyShape, FramesInv, FramesOK
  <2>2. BoundFrames(c, g, madeFor)
    <3>1. PICK t : t = g \o q OBVIOUS
    <3>2. /\ DOMAIN g = 1 .. Len(g) /\ Len(g) \in Nat /\ Len(q) \in Nat /\ DOMAIN (g \o q) = 1 .. (Len(g) + Len(q))
          /\ \A i \in DOMAIN g : (g \o q)[i] = g[i]
      BY <2>1, FramesJoin
    <3>3. \A i \in DOMAIN g : i \in DOMAIN t BY <3>1, <3>2
    <3>4. \A i \in DOMAIN g : t[i] = g[i] BY <3>1, <3>2
    <3> QED BY <2>1, <3>1, <3>2, <3>3, <3>4, BoundPart
  <2> QED BY <2>1, <2>2 DEF BoundFrames
<1>3. OneIsServed BY DEF ProxyInv, SocketsOK, OneIsServed
<1> QED BY <1>1, <1>2, <1>3 DEF ProxySafe, InOrder, SessionsAreBound

\* What the agent gets from the window is what the window sent, in its order and without a
\* gap, one session for a connection, in the directory that was approved, and prompts for no
\* other; and one client is served at a time.
THEOREM ProxyIsSafe == ProxySpec => []ProxySafe
<1>1. ProxyInit => ProxyInv BY ProxyStart
<1>2. ProxyInv /\ [ProxyNext]_proxyVars => ProxyInv'
  <2> SUFFICES ASSUME ProxyInv, [ProxyNext]_proxyVars PROVE ProxyInv'
    OBVIOUS
  <2>1. CASE ProxyNext
    <3>1. ASSUME NEW c \in Clients, Accept(c) PROVE ProxyInv' BY <3>1, AcceptSafe
    <3>2. ASSUME NEW c \in Clients, UpstreamOpens(c) PROVE ProxyInv' BY <3>2, OpensSafe
    <3>3. ASSUME NEW c \in Clients, UpstreamCloses(c) \/ ClientCloses(c) PROVE ProxyInv' BY <3>3, GoesSafe
    <3>4. ASSUME NEW c \in Clients, NEW f \in Frames, Receive(c, f) PROVE ProxyInv'
      BY <3>4, FrameRows, ReceiveSafe DEF ProxyInv
    <3>5. ASSUME NEW c \in Clients, NEW ok \in BOOLEAN, AgentAnswers(c, ok) PROVE ProxyInv' BY <3>5, AnswersSafe
    <3>6. ASSUME CloseAll PROVE ProxyInv' BY <3>6, CloseAllSafe
    <3> QED BY <2>1, <3>1, <3>2, <3>3, <3>4, <3>5, <3>6 DEF ProxyNext
  <2>2. CASE UNCHANGED proxyVars
    BY <2>2 DEF proxyVars, ProxyInv, ProxyShape, SocketsOK, FramesInv, FramesOK
  <2> QED BY <2>1, <2>2
<1>3. ProxyInv => ProxySafe BY ProxyImplies
<1> QED BY <1>1, <1>2, <1>3, PTL DEF ProxySpec

-----------------------------------------------------------------------------
(* The project that a window shows                                         *)

RootOrNone == Roots \cup {NoRoot}
ProjectRow == [root : RootOrNone, files : RootOrNone, diff : RootOrNone, file : RootOrNone]
DiffStatuses == {"idle", "loading", "ready", "error"}
LoadRow == [kind : {"load", "run"}, root : Roots, current : BOOLEAN, keep : BOOLEAN,
            files : {"none", "loading", "loaded", "dropped"}, diff : {"none", "loading", "ready", "error"}]
ReadRow == [root : Roots, current : BOOLEAN]
SaveRow == [root : Roots, before : Seq(Roots), list : Seq(Roots), awaited : BOOLEAN]

WorkspaceShape ==
    /\ present \subseteq Roots /\ chosen \subseteq Roots
    /\ approvedRoots \in Seq(Roots) /\ rootsFile \in Seq(Roots) /\ saves \subseteq SaveRow
    /\ project \in ProjectRow /\ diffStatus \in DiffStatuses
    /\ validated \in [project : ProjectRow, status : DiffStatuses]
    /\ recent \in RootOrNone /\ loads \subseteq LoadRow /\ fileReads \subseteq ReadRow

\* A list of approved projects, of directories in picked.
ListOK(list, picked) == ToSet(list) \subseteq picked /\ Len(list) <= MaxApproved /\ IsInjective(list)

\* So are the lists that are kept, and those that a save under way may write or bring back.
ListsOK ==
    /\ ListOK(approvedRoots, chosen) /\ ListOK(rootsFile, chosen)
    /\ \A sv \in saves : ListOK(sv.before, chosen) /\ ListOK(sv.list, chosen) /\ sv.root \in chosen

\* What the window has opened was picked.
OpenedOK ==
    /\ {recent, validated.project.root} \subseteq chosen \cup {NoRoot}
    /\ \A ld \in loads : ld.root \in chosen
    /\ \A rd \in fileReads : rd.root \in chosen

\* A project as it is shown, s being what is said of its changes.
ShownOK(p, s) ==
    /\ {p.files, p.diff, p.file} \subseteq {NoRoot, p.root}
    /\ p.diff # NoRoot \/ p.file # NoRoot => p.files # NoRoot
    /\ s = "ready" => p.diff = p.root

\* The files of the last load are not in yet.
Loads == \E ld \in loads : ld.current /\ ld.files = "loading"

PaneOK ==
    /\ ShownOK(project, diffStatus) /\ ShownOK(validated.project, validated.status)
    /\ recent = project.root
    /\ validated.project.root # NoRoot => validated.project.files = validated.project.root
    /\ project.files # NoRoot => project = validated.project
    /\ ~Loads => project = validated.project /\ diffStatus = validated.status

\* What no counter has passed is of the project that is shown, and one load at most.
CurrentOK ==
    /\ \A ld \in loads : ld.current => ld.root = project.root
    /\ \A l1, l2 \in loads : l1.kind = "load" /\ l2.kind = "load" /\ l1.current /\ l2.current => l1 = l2
    /\ \A ld \in loads : IF ld.kind = "run" THEN ld.files = "none" ELSE ld.files # "none" /\ ld.diff # "none"
    /\ \A rd \in fileReads : rd.current => rd.root = project.root /\ project.files = project.root

WorkspaceInv == WorkspaceShape /\ ListsOK /\ OpenedOK /\ PaneOK /\ CurrentOK

\* Among the places of a list there is an nth for each n up to their number.
LEMMA NthPlace ==
  ASSUME NEW len \in Nat, NEW places \in SUBSET (1 .. len), NEW n \in 1 .. Cardinality(places)
  PROVE  \E i \in places : Cardinality({j \in places : j <= i}) = n
<1> DEFINE upTo(k) == {j \in places : j <= k}
           T == {k \in 0 .. len : n <= Cardinality(upTo(k))}
<1>0. \A i \in places : i \in Nat /\ i <= len /\ 1 <= i OBVIOUS
<1>1. IsFiniteSet(places)
  <2>1. IsFiniteSet(1 .. len) BY FS_Interval
  <2> QED BY <2>1, FS_Subset
<1>2. ASSUME NEW k \in Nat PROVE IsFiniteSet(upTo(k)) /\ Cardinality(upTo(k)) \in Nat
  <2>1. upTo(k) \in SUBSET places OBVIOUS
  <2> QED BY <1>1, <2>1, FS_Subset, FS_CardinalityType
<1>3. len \in T
  <2>1. upTo(len) = places BY <1>0
  <2>2. Cardinality(places) \in Nat BY <1>1, FS_CardinalityType
  <2>3. n <= Cardinality(upTo(len)) BY <2>1, <2>2
  <2> HIDE DEF upTo
  <2> QED BY <2>3
<1>4. T \subseteq Nat /\ T # {}
  <2> HIDE DEF upTo
  <2> QED BY <1>3
<1>5. PICK m \in T : \A k \in T : ~(k < m)
  <2> HIDE DEF T
  <2>1. PICK m \in T : \A k \in T : ~(<<k, m>> \in OpToRel(<, Nat))
    BY <1>4, NatLessThanWellFounded, WFMin
  <2> QED BY <2>1, <1>4 DEF OpToRel
<1>6. m \in Nat /\ m <= len /\ n <= Cardinality(upTo(m))
  <2> HIDE DEF upTo
  <2> QED BY <1>5
<1>7. m # 0
  <2>0. \A i \in places : ~(i <= 0) BY <1>0
  <2>1. upTo(0) = {} BY <2>0
  <2>2. Cardinality(upTo(0)) = 0 BY <2>1, FS_EmptySet
  <2> HIDE DEF upTo
  <2> QED BY <1>6, <2>2
<1>8. m - 1 \in Nat /\ Cardinality(upTo(m - 1)) < n
  <2> HIDE DEF upTo
  <2>1. m - 1 \in 0 .. len /\ m - 1 < m BY <1>6, <1>7
  <2>2. m - 1 \notin T
    <3> HIDE DEF T
    <3> QED BY <1>5, <2>1
  <2>3. Cardinality(upTo(m - 1)) \in Nat BY <1>2, <2>1
  <2> QED BY <2>1, <2>2, <2>3
<1>a. \A j \in places : j <= m <=> j <= m - 1 \/ j = m BY <1>0, <1>6
<1>b. m - 1 < m BY <1>6
<1>9. m \in places
  <2>1. m \notin places => upTo(m) = upTo(m - 1) BY <1>a, Zenon
  <2> HIDE DEF upTo
  <2>2. Cardinality(upTo(m)) \in Nat /\ Cardinality(upTo(m - 1)) \in Nat BY <1>2, <1>6, <1>8
  <2> QED BY <2>1, <2>2, <1>6, <1>8
<1>10. Cardinality(upTo(m)) = Cardinality(upTo(m - 1)) + 1
  <2>1. upTo(m) = upTo(m - 1) \cup {m} BY <1>a, <1>9, Zenon
  <2>2. m \notin upTo(m - 1) BY <1>6
  <2> HIDE DEF upTo
  <2>3. IsFiniteSet(upTo(m - 1)) BY <1>2, <1>8
  <2> QED BY <2>1, <2>2, <2>3, FS_AddElement
<1>11. Cardinality(upTo(m)) = n
  <2> HIDE DEF upTo
  <2>1. Cardinality(upTo(m)) \in Nat /\ Cardinality(upTo(m - 1)) \in Nat BY <1>2, <1>6, <1>8
  <2> QED BY <2>1, <1>6, <1>8, <1>10
<1> QED BY <1>9, <1>11

\* What is filtered from a list is of the list and of the set, once each if it was so before.
LEMMA FilteredFacts ==
  ASSUME NEW S, NEW list \in Seq(S), NEW s
  PROVE  /\ Filtered(list, s) \in Seq(S) /\ Len(Filtered(list, s)) <= Len(list)
         /\ ToSet(Filtered(list, s)) \subseteq ToSet(list) \cap s
         /\ IsInjective(list) => IsInjective(Filtered(list, s))
<1> DEFINE places == {i \in DOMAIN list : list[i] \in s}
           upTo(i) == Cardinality({j \in places : j <= i})
           at(n) == CHOOSE i \in places : upTo(i) = n
<1>1. Len(list) \in Nat /\ DOMAIN list = 1 .. Len(list) /\ places \in SUBSET (1 .. Len(list)) BY LenProperties
<1>2. IsFiniteSet(places) /\ Cardinality(places) \in Nat /\ Cardinality(places) <= Len(list)
  <2>0. 1 \in Int /\ Len(list) \in Int BY <1>1
  <2>1. IsFiniteSet(1 .. Len(list)) BY <2>0, FS_Interval
  <2>2. Cardinality(1 .. Len(list)) = IF 1 > Len(list) THEN 0 ELSE Len(list) - 1 + 1 BY <2>0, FS_Interval
  <2>3. Cardinality(1 .. Len(list)) = Len(list) BY <1>1, <2>2
  <2> HIDE DEF places
  <2>4. IsFiniteSet(places) /\ Cardinality(places) <= Cardinality(1 .. Len(list)) BY <2>1, <1>1, FS_Subset
  <2>5. Cardinality(places) \in Nat BY <2>4, FS_CardinalityType
  <2> QED BY <2>3, <2>4, <2>5
<1>3. ASSUME NEW n \in 1 .. Cardinality(places) PROVE at(n) \in places /\ upTo(at(n)) = n
  <2>1. \E i \in places : upTo(i) = n BY <1>1, NthPlace
  <2> QED BY <2>1
<1>4. Filtered(list, s) = [n \in 1 .. Cardinality(places) |-> list[at(n)]] BY DEF Filtered
<1> HIDE DEF at
<1>5. \A n \in 1 .. Cardinality(places) : list[at(n)] \in S /\ list[at(n)] \in s /\ list[at(n)] \in ToSet(list)
  BY <1>1, <1>3, ElementOfSeq DEF ToSet
<1> DEFINE f == [n \in 1 .. Cardinality(places) |-> list[at(n)]]
<1> HIDE DEF places
<1>6. f \in Seq(S) /\ Len(f) = Cardinality(places) /\ DOMAIN f = 1 .. Cardinality(places)
  BY <1>2, <1>5
<1>7. ToSet(f) \subseteq ToSet(list) \cap s BY <1>5, <1>6 DEF ToSet
<1>8. ASSUME IsInjective(list), NEW a \in DOMAIN f, NEW b \in DOMAIN f, f[a] = f[b] PROVE a = b
  <2>1. list[at(a)] = list[at(b)] BY <1>6, <1>8
  <2>2. at(a) \in DOMAIN list /\ at(b) \in DOMAIN list BY <1>3, <1>6 DEF places
  <2>3. at(a) = at(b) BY <2>1, <2>2, <1>8 DEF IsInjective
  <2> QED BY <2>3, <1>3, <1>6
<1> QED BY <1>2, <1>4, <1>6, <1>7, <1>8 DEF IsInjective

\* The list that has a directory last, without its oldest.
LEMMA RememberedOK ==
  ASSUME NEW root \in Roots, approvedRoots \in Seq(Roots), ListOK(approvedRoots, chosen)
  PROVE  Remembered(root) \in Seq(Roots) /\ ListOK(Remembered(root), chosen \cup {root})
<1> DEFINE rest == Filtered(approvedRoots, Roots \ {root})
           all == Append(rest, root)
           first == IF Len(all) > MaxApproved THEN Len(all) - MaxApproved + 1 ELSE 1
<1>1. /\ rest \in Seq(Roots) /\ ToSet(rest) \subseteq chosen \ {root} /\ IsInjective(rest)
  BY FilteredFacts DEF ListOK
<1>2. Remembered(root) = SubSeq(all, first, Len(all)) BY DEF Remembered
<1> HIDE DEF rest
<1>3. /\ all \in Seq(Roots) /\ Len(rest) \in Nat /\ Len(all) = Len(rest) + 1 /\ DOMAIN rest = 1 .. Len(rest)
      /\ DOMAIN all = 1 .. Len(all) /\ all[Len(all)] = root /\ \A i \in 1 .. Len(rest) : all[i] = rest[i]
  BY <1>1
<1>4. \A i \in DOMAIN all : all[i] \in chosen \cup {root} BY <1>1, <1>3 DEF ToSet
<1>5. ASSUME NEW i \in DOMAIN all, NEW j \in DOMAIN all, all[i] = all[j] PROVE i = j
  <2>1. \A k \in DOMAIN rest : rest[k] # root BY <1>1 DEF ToSet
  <2>2. \A k, l \in DOMAIN rest : rest[k] = rest[l] => k = l BY <1>1 DEF IsInjective
  <2> HIDE DEF all
  <2> QED BY <1>3, <1>5, <2>1, <2>2
<1>6. first \in 1 .. (Len(all) + 1) /\ Len(all) - first + 1 <= MaxApproved /\ Len(all) - first + 1 \in Nat
  BY <1>3, WorkspaceAssumption
<1> HIDE DEF all, first
<1>7. /\ SubSeq(all, first, Len(all)) \in Seq(Roots)
      /\ Len(SubSeq(all, first, Len(all))) = Len(all) - first + 1
      /\ \A k \in 1 .. (Len(all) - first + 1) : SubSeq(all, first, Len(all))[k] = all[first + k - 1]
  <2>1. SubSeq(all, first, Len(all)) = [k \in 1 .. (Len(all) - first + 1) |-> all[first + k - 1]]
    BY <1>3, <1>6
  <2>2. \A k \in 1 .. (Len(all) - first + 1) : all[first + k - 1] \in Roots BY <1>3, <1>6
  <2> QED BY <2>1, <2>2, <1>6
<1> DEFINE t == SubSeq(all, first, Len(all))
           n == Len(all) - first + 1
<1> HIDE DEF t, n
<1>8. t \in Seq(Roots) /\ Len(t) = n /\ n <= MaxApproved /\ n \in Nat /\ DOMAIN t = 1 .. n BY <1>6, <1>7 DEF t, n
<1>9. \A k \in 1 .. n : first + k - 1 \in DOMAIN all /\ t[k] = all[first + k - 1] BY <1>3, <1>6, <1>7 DEF t, n
<1>10. ToSet(t) \subseteq chosen \cup {root} BY <1>4, <1>8, <1>9 DEF ToSet
<1>11. IsInjective(t)
  <2> SUFFICES ASSUME NEW a \in 1 .. n, NEW b \in 1 .. n, t[a] = t[b] PROVE a = b
    BY <1>8 DEF IsInjective
  <2>1. first + a - 1 = first + b - 1 BY <1>5, <1>9
  <2> QED BY <2>1, <1>6, <1>8
<1> QED BY <1>2, <1>8, <1>10, <1>11 DEF ListOK, t

LEMMA ListGrows ==
  ASSUME NEW list, NEW picked, NEW more, picked \subseteq more, ListOK(list, picked) PROVE ListOK(list, more)
BY DEF ListOK

LEMMA PassedLoads ==
  ASSUME NEW all, all \subseteq LoadRow
  PROVE  /\ Passed(all) \subseteq LoadRow
         /\ \A one \in Passed(all) : /\ one.current = FALSE
                                     /\ \E o \in all : /\ one.root = o.root /\ one.kind = o.kind
                                                       /\ one.files = o.files /\ one.diff = o.diff
<1>1. ASSUME NEW o \in all
      PROVE  LET one == [o EXCEPT !.current = FALSE] IN
             /\ one \in LoadRow /\ one.current = FALSE /\ one.root = o.root /\ one.kind = o.kind
             /\ one.files = o.files /\ one.diff = o.diff
  BY DEF LoadRow
<1> QED BY <1>1 DEF Passed

LEMMA PassedReads ==
  ASSUME NEW all, all \subseteq ReadRow
  PROVE  /\ Passed(all) \subseteq ReadRow
         /\ \A one \in Passed(all) : one.current = FALSE /\ \E o \in all : one.root = o.root
<1>1. ASSUME NEW o \in all
      PROVE  LET one == [o EXCEPT !.current = FALSE] IN
             one \in ReadRow /\ one.current = FALSE /\ one.root = o.root
  BY DEF ReadRow
<1> QED BY <1>1 DEF Passed

\* The loads now are one of root, which has just begun, and those of before, overtaken.
OfLoads(one, before) ==
    \E o \in before : one.root = o.root /\ one.kind = o.kind /\ one.files = o.files /\ one.diff = o.diff

BeginsLoad(now, before, root) ==
    \E new \in now :
        /\ new.kind = "load" /\ new.root = root /\ new.current = TRUE /\ new.files = "loading" /\ new.diff = "loading"
        /\ \A one \in now : one = new \/ (one.current = FALSE /\ OfLoads(one, before))

LEMMA LoadingFacts ==
  ASSUME NEW root \in Roots, NEW keep \in BOOLEAN, loads \subseteq LoadRow
  PROVE  Loading(root, keep) \subseteq LoadRow /\ BeginsLoad(Loading(root, keep), loads, root)
<1> DEFINE new == [kind |-> "load", root |-> root, current |-> TRUE, keep |-> keep,
                   files |-> "loading", diff |-> "loading"]
<1>1. /\ new \in LoadRow /\ new.kind = "load" /\ new.root = root /\ new.current = TRUE
      /\ new.files = "loading" /\ new.diff = "loading"
  BY DEF LoadRow
<1>2. Loading(root, keep) = Passed(loads) \cup {new} BY DEF Loading
<1> HIDE DEF new
<1>3. Passed(loads) \subseteq LoadRow /\ \A one \in Passed(loads) : one.current = FALSE /\ OfLoads(one, loads)
  BY PassedLoads DEF OfLoads
<1>4. Loading(root, keep) \subseteq LoadRow /\ new \in Loading(root, keep) BY <1>1, <1>2, <1>3
<1>5. \A one \in Loading(root, keep) : one = new \/ (one.current = FALSE /\ OfLoads(one, loads)) BY <1>2, <1>3
<1> QED BY <1>1, <1>4, <1>5 DEF BeginsLoad

LEMMA WorkspaceStart == ProjectInit => WorkspaceInv
<1> SUFFICES ASSUME ProjectInit PROVE WorkspaceInv
  OBVIOUS
<1>1. <<>> \in Seq(Roots) OBVIOUS
<1>2. emptyProject \in ProjectRow /\ emptyProject.root = NoRoot /\ emptyProject.files = NoRoot
      /\ emptyProject.diff = NoRoot /\ emptyProject.file = NoRoot
  BY DEF emptyProject, ProjectRow, RootOrNone
<1>3. ListOK(<<>>, {})
  <2>1. Len(<<>>) = 0 /\ DOMAIN <<>> = {} OBVIOUS
  <2> QED BY <2>1, WorkspaceAssumption DEF ListOK, ToSet, IsInjective
<1>4. WorkspaceShape BY <1>1, <1>2 DEF ProjectInit, WorkspaceShape, DiffStatuses, RootOrNone
<1>5. ListsOK BY <1>3 DEF ProjectInit, ListsOK
<1> HIDE DEF emptyProject
<1>6. OpenedOK /\ PaneOK /\ CurrentOK
  BY <1>2 DEF ProjectInit, OpenedOK, PaneOK, ShownOK, Loads, CurrentOK
<1> QED BY <1>4, <1>5, <1>6 DEF WorkspaceInv

\* What does not touch the lists keeps them as they are.
LEMMA ListsKept ==
  ASSUME ListsOK, chosen' = chosen, approvedRoots' = approvedRoots, rootsFile' = rootsFile, saves' = saves
  PROVE  ListsOK'
BY DEF ListsOK

\* What does not touch the window keeps it as it is.
windowVars == <<project, diffStatus, validated, recent, loads, fileReads>>

LEMMA WindowKept ==
  ASSUME WorkspaceInv, UNCHANGED windowVars, chosen \subseteq chosen'
  PROVE  OpenedOK' /\ PaneOK' /\ CurrentOK'
BY DEF WorkspaceInv, windowVars, OpenedOK, PaneOK, ShownOK, Loads, CurrentOK

LEMMA ChooseSafe ==
  ASSUME WorkspaceInv, NEW root \in Roots, Choose(root) PROVE WorkspaceInv'
<1>0. WorkspaceShape /\ ListsOK BY DEF WorkspaceInv
<1>1. Remembered(root) \in Seq(Roots) /\ ListOK(Remembered(root), chosen \cup {root})
  BY <1>0, RememberedOK DEF WorkspaceShape, ListsOK
<1>2. PICK new : /\ new = [root |-> root, before |-> approvedRoots, list |-> Remembered(root), awaited |-> TRUE]
                 /\ saves' = saves \cup {new}
  BY DEF Choose
<1>3. new \in SaveRow /\ new.root = root /\ new.before = approvedRoots /\ new.list = Remembered(root)
  BY <1>0, <1>1, <1>2 DEF SaveRow, WorkspaceShape
<1>4. chosen' = chosen \cup {root} /\ approvedRoots' = Remembered(root) /\ UNCHANGED windowVars
      /\ present' = present /\ rootsFile' = rootsFile
  BY DEF Choose, windowVars
<1>5. WorkspaceShape' BY <1>0, <1>1, <1>2, <1>3, <1>4 DEF WorkspaceShape, windowVars
<1>6. ListsOK'
  <2>1. \A list : ListOK(list, chosen) => ListOK(list, chosen \cup {root}) BY ListGrows
  <2>2. ListOK(approvedRoots, chosen \cup {root}) /\ ListOK(rootsFile, chosen \cup {root})
        /\ \A sv \in saves : ListOK(sv.before, chosen \cup {root}) /\ ListOK(sv.list, chosen \cup {root}) /\ sv.root \in chosen
    BY <1>0, <2>1 DEF ListsOK
  <2> QED BY <1>1, <1>2, <1>3, <1>4, <2>2 DEF ListsOK
<1> QED BY <1>4, <1>5, <1>6, WindowKept DEF WorkspaceInv

LEMMA SaveFailsSafe ==
  ASSUME WorkspaceInv, NEW sv \in saves, SaveFails(sv) PROVE WorkspaceInv'
<1>1. UNCHANGED windowVars /\ chosen' = chosen BY DEF SaveFails, windowVars
<1>2. WorkspaceShape' BY DEF WorkspaceInv, WorkspaceShape, SaveFails, SaveRow
<1>3. ListsOK' BY DEF WorkspaceInv, ListsOK, SaveFails
<1> QED BY <1>1, <1>2, <1>3, WindowKept DEF WorkspaceInv

LEMMA MoveSafe ==
  ASSUME WorkspaceInv, NEW root \in Roots, MoveDirectory(root) PROVE WorkspaceInv'
<1>1. UNCHANGED windowVars /\ chosen' = chosen BY DEF MoveDirectory, windowVars
<1>2. WorkspaceShape' BY DEF WorkspaceInv, WorkspaceShape, MoveDirectory
<1>3. ListsOK' BY ListsKept DEF WorkspaceInv, MoveDirectory
<1> QED BY <1>1, <1>2, <1>3, WindowKept DEF WorkspaceInv

\* The window goes on with a project whose files it has yet to load.
LEMMA OpensPane ==
  ASSUME WorkspaceInv, NEW root \in Roots, root \in chosen, NEW keep \in BOOLEAN, chosen' = chosen,
         project' \in ProjectRow, project'.root = root, ShownOK(project', "loading"),
         project'.files # NoRoot => project' = validated.project, diffStatus' = "loading",
         validated' = validated, recent' = root, loads' = Loading(root, keep), fileReads' = Passed(fileReads)
  PROVE  OpenedOK' /\ PaneOK' /\ CurrentOK' /\ loads' \subseteq LoadRow /\ fileReads' \subseteq ReadRow
<1>0. WorkspaceShape /\ OpenedOK /\ PaneOK /\ CurrentOK BY DEF WorkspaceInv
<1>1. PICK new \in loads' :
         /\ new.kind = "load" /\ new.root = root /\ new.current = TRUE /\ new.files = "loading" /\ new.diff = "loading"
         /\ \A one \in loads' : one = new \/ (one.current = FALSE /\ OfLoads(one, loads))
  <2>1. PICK now : now = Loading(root, keep) OBVIOUS
  <2>2. BeginsLoad(now, loads, root) BY <1>0, <2>1, LoadingFacts DEF WorkspaceShape
  <2>3. loads' = now BY <2>1
  <2> QED BY <2>2, <2>3 DEF BeginsLoad
<1>2. loads' \subseteq LoadRow BY <1>0, LoadingFacts DEF WorkspaceShape
<1>3. /\ fileReads' \subseteq ReadRow
      /\ \A one \in fileReads' : one.current = FALSE /\ \E o \in fileReads : one.root = o.root
  BY <1>0, PassedReads DEF WorkspaceShape
<1>4. OpenedOK' BY <1>0, <1>1, <1>3 DEF OpenedOK, OfLoads
<1>5. Loads' BY <1>1 DEF Loads
<1>6. PaneOK' BY <1>0, <1>5 DEF PaneOK, ShownOK
<1>7. CurrentOK' BY <1>0, <1>1, <1>3 DEF CurrentOK, OfLoads
<1> QED BY <1>2, <1>3, <1>4, <1>6, <1>7

LEMMA SavedSafe ==
  ASSUME WorkspaceInv, NEW sv \in saves, Saved(sv) PROVE WorkspaceInv'
<1>0. WorkspaceShape /\ ListsOK BY DEF WorkspaceInv
<1>1. sv \in SaveRow /\ sv.root \in chosen /\ sv.root \in Roots /\ sv.list \in Seq(Roots)
  BY <1>0 DEF WorkspaceShape, ListsOK, SaveRow
<1>2. rootsFile' = sv.list /\ saves' = saves \ {sv} /\ present' = present /\ approvedRoots' = approvedRoots
      /\ chosen' = chosen /\ validated' = validated
  BY DEF Saved
<1>3. ListsOK' BY <1>0, <1>2 DEF ListsOK
<1>4. CASE sv.awaited
  <2>1. PICK p : p = [emptyProject EXCEPT !.root = sv.root] OBVIOUS
  <2>2. p \in ProjectRow /\ p.root = sv.root /\ p.files = NoRoot /\ p.diff = NoRoot /\ p.file = NoRoot
    BY <1>1, <2>1 DEF emptyProject, ProjectRow, RootOrNone
  <2>3. /\ project' = p /\ diffStatus' = "loading" /\ recent' = sv.root
        /\ loads' = Loading(sv.root, FALSE) /\ fileReads' = Passed(fileReads)
    BY <1>4, <2>1 DEF Saved
  <2>4. ShownOK(p, "loading") BY <2>2 DEF ShownOK
  <2>5. OpenedOK' /\ PaneOK' /\ CurrentOK' /\ loads' \subseteq LoadRow /\ fileReads' \subseteq ReadRow
    BY <1>1, <1>2, <2>2, <2>3, <2>4, OpensPane
  <2>6. WorkspaceShape' BY <1>0, <1>1, <1>2, <2>2, <2>3, <2>5 DEF WorkspaceShape, RootOrNone, DiffStatuses
  <2> QED BY <1>3, <2>5, <2>6 DEF WorkspaceInv
<1>5. CASE ~sv.awaited
  <2>1. UNCHANGED windowVars BY <1>2, <1>5 DEF Saved, windowVars
  <2>2. OpenedOK' /\ PaneOK' /\ CurrentOK' BY <1>2, <2>1, WindowKept
  <2>3. WorkspaceShape' BY <1>0, <1>1, <1>2, <2>1 DEF WorkspaceShape, windowVars
  <2> QED BY <1>3, <2>2, <2>3 DEF WorkspaceInv
<1> QED BY <1>4, <1>5

LEMMA RefreshSafe ==
  ASSUME WorkspaceInv, refreshProject PROVE WorkspaceInv'
<1>0. WorkspaceShape /\ ListsOK /\ OpenedOK /\ PaneOK BY DEF WorkspaceInv
<1>1. PICK root : root = project.root OBVIOUS
<1>2. root \in Roots /\ root \in chosen /\ root = recent /\ project \in ProjectRow
  BY <1>0, <1>1 DEF refreshProject, WorkspaceShape, ProjectRow, RootOrNone, PaneOK, OpenedOK
<1>3. ShownOK(project, "loading") /\ (project.files # NoRoot => project = validated.project) BY <1>0 DEF PaneOK, ShownOK
<1>4. /\ project' = project /\ diffStatus' = "loading" /\ recent' = recent /\ validated' = validated
      /\ loads' = Loading(root, TRUE) /\ fileReads' = Passed(fileReads)
      /\ present' = present /\ approvedRoots' = approvedRoots /\ rootsFile' = rootsFile /\ saves' = saves
      /\ chosen' = chosen
  BY <1>1 DEF refreshProject, mainVars
<1>5. OpenedOK' /\ PaneOK' /\ CurrentOK' /\ loads' \subseteq LoadRow /\ fileReads' \subseteq ReadRow
  BY <1>1, <1>2, <1>3, <1>4, OpensPane
<1>6. WorkspaceShape' BY <1>0, <1>4, <1>5 DEF WorkspaceShape, DiffStatuses
<1>7. ListsOK' BY <1>0, <1>4, ListsKept
<1> QED BY <1>5, <1>6, <1>7 DEF WorkspaceInv

LEMMA AnsweredRow ==
  ASSUME NEW ld \in LoadRow, NEW f \in {"loaded", "dropped"}, NEW d \in {"ready", "error"}
  PROVE  /\ LET one == [ld EXCEPT !.files = f] IN
            /\ one \in LoadRow /\ one.root = ld.root /\ one.kind = ld.kind /\ one.current = ld.current
            /\ one.files = f /\ one.diff = ld.diff
         /\ LET one == [ld EXCEPT !.diff = d] IN
            /\ one \in LoadRow /\ one.root = ld.root /\ one.kind = ld.kind /\ one.current = ld.current
            /\ one.files = ld.files /\ one.diff = d
<1>1. [ld EXCEPT !.files = f] \in LoadRow BY DEF LoadRow
<1>2. [ld EXCEPT !.diff = d] \in LoadRow BY DEF LoadRow
<1> QED BY <1>1, <1>2 DEF LoadRow

\* What the steps of the window that open no project have in common.
LEMMA PaneStep ==
  ASSUME WorkspaceInv, UNCHANGED mainVars,
         project' \in ProjectRow, diffStatus' \in DiffStatuses, validated' \in [project : ProjectRow, status : DiffStatuses],
         recent' \in RootOrNone, loads' \subseteq LoadRow, fileReads' \subseteq ReadRow,
         OpenedOK', PaneOK', CurrentOK'
  PROVE  WorkspaceInv'
<1>1. ListsOK' BY ListsKept DEF WorkspaceInv, mainVars
<1>2. WorkspaceShape' BY DEF WorkspaceInv, WorkspaceShape, mainVars
<1> QED BY <1>1, <1>2 DEF WorkspaceInv

\* What could be read was picked.
LEMMA ReadableChosen == ASSUME WorkspaceInv, NEW root, Readable(root) PROVE root \in chosen /\ root \in Roots
BY DEF WorkspaceInv, WorkspaceShape, ListsOK, ListOK, Readable

LEMMA FilesAnsweredSafe ==
  ASSUME WorkspaceInv, NEW ld \in loads, NEW ok \in BOOLEAN, FilesAnswered(ld, ok) PROVE WorkspaceInv'
<1>0. WorkspaceShape /\ OpenedOK /\ PaneOK /\ CurrentOK BY DEF WorkspaceInv
<1>1. /\ ld \in LoadRow /\ ld.kind = "load" /\ ld.files = "loading" /\ ld.root \in Roots /\ ld.current \in BOOLEAN
      /\ ld.root \in chosen /\ UNCHANGED mainVars /\ chosen' = chosen /\ ld.diff \in DiffStatuses
      /\ project \in ProjectRow /\ validated.project \in ProjectRow /\ validated.status \in DiffStatuses
  BY <1>0 DEF FilesAnswered, WorkspaceShape, LoadRow, OpenedOK, mainVars, CurrentOK, DiffStatuses
<1>2. PICK drop, in : /\ drop = [ld EXCEPT !.files = "dropped"] /\ in = [ld EXCEPT !.files = "loaded"]
  OBVIOUS
<1>3. /\ drop \in LoadRow /\ drop.root = ld.root /\ drop.kind = "load" /\ drop.current = ld.current
      /\ drop.files = "dropped" /\ drop.diff = ld.diff
      /\ in \in LoadRow /\ in.root = ld.root /\ in.kind = "load" /\ in.current = ld.current
      /\ in.files = "loaded" /\ in.diff = ld.diff
  BY <1>1, <1>2, AnsweredRow
<1>4. CASE Overtaken(ld)
  <2>1. /\ loads' \subseteq (loads \ {ld}) \cup {drop} /\ loads \ {ld} \subseteq loads'
        /\ UNCHANGED <<project, diffStatus, validated, recent, fileReads>>
    BY <1>2, <1>4 DEF FilesAnswered, Unsettled
  <2>2. drop.current = FALSE /\ ld.current = FALSE BY <1>1, <1>3, <1>4 DEF Overtaken
  <2>3. OpenedOK' BY <1>0, <1>1, <1>3, <2>1 DEF OpenedOK
  <2>4. Loads' <=> Loads BY <1>3, <2>1, <2>2 DEF Loads
  <2>5. PaneOK' BY <1>0, <2>1, <2>4 DEF PaneOK, ShownOK
  <2>6. CurrentOK' BY <1>0, <1>1, <1>3, <2>1, <2>2 DEF CurrentOK
  <2> QED BY <1>0, <1>1, <1>3, <2>1, <2>3, <2>5, <2>6, PaneStep DEF WorkspaceShape
<1>5. CASE ~Overtaken(ld) /\ ok
  <2>0. ld.current /\ ld.root = project.root /\ recent = ld.root BY <1>0, <1>5 DEF Overtaken, CurrentOK, PaneOK
  <2>1. PICK p : p = Filled(ld) OBVIOUS
  <2>2. p \in ProjectRow /\ p.root = ld.root /\ p.files = ld.root /\ ShownOK(p, ld.diff)
    <3>1. /\ p.root = ld.root /\ p.files = ld.root
          /\ p.diff \in {project.diff, NoRoot, ld.root} /\ (ld.diff = "ready" => p.diff = ld.root)
          /\ p.file \in {project.file, NoRoot}
      BY <2>1 DEF Filled
    <3>2. p = [root |-> p.root, files |-> p.files, diff |-> p.diff, file |-> p.file] BY <2>1 DEF Filled
    <3>3. p.diff \in {NoRoot, ld.root} /\ p.file \in {NoRoot, ld.root} BY <1>0, <2>0, <3>1 DEF PaneOK, ShownOK
    <3> HIDE DEF NoRoot
    <3>4. p \in ProjectRow BY <1>1, <3>1, <3>2, <3>3 DEF ProjectRow, RootOrNone
    <3>5. ShownOK(p, ld.diff)
      BY <1>1, <3>1, <3>3, WorkspaceAssumption DEF ShownOK
    <3> QED BY <3>1, <3>4, <3>5
  <2>3. /\ loads' \subseteq (loads \ {ld}) \cup {in} /\ loads \ {ld} \subseteq loads'
        /\ project' = p /\ diffStatus' = ld.diff /\ validated' = [project |-> p, status |-> ld.diff]
        /\ recent' = recent /\ fileReads' = fileReads
    BY <1>2, <1>5, <2>1 DEF FilesAnswered, Unsettled, Shows
  <2>4. OpenedOK' BY <1>0, <1>1, <1>3, <2>2, <2>3 DEF OpenedOK
  <2>5. PaneOK' BY <1>0, <2>0, <2>2, <2>3 DEF PaneOK
  <2>6. CurrentOK' BY <1>0, <1>1, <1>3, <2>0, <2>2, <2>3 DEF CurrentOK
  <2>7. validated' \in [project : ProjectRow, status : DiffStatuses] BY <1>1, <2>2, <2>3
  <2> QED BY <1>0, <1>1, <1>3, <2>2, <2>3, <2>4, <2>5, <2>6, <2>7, PaneStep DEF WorkspaceShape
<1>6. CASE ~Overtaken(ld) /\ ~ok
  <2>1. PICK all : all = (loads \ {ld}) \cup Unsettled(drop) OBVIOUS
  <2>2. all \subseteq LoadRow /\ (\A one \in all : one = drop \/ one \in loads) BY <1>0, <1>3, <2>1 DEF Unsettled, WorkspaceShape
  <2>3. /\ loads' = Passed(all) /\ fileReads' = Passed(fileReads)
        /\ project' = validated.project /\ diffStatus' = validated.status /\ validated' = validated
        /\ recent' = validated.project.root
    BY <1>2, <1>6, <2>1 DEF FilesAnswered, FallBack
  <2>4. /\ loads' \subseteq LoadRow
        /\ \A one \in loads' : /\ one.current = FALSE
                               /\ \E o \in all : one.root = o.root /\ one.kind = o.kind /\ one.files = o.files /\ one.diff = o.diff
    BY <2>2, <2>3, PassedLoads
  <2>5. fileReads' \subseteq ReadRow /\ \A one \in fileReads' : one.current = FALSE /\ \E o \in fileReads : one.root = o.root
    BY <1>0, <2>3, PassedReads DEF WorkspaceShape
  <2>6. OpenedOK' BY <1>0, <1>1, <1>3, <2>2, <2>3, <2>4, <2>5 DEF OpenedOK
  <2>7. PaneOK' BY <1>0, <2>3 DEF PaneOK
  <2>8. CurrentOK' BY <1>0, <1>1, <1>3, <2>2, <2>4, <2>5 DEF CurrentOK
  <2>9. recent' \in RootOrNone BY <1>1, <2>3 DEF ProjectRow
  <2> QED BY <1>0, <1>1, <2>3, <2>4, <2>5, <2>6, <2>7, <2>8, <2>9, PaneStep DEF WorkspaceShape
<1> QED BY <1>4, <1>5, <1>6

LEMMA DiffAnsweredSafe ==
  ASSUME WorkspaceInv, NEW ld \in loads, NEW status \in {"ready", "error"}, DiffAnswered(ld, status)
  PROVE  WorkspaceInv'
<1>0. WorkspaceShape /\ OpenedOK /\ PaneOK /\ CurrentOK BY DEF WorkspaceInv
<1>1. /\ ld \in LoadRow /\ ld.kind = "load" /\ ld.root \in Roots /\ ld.current \in BOOLEAN
      /\ ld.root \in chosen /\ UNCHANGED mainVars /\ chosen' = chosen /\ ld.files # "none" /\ ld.diff = "loading"
      /\ project \in ProjectRow /\ validated.project \in ProjectRow /\ validated.status \in DiffStatuses
      /\ recent' = recent /\ fileReads' = fileReads
  BY <1>0 DEF DiffAnswered, WorkspaceShape, LoadRow, OpenedOK, mainVars, CurrentOK
<1>2. PICK one : one = [ld EXCEPT !.diff = status] OBVIOUS
<1>3. /\ one \in LoadRow /\ one.root = ld.root /\ one.kind = "load" /\ one.current = ld.current
      /\ one.files = ld.files /\ one.diff = status
  BY <1>1, <1>2, AnsweredRow
<1>4. /\ loads' \subseteq (loads \ {ld}) \cup {one} /\ loads \ {ld} \subseteq loads'
      /\ ld.files = "loading" => one \in loads'
  BY <1>2, <1>3 DEF DiffAnswered, Unsettled
<1>6. Loads' <=> Loads
  <2>1. ASSUME Loads PROVE Loads'
    <3>1. PICK l \in loads : l.current /\ l.files = "loading" BY <2>1 DEF Loads
    <3> QED BY <1>3, <1>4, <3>1 DEF Loads
  <2>2. ASSUME Loads' PROVE Loads
    <3>1. PICK l \in loads' : l.current /\ l.files = "loading" BY <2>2 DEF Loads
    <3> QED BY <1>3, <1>4, <3>1 DEF Loads
  <2> QED BY <2>1, <2>2
<1>7. CASE ~(ld.files = "loaded" /\ ~Overtaken(ld))
  <2>1. UNCHANGED <<project, diffStatus, validated>> BY <1>7 DEF DiffAnswered
  <2>2. OpenedOK' BY <1>0, <1>1, <1>3, <1>4, <2>1 DEF OpenedOK
  <2>3. CurrentOK' BY <1>0, <1>1, <1>3, <1>4, <2>1 DEF CurrentOK
  <2>4. PaneOK' BY <1>0, <1>1, <1>6, <2>1 DEF PaneOK, ShownOK
  <2>5. loads' \subseteq LoadRow BY <1>0, <1>3, <1>4 DEF WorkspaceShape
  <2> QED BY <1>0, <1>1, <2>1, <2>2, <2>3, <2>4, <2>5, PaneStep DEF WorkspaceShape
<1>8. CASE ld.files = "loaded" /\ ~Overtaken(ld)
  <2>1. ld.current /\ ld.root = project.root BY <1>0, <1>1, <1>8 DEF Overtaken, CurrentOK
  <2>2. ~Loads
    <3> SUFFICES ASSUME NEW l \in loads, l.current, l.files = "loading" PROVE FALSE
      BY DEF Loads
    <3>1. l.kind = "load" BY <1>0 DEF CurrentOK, WorkspaceShape, LoadRow
    <3>2. l = ld BY <1>0, <1>1, <2>1, <3>1 DEF CurrentOK
    <3> QED BY <3>2, <1>8
  <2>3. project = validated.project /\ diffStatus = validated.status /\ project.files = project.root /\ project.root # NoRoot
    BY <1>0, <1>1, <2>1, <2>2, WorkspaceAssumption DEF PaneOK
  <2>4. PICK p : p = [project EXCEPT !.diff = IF status = "ready" /\ project.root = ld.root THEN ld.root ELSE @] OBVIOUS
  <2>5. /\ p \in ProjectRow /\ p.root = project.root /\ p.files = project.files /\ p.file = project.file
        /\ p.diff \in {project.diff, ld.root} /\ (status = "ready" => p.diff = ld.root)
    BY <1>1, <2>1, <2>4 DEF ProjectRow, RootOrNone
  <2>6. /\ project' = p /\ diffStatus' = status
        /\ validated' = [project |-> IF p = project THEN validated.project ELSE p, status |-> status]
    BY <1>8, <2>4 DEF DiffAnswered
  <2>7. validated' = [project |-> p, status |-> status] BY <2>3, <2>6
  <2>8. OpenedOK' BY <1>0, <1>1, <1>3, <1>4, <2>1, <2>3, <2>5, <2>7 DEF OpenedOK
  <2>9. CurrentOK' BY <1>0, <1>1, <1>3, <1>4, <2>5, <2>6 DEF CurrentOK
  <2>10. ShownOK(p, status) BY <1>0, <1>1, <2>1, <2>3, <2>5 DEF PaneOK, ShownOK
  <2>11. PaneOK' BY <1>0, <1>1, <2>3, <2>5, <2>6, <2>7, <2>10 DEF PaneOK
  <2>12. /\ loads' \subseteq LoadRow /\ status \in DiffStatuses /\ validated' \in [project : ProjectRow, status : DiffStatuses]
    BY <1>0, <1>3, <1>4, <2>5, <2>7 DEF WorkspaceShape, DiffStatuses
  <2> QED BY <1>0, <1>1, <2>5, <2>6, <2>8, <2>9, <2>11, <2>12, PaneStep DEF WorkspaceShape
<1> QED BY <1>7, <1>8

LEMMA RunBeginsSafe ==
  ASSUME WorkspaceInv, RunBegins PROVE WorkspaceInv'
<1>0. WorkspaceShape /\ OpenedOK /\ PaneOK /\ CurrentOK BY DEF WorkspaceInv
<1>1. PICK run : /\ run = [kind |-> "run", root |-> project.root, current |-> TRUE, keep |-> FALSE, files |-> "none", diff |-> "none"]
                 /\ loads' = loads \cup {run}
  BY DEF RunBegins
<1>2. /\ project.root \in Roots /\ project.root \in chosen
      /\ UNCHANGED <<project, diffStatus, validated, recent, fileReads>> /\ UNCHANGED mainVars /\ chosen' = chosen
  BY <1>0 DEF RunBegins, WorkspaceShape, ProjectRow, RootOrNone, PaneOK, OpenedOK, mainVars
<1>3. run \in LoadRow /\ run.kind = "run" /\ run.root = project.root /\ run.files = "none"
  BY <1>1, <1>2 DEF LoadRow
<1>4. OpenedOK' BY <1>0, <1>1, <1>2, <1>3 DEF OpenedOK
<1>5. Loads' <=> Loads BY <1>1, <1>3 DEF Loads
<1>6. PaneOK' BY <1>0, <1>2, <1>5 DEF PaneOK, ShownOK
<1>7. CurrentOK' BY <1>0, <1>1, <1>2, <1>3 DEF CurrentOK
<1> QED BY <1>0, <1>1, <1>2, <1>3, <1>4, <1>6, <1>7, PaneStep DEF WorkspaceShape

LEMMA CommittedSafe ==
  ASSUME WorkspaceInv, NEW ld \in loads, NEW status \in {"ready", "error", "failed"}, Committed(ld, status)
  PROVE  WorkspaceInv'
<1>0. WorkspaceShape /\ OpenedOK /\ PaneOK /\ CurrentOK BY DEF WorkspaceInv
<1>1. /\ loads' = loads \ {ld} /\ ld \in LoadRow /\ ld.kind = "run" /\ ld.files = "none" /\ ld.root \in Roots
      /\ ld.root \in chosen /\ recent' = recent /\ UNCHANGED mainVars /\ chosen' = chosen
      /\ project \in ProjectRow
  BY <1>0 DEF Committed, WorkspaceShape, LoadRow, OpenedOK, CurrentOK, mainVars
<1>2. Loads' <=> Loads BY <1>1 DEF Loads
<1>3. CASE status # "failed" /\ ~Overtaken(ld) /\ project.root = ld.root
  <2>1. PICK p : p = [root |-> ld.root, files |-> ld.root, diff |-> IF status = "ready" THEN ld.root ELSE NoRoot, file |-> project.file]
    OBVIOUS
  <2>2. /\ p \in ProjectRow /\ p.root = project.root /\ p.files = project.root /\ p.file = project.file
        /\ p.diff \in {NoRoot, project.root} /\ (status = "ready" => p.diff = project.root)
    BY <1>1, <1>3, <2>1 DEF ProjectRow, RootOrNone
  <2>3. project' = p /\ diffStatus' = status /\ validated' = [project |-> p, status |-> status] /\ fileReads' = Passed(fileReads)
    BY <1>3, <2>1 DEF Committed, Shows
  <2>4. fileReads' \subseteq ReadRow /\ \A one \in fileReads' : one.current = FALSE /\ \E o \in fileReads : one.root = o.root
    BY <1>0, <2>3, PassedReads DEF WorkspaceShape
  <2>5. ShownOK(p, status) /\ p.root # NoRoot BY <1>0, <1>1, <1>3, <2>2, WorkspaceAssumption DEF PaneOK, ShownOK
  <2>6. OpenedOK' BY <1>0, <1>1, <1>3, <2>2, <2>3, <2>4 DEF OpenedOK
  <2>7. PaneOK' BY <1>0, <1>1, <2>2, <2>3, <2>5 DEF PaneOK
  <2>8. CurrentOK' BY <1>0, <1>1, <2>2, <2>3, <2>4 DEF CurrentOK
  <2>9. status \in DiffStatuses /\ validated' \in [project : ProjectRow, status : DiffStatuses] /\ loads' \subseteq LoadRow
    BY <1>0, <1>1, <1>3, <2>2, <2>3 DEF DiffStatuses, WorkspaceShape
  <2> QED BY <1>0, <1>1, <2>2, <2>3, <2>4, <2>6, <2>7, <2>8, <2>9, PaneStep DEF WorkspaceShape
<1>4. CASE ~(status # "failed" /\ ~Overtaken(ld) /\ project.root = ld.root)
  <2>1. UNCHANGED <<project, diffStatus, validated, fileReads>> BY <1>4 DEF Committed
  <2>2. OpenedOK' BY <1>0, <1>1, <2>1 DEF OpenedOK
  <2>3. PaneOK' BY <1>0, <1>1, <1>2, <2>1 DEF PaneOK, ShownOK
  <2>4. CurrentOK' BY <1>0, <1>1, <2>1 DEF CurrentOK
  <2> QED BY <1>0, <1>1, <2>1, <2>2, <2>3, <2>4, PaneStep DEF WorkspaceShape
<1> QED BY <1>3, <1>4

LEMMA SelectSafe ==
  ASSUME WorkspaceInv, NEW isFile \in BOOLEAN, handleFileSelect(isFile) PROVE WorkspaceInv'
<1>0. WorkspaceShape /\ OpenedOK /\ PaneOK /\ CurrentOK BY DEF WorkspaceInv
<1>1. /\ UNCHANGED mainVars /\ chosen' = chosen /\ UNCHANGED <<project, diffStatus, validated, recent, loads>>
      /\ project.files = project.root /\ project.root \in Roots /\ project.root \in chosen
  BY <1>0 DEF handleFileSelect, mainVars, PaneOK, ShownOK, OpenedOK, WorkspaceShape, ProjectRow, RootOrNone
<1>2. PICK new : /\ new = [root |-> project.root, current |-> TRUE]
                 /\ fileReads' \subseteq Passed(fileReads) \cup {new}
  BY DEF handleFileSelect
<1>3. new \in ReadRow /\ new.root = project.root BY <1>1, <1>2 DEF ReadRow
<1>4. fileReads' \subseteq ReadRow /\ \A one \in fileReads' : one = new \/ (one.current = FALSE /\ \E o \in fileReads : one.root = o.root)
  BY <1>0, <1>2, <1>3, PassedReads DEF WorkspaceShape
<1>5. OpenedOK' BY <1>0, <1>1, <1>3, <1>4 DEF OpenedOK
<1>6. PaneOK' BY <1>0, <1>1 DEF PaneOK, ShownOK, Loads
<1>7. CurrentOK' BY <1>0, <1>1, <1>3, <1>4 DEF CurrentOK
<1> QED BY <1>0, <1>1, <1>4, <1>5, <1>6, <1>7, PaneStep DEF WorkspaceShape

LEMMA FileReadSafe ==
  ASSUME WorkspaceInv, NEW rd \in fileReads, NEW ok \in BOOLEAN, FileRead(rd, ok) PROVE WorkspaceInv'
<1>0. WorkspaceShape /\ OpenedOK /\ PaneOK /\ CurrentOK BY DEF WorkspaceInv
<1>1. /\ UNCHANGED mainVars /\ chosen' = chosen /\ UNCHANGED <<diffStatus, recent, loads>>
      /\ fileReads' = fileReads \ {rd} /\ rd.root \in Roots /\ rd.root \in chosen /\ project \in ProjectRow
      /\ validated \in [project : ProjectRow, status : DiffStatuses]
  BY <1>0 DEF FileRead, mainVars, WorkspaceShape, ReadRow, OpenedOK
<1>2. CASE ok /\ ~Overtaken(rd) /\ project.root = rd.root
  <2>1. PICK p, v : p = [project EXCEPT !.file = rd.root] /\ v = [validated EXCEPT !.project = p] OBVIOUS
  <2>2. /\ p \in ProjectRow /\ p.root = project.root /\ p.files = project.files /\ p.diff = project.diff /\ p.file = rd.root
    BY <1>1, <2>1 DEF ProjectRow, RootOrNone
  <2>3. v \in [project : ProjectRow, status : DiffStatuses] /\ v.project = p /\ v.status = validated.status
    BY <1>1, <2>1, <2>2
  <2>4. project' = p /\ validated' = v BY <1>2, <2>1 DEF FileRead
  <2>5. project.files = project.root /\ project.root # NoRoot
    BY <1>0, <1>1, <1>2, WorkspaceAssumption DEF Overtaken, CurrentOK
  <2>6. OpenedOK' BY <1>0, <1>1, <1>2, <2>2, <2>3, <2>4 DEF OpenedOK
  <2>7. CurrentOK' BY <1>0, <1>1, <2>2, <2>4 DEF CurrentOK
  <2>8. PaneOK'
    <3>1. ASSUME NEW s, ShownOK(project, s) PROVE ShownOK(p, s) BY <1>2, <2>2, <2>5, <3>1 DEF ShownOK
    <3>2. ShownOK(p, diffStatus) BY <1>0, <3>1 DEF PaneOK
    <3>3. project = validated.project BY <1>0, <2>5 DEF PaneOK
    <3>4. ShownOK(p, validated.status) BY <1>0, <3>1, <3>3 DEF PaneOK
    <3> QED BY <1>0, <1>1, <2>2, <2>3, <2>4, <2>5, <3>2, <3>4 DEF PaneOK, Loads
  <2> QED BY <1>0, <1>1, <2>2, <2>3, <2>4, <2>6, <2>7, <2>8, PaneStep DEF WorkspaceShape
<1>3. CASE ~(ok /\ ~Overtaken(rd) /\ project.root = rd.root)
  <2>1. UNCHANGED <<project, validated>> BY <1>3 DEF FileRead
  <2>2. OpenedOK' BY <1>0, <1>1, <2>1 DEF OpenedOK
  <2>3. PaneOK' BY <1>0, <1>1, <2>1 DEF PaneOK, ShownOK, Loads
  <2>4. CurrentOK' BY <1>0, <1>1, <2>1 DEF CurrentOK
  <2> QED BY <1>0, <1>1, <2>1, <2>2, <2>3, <2>4, PaneStep DEF WorkspaceShape
<1> QED BY <1>2, <1>3

\* The first render of a window, whatever it finds approved.
LEMMA MountsSafe ==
  ASSUME WorkspaceInv, Mounts, chosen' = chosen
  PROVE  /\ OpenedOK' /\ PaneOK' /\ CurrentOK'
         /\ project' \in ProjectRow /\ diffStatus' \in DiffStatuses
         /\ validated' \in [project : ProjectRow, status : DiffStatuses]
         /\ recent' \in RootOrNone /\ loads' \subseteq LoadRow /\ fileReads' \subseteq ReadRow
<1>0. recent \in RootOrNone /\ recent \in chosen \cup {NoRoot}
  BY DEF WorkspaceInv, WorkspaceShape, OpenedOK
<1>1. /\ emptyProject \in ProjectRow /\ emptyProject.root = NoRoot /\ emptyProject.files = NoRoot
      /\ emptyProject.diff = NoRoot /\ emptyProject.file = NoRoot
  BY DEF emptyProject, ProjectRow, RootOrNone
<1>2. PICK p, v : p = [emptyProject EXCEPT !.root = recent] /\ v = [project |-> emptyProject, status |-> "idle"]
  OBVIOUS
<1>3. /\ p \in ProjectRow /\ p.root = recent /\ p.files = NoRoot /\ p.diff = NoRoot /\ p.file = NoRoot
      /\ recent = NoRoot => p = emptyProject
  <2>1. p = [root |-> recent, files |-> NoRoot, diff |-> NoRoot, file |-> NoRoot] BY <1>2 DEF emptyProject
  <2>2. recent = NoRoot => p = emptyProject BY <2>1 DEF emptyProject
  <2>3. NoRoot \in RootOrNone BY DEF RootOrNone
  <2> QED BY <1>0, <2>1, <2>2, <2>3 DEF ProjectRow
<1> HIDE DEF emptyProject
<1>4. /\ v \in [project : ProjectRow, status : DiffStatuses] /\ v.project = emptyProject /\ v.status = "idle"
  BY <1>1, <1>2 DEF DiffStatuses
<1>5. /\ project' = p /\ validated' = v /\ fileReads' = {} /\ recent' = recent
      /\ diffStatus' = IF recent = NoRoot THEN "idle" ELSE "loading"
  BY <1>2 DEF Mounts
<1>6. CASE recent = NoRoot
  <2>1. loads' = {} /\ diffStatus' = "idle" BY <1>5, <1>6 DEF Mounts
  <2> QED BY <1>0, <1>1, <1>3, <1>4, <1>5, <1>6, <2>1 DEF OpenedOK, PaneOK, ShownOK, CurrentOK, DiffStatuses
<1>7. CASE recent # NoRoot
  <2>0. recent \in Roots BY <1>0, <1>7 DEF RootOrNone
  <2>1. PICK new : /\ new = [kind |-> "load", root |-> recent, current |-> TRUE, keep |-> FALSE, files |-> "loading", diff |-> "loading"]
                   /\ loads' = {new} /\ diffStatus' = "loading"
    BY <1>5, <1>7 DEF Mounts
  <2>2. /\ new \in LoadRow /\ new.kind = "load" /\ new.root = recent /\ new.current = TRUE /\ new.files = "loading" /\ new.diff = "loading"
    BY <2>0, <2>1 DEF LoadRow
  <2>3. OpenedOK' BY <1>0, <1>1, <1>4, <1>5, <1>7, <2>1, <2>2 DEF OpenedOK
  <2>4. Loads' BY <2>1, <2>2 DEF Loads
  <2>5. PaneOK' BY <1>1, <1>3, <1>4, <1>5, <2>1, <2>4 DEF PaneOK, ShownOK
  <2>6. CurrentOK' BY <1>3, <1>5, <2>1, <2>2 DEF CurrentOK
  <2> QED BY <1>0, <1>3, <1>4, <1>5, <2>1, <2>2, <2>3, <2>5, <2>6 DEF DiffStatuses
<1> QED BY <1>6, <1>7

LEMMA ReopensSafe ==
  ASSUME WorkspaceInv, WindowReopens PROVE WorkspaceInv'
<1>0. WorkspaceShape /\ ListsOK BY DEF WorkspaceInv
<1>1. /\ UNCHANGED <<present, approvedRoots, rootsFile, chosen>> /\ Mounts
      /\ saves' = {[sv EXCEPT !.awaited = FALSE] : sv \in saves}
  BY DEF WindowReopens
<1>2. ASSUME NEW sv \in saves
      PROVE  LET one == [sv EXCEPT !.awaited = FALSE] IN
             one \in SaveRow /\ one.root = sv.root /\ one.before = sv.before /\ one.list = sv.list
  <2>1. sv \in SaveRow BY <1>0 DEF WorkspaceShape
  <2> QED BY <2>1 DEF SaveRow
<1>3. saves' \subseteq SaveRow BY <1>1, <1>2
<1>4. ListsOK' BY <1>0, <1>1, <1>2 DEF ListsOK
<1>5. WorkspaceShape' BY <1>0, <1>1, <1>3, MountsSafe DEF WorkspaceShape
<1> QED BY <1>1, <1>4, <1>5, MountsSafe DEF WorkspaceInv

LEMMA RestartsSafe ==
  ASSUME WorkspaceInv, NEW ok \in BOOLEAN, AppRestarts(ok) PROVE WorkspaceInv'
<1>0. WorkspaceShape /\ ListsOK BY DEF WorkspaceInv
<1>1. PICK restored : restored = Filtered(rootsFile, present) OBVIOUS
<1>2. /\ approvedRoots' = restored /\ saves' = {} /\ rootsFile' = IF ok THEN restored ELSE rootsFile
      /\ UNCHANGED <<present, chosen>> /\ Mounts
  BY <1>1 DEF AppRestarts
<1>3. restored \in Seq(Roots) /\ ListOK(restored, chosen)
  <2>1. rootsFile \in Seq(Roots) /\ ListOK(rootsFile, chosen) BY <1>0 DEF WorkspaceShape, ListsOK
  <2>2. /\ restored \in Seq(Roots) /\ Len(restored) <= Len(rootsFile) /\ ToSet(restored) \subseteq ToSet(rootsFile)
        /\ IsInjective(rootsFile) => IsInjective(restored)
    BY <1>1, <2>1, FilteredFacts
  <2>3. Len(restored) \in Nat /\ Len(rootsFile) \in Nat BY <2>1, <2>2, LenProperties
  <2> QED BY <2>1, <2>2, <2>3, WorkspaceAssumption DEF ListOK
<1>4. ListsOK' BY <1>0, <1>2, <1>3 DEF ListsOK
<1>5. WorkspaceShape' BY <1>0, <1>2, <1>3, MountsSafe DEF WorkspaceShape
<1> QED BY <1>2, <1>4, <1>5, MountsSafe DEF WorkspaceInv

LEMMA WorkspaceImplies == ASSUME WorkspaceInv PROVE WorkspaceSafe
<1>0. WorkspaceShape /\ ListsOK /\ OpenedOK /\ PaneOK BY DEF WorkspaceInv
<1>1. ShownIsOfRoot BY <1>0 DEF PaneOK, ShownOK, ShownIsOfRoot
<1>2. SettledIsValidated BY <1>0 DEF PaneOK, ShownOK, Loads, SettledIsValidated
<1>3. ApprovedWereChosen
  <2>1. \A list \in {approvedRoots, rootsFile} : ToSet(list) \subseteq chosen /\ Len(list) <= MaxApproved /\ IsInjective(list)
    BY <1>0 DEF ListsOK, ListOK
  <2>2. {project.files, validated.project.files} \subseteq chosen \cup {NoRoot} BY <1>0 DEF PaneOK, ShownOK, OpenedOK
  <2> QED BY <2>1, <2>2 DEF ApprovedWereChosen
<1> QED BY <1>1, <1>2, <1>3 DEF WorkspaceSafe

\* What a window shows under the name of a project was read from it and the project was
\* picked in a dialog, and once a load is over the pane shows a project that could be read.
THEOREM WorkspaceIsSafe == ProjectSpec => []WorkspaceSafe
<1>1. ProjectInit => WorkspaceInv BY WorkspaceStart
<1>2. WorkspaceInv /\ [ProjectNext]_projectVars => WorkspaceInv'
  <2> SUFFICES ASSUME WorkspaceInv, [ProjectNext]_projectVars PROVE WorkspaceInv'
    OBVIOUS
  <2>1. CASE ProjectNext
    <3>1. ASSUME NEW root \in Roots, Choose(root) \/ MoveDirectory(root) PROVE WorkspaceInv'
      BY <3>1, ChooseSafe, MoveSafe
    <3>2. ASSUME NEW sv \in saves, Saved(sv) \/ SaveFails(sv) PROVE WorkspaceInv' BY <3>2, SavedSafe, SaveFailsSafe
    <3>3. ASSUME NEW ld \in loads, NEW ok \in BOOLEAN, FilesAnswered(ld, ok) PROVE WorkspaceInv'
      BY <3>3, FilesAnsweredSafe
    <3>4. ASSUME NEW ld \in loads, NEW status \in {"ready", "error"}, DiffAnswered(ld, status) PROVE WorkspaceInv'
      BY <3>4, DiffAnsweredSafe
    <3>5. ASSUME NEW ld \in loads, NEW status \in {"ready", "error", "failed"}, Committed(ld, status) PROVE WorkspaceInv'
      BY <3>5, CommittedSafe
    <3>6. ASSUME NEW rd \in fileReads, NEW ok \in BOOLEAN, FileRead(rd, ok) PROVE WorkspaceInv' BY <3>6, FileReadSafe
    <3>7. ASSUME NEW yes \in BOOLEAN, handleFileSelect(yes) \/ AppRestarts(yes) PROVE WorkspaceInv'
      BY <3>7, SelectSafe, RestartsSafe
    <3>8. ASSUME refreshProject \/ RunBegins \/ WindowReopens PROVE WorkspaceInv'
      BY <3>8, RefreshSafe, RunBeginsSafe, ReopensSafe
    <3> QED BY <2>1, <3>1, <3>2, <3>3, <3>4, <3>5, <3>6, <3>7, <3>8 DEF ProjectNext
  <2>2. CASE UNCHANGED projectVars
    BY <2>2 DEF projectVars, WorkspaceInv, WorkspaceShape, ListsOK, OpenedOK, PaneOK, ShownOK, Loads, CurrentOK
  <2> QED BY <2>1, <2>2
<1>3. WorkspaceInv => WorkspaceSafe BY WorkspaceImplies
<1> QED BY <1>1, <1>2, <1>3, PTL DEF ProjectSpec

-----------------------------------------------------------------------------
(* What a window does with its agent                                       *)

Stages == {"idle", "claim", "before", "connect", "agent", "after", "chat", "report", "fail", "refresh", "done"}
RunRow == [stage : Stages, mode : {"none", "code", "chat"}, wants : {"look", "change"}, session : Nat,
           cancelled : {"no", "early", "late"}, gitRead : BOOLEAN]
ToolRow == [kind : {"none", "edit", "look"},
            status : {"none", "pending", "asked", "granted", "denied", "completed", "failed"}]
AskRow == [run : Prompts, tool : Tools, seen : BOOLEAN]

RunShape ==
    /\ session \in Nat /\ begun \in Nat /\ session \in {0, begun}
    /\ runs \in [Prompts -> RunRow] /\ active \in Prompts \cup {0}
    /\ link \in [Prompts -> {"none", "open", "closed"}]
    /\ tool \in [Prompts -> [Tools -> ToolRow]]
    /\ asks \subseteq AskRow
    /\ shell \in [Prompts -> {"none", "complete", "ended"}]
    /\ taskRecord \in [Prompts -> {"open", "complete", "ended"}]
    /\ messages \subseteq Prompts \X {"prompt", "reply", "failure", "cancelled"}
    /\ cancels \subseteq Prompts

\* What is remembered of a run, of its session, of its task and of what it said.
RunOK(r) ==
    LET run == runs[r] IN
    /\ IF run.stage = "idle" THEN run.session = 0 ELSE run.session # 0 /\ run.session <= begun
    /\ run.stage \in {"report", "fail", "refresh"} => run.cancelled # "early"
    /\ taskRecord[r] = "complete" => run.stage \in {"fail", "refresh", "done"} /\ run.cancelled # "early"
    /\ shell[r] # "none" => run.stage \in {"refresh", "done"} /\ (shell[r] = "complete" => run.cancelled # "early")
    /\ link[r] = "open" => Going(r) /\ run.stage \in {"connect", "agent"}
    /\ r \in cancels => run.stage # "idle"
    /\ Underway(r) /\ Going(r) => active = r
    /\ active = r => Underway(r)

\* The report of a run, and its tools.
ToolsOK(r) ==
    /\ \A t \in Tools :
          /\ tool[r][t].kind = "none" <=> tool[r][t].status = "none"
          /\ tool[r][t].kind = "edit" /\ tool[r][t].status \in {"granted", "completed"} => <<r, t>> \in consents
    /\ runs[r].stage = "report" =>
          /\ \E t \in Tools : tool[r][t].status \notin {"none", "failed"}
          /\ runs[r].wants = "change" => \/ Touched(r) \/ ~runs[r].gitRead
                                        \/ \E t \in Tools : tool[r][t].kind = "edit" /\ tool[r][t].status # "failed"

\* What a run has said.
SayingsOK(r) ==
    /\ \A what \in {"prompt", "reply", "failure", "cancelled"} :
          Said(r, what) => runs[r].stage # "idle" /\ runs[r].session = session
    /\ Said(r, "reply") \/ Said(r, "failure") => Said(r, "prompt")
    /\ Said(r, "failure") => ~Said(r, "reply") /\ runs[r].stage \in {"fail", "done"}
    /\ runs[r].stage \in {"before", "connect", "agent", "after", "chat"} /\ Going(r) => Said(r, "prompt")

\* One question of a run at a time, and an answer goes to the one that is live.
AsksOK ==
    /\ \A a \in asks : /\ runs[a.run].stage \in {"connect", "agent", "fail"}
                       /\ tool[a.run][a.tool].kind = "edit"
                       /\ a.seen /\ Going(a.run) /\ link[a.run] = "open" => resolver = Asking(a)
    /\ \A a, b \in asks : a.run = b.run => a = b
    /\ dialog = resolver

RunInv == RunShape /\ AsksOK /\ \A r \in Prompts : RunOK(r) /\ ToolsOK(r) /\ SayingsOK(r)

\* What a step of a run makes of its record.
LEMMA StageFacts ==
  ASSUME RunShape, NEW r \in Prompts, NEW s \in Stages, Reaches(r, s)
  PROVE  /\ runs' \in [Prompts -> RunRow] /\ \A q \in Prompts \ {r} : runs'[q] = runs[q]
         /\ runs'[r].stage = s /\ runs'[r].mode = runs[r].mode /\ runs'[r].wants = runs[r].wants
         /\ runs'[r].session = runs[r].session /\ runs'[r].cancelled = runs[r].cancelled
         /\ runs'[r].gitRead = runs[r].gitRead
<1>1. PICK row : row = [runs[r] EXCEPT !.stage = s] OBVIOUS
<1>2. runs[r] \in RunRow BY DEF RunShape
<1>3. /\ row \in RunRow /\ row.stage = s /\ row.mode = runs[r].mode /\ row.wants = runs[r].wants
      /\ row.session = runs[r].session /\ row.cancelled = runs[r].cancelled /\ row.gitRead = runs[r].gitRead
  BY <1>1, <1>2 DEF RunRow
<1>4. runs' = [runs EXCEPT ![r] = row] BY <1>1 DEF Reaches
<1> QED BY <1>3, <1>4 DEF RunShape

LEMMA StopFacts ==
  ASSUME RunShape, NEW r \in Prompts, StopRun(r)
  PROVE  /\ runs' \in [Prompts -> RunRow] /\ \A q \in Prompts \ {r} : runs'[q] = runs[q]
         /\ runs'[r].stage = runs[r].stage /\ runs'[r].mode = runs[r].mode /\ runs'[r].wants = runs[r].wants
         /\ runs'[r].session = runs[r].session /\ runs'[r].gitRead = runs[r].gitRead
         /\ runs'[r].cancelled # "no"
         /\ runs[r].stage \in {"report", "fail", "refresh"} /\ runs[r].cancelled # "early" => runs'[r].cancelled # "early"
         /\ link' \in [Prompts -> {"none", "open", "closed"}] /\ link'[r] # "open"
         /\ \A q \in Prompts \ {r} : link'[q] = link[q]
<1>1. PICK row : row = [runs[r] EXCEPT !.cancelled = IF runs[r].cancelled # "no" THEN runs[r].cancelled
                                               ELSE IF runs[r].stage \in {"report", "fail", "refresh"} THEN "late" ELSE "early"]
  OBVIOUS
<1>2. runs[r] \in RunRow BY DEF RunShape
<1>3. /\ row \in RunRow /\ row.stage = runs[r].stage /\ row.mode = runs[r].mode /\ row.wants = runs[r].wants
      /\ row.session = runs[r].session /\ row.gitRead = runs[r].gitRead
      /\ row.cancelled # "no"
      /\ runs[r].stage \in {"report", "fail", "refresh"} /\ runs[r].cancelled # "early" => row.cancelled # "early"
  BY <1>1, <1>2 DEF RunRow
<1>4. runs' = [runs EXCEPT ![r] = row] BY <1>1 DEF StopRun
<1>5. link' = [link EXCEPT ![r] = IF link[r] = "open" THEN "closed" ELSE link[r]] BY DEF StopRun
<1> QED BY <1>3, <1>4, <1>5 DEF RunShape

LEMMA EndFacts ==
  ASSUME RunShape, NEW r \in Prompts, End(r)
  PROVE  /\ runs' \in [Prompts -> RunRow] /\ \A q \in Prompts \ {r} : runs'[q] = runs[q]
         /\ runs'[r].stage = "done" /\ runs'[r].session = runs[r].session /\ runs'[r].cancelled = runs[r].cancelled
         /\ runs'[r].wants = "look"
         /\ link' \in [Prompts -> {"none", "open", "closed"}] /\ link'[r] = "none"
         /\ \A q \in Prompts \ {r} : link'[q] = link[q]
         /\ tool' \in [Prompts -> [Tools -> ToolRow]] /\ \A q \in Prompts \ {r} : tool'[q] = tool[q]
         /\ \A t \in Tools : tool'[r][t] = NoTool
         /\ active' = Vacated(r) /\ asks' = {a \in asks : a.run # r} /\ consents' = {c \in consents : c[1] # r}
<1>1. PICK row : row = [Unsent EXCEPT !.stage = "done", !.mode = runs[r].mode,
                                 !.session = runs[r].session, !.cancelled = runs[r].cancelled]
  OBVIOUS
<1>2. runs[r] \in RunRow BY DEF RunShape
<1>3. row = [stage |-> "done", mode |-> runs[r].mode, wants |-> "look", session |-> runs[r].session,
             cancelled |-> runs[r].cancelled, gitRead |-> TRUE]
  BY <1>1 DEF Unsent
<1>4. row \in RunRow /\ row.stage = "done" /\ row.session = runs[r].session /\ row.cancelled = runs[r].cancelled
      /\ row.wants = "look"
  BY <1>2, <1>3 DEF RunRow, Stages
<1>5. runs' = [runs EXCEPT ![r] = row] BY <1>1 DEF End
<1>6. /\ runs' \in [Prompts -> RunRow] /\ \A q \in Prompts \ {r} : runs'[q] = runs[q]
      /\ runs'[r] = row
  BY <1>4, <1>5 DEF RunShape
<1>7. /\ link' \in [Prompts -> {"none", "open", "closed"}] /\ link'[r] = "none"
      /\ \A q \in Prompts \ {r} : link'[q] = link[q]
  BY DEF End, RunShape
<1>8. PICK none : none = [t \in Tools |-> NoTool] OBVIOUS
<1>9. none \in [Tools -> ToolRow] /\ \A t \in Tools : none[t] = NoTool BY <1>8 DEF NoTool, ToolRow
<1>10. tool' = [tool EXCEPT ![r] = none] BY <1>8 DEF End
<1>11. /\ tool' \in [Prompts -> [Tools -> ToolRow]] /\ \A q \in Prompts \ {r} : tool'[q] = tool[q]
       /\ tool'[r] = none
  BY <1>9, <1>10 DEF RunShape
<1> QED BY <1>4, <1>6, <1>7, <1>9, <1>11 DEF End

\* The tool whose question is answered may go on or not, and no other hears of it.
LEMMA HearsFacts ==
  ASSUME RunShape, NEW a, NEW yes \in BOOLEAN, AgentHears(a, yes)
  PROVE  /\ asks' = {b \in asks : Asking(b) # a}
         /\ tool' \in [Prompts -> [Tools -> ToolRow]]
         /\ \A q \in Prompts, t \in Tools :
               \/ tool'[q][t] = tool[q][t]
               \/ /\ q = a.run /\ t = a.tool /\ link[q] = "open" /\ \E b \in asks : Asking(b) = a
                  /\ tool'[q][t].kind = tool[q][t].kind
                  /\ tool'[q][t].status = IF yes THEN "granted" ELSE "denied"
<1>1. asks' = {b \in asks : Asking(b) # a} BY DEF AgentHears
<1>2. CASE asks' = asks \/ link[a.run] # "open"
  <2>1. tool' = tool BY <1>2 DEF AgentHears
  <2> QED BY <1>1, <2>1 DEF RunShape
<1>3. CASE asks' # asks /\ link[a.run] = "open"
  <2>1. PICK b \in asks : Asking(b) = a BY <1>1, <1>3
  <2>2. a.run \in Prompts /\ a.tool \in Tools BY <2>1 DEF RunShape, AskRow, Asking
  <2>3. tool[a.run] \in [Tools -> ToolRow] /\ tool[a.run][a.tool] \in ToolRow BY <2>2 DEF RunShape
  <2>4. PICK row : row = [tool[a.run][a.tool] EXCEPT !.status = IF yes THEN "granted" ELSE "denied"] OBVIOUS
  <2>5. row \in ToolRow /\ row.kind = tool[a.run][a.tool].kind /\ row.status = IF yes THEN "granted" ELSE "denied"
    BY <2>3, <2>4 DEF ToolRow
  <2>6. PICK rows : rows = [tool[a.run] EXCEPT ![a.tool] = row] OBVIOUS
  <2>7. /\ rows \in [Tools -> ToolRow] /\ rows[a.tool] = row /\ \A t \in Tools \ {a.tool} : rows[t] = tool[a.run][t]
    BY <2>2, <2>3, <2>5, <2>6
  <2>8. tool' = [tool EXCEPT ![a.run] = rows] BY <1>3, <2>4, <2>6 DEF AgentHears
  <2>9. tool' \in [Prompts -> [Tools -> ToolRow]] /\ tool'[a.run] = rows /\ \A q \in Prompts \ {a.run} : tool'[q] = tool[q]
    BY <2>2, <2>7, <2>8 DEF RunShape
  <2> QED BY <1>1, <1>3, <2>1, <2>2, <2>5, <2>7, <2>9
<1> QED BY <1>2, <1>3

Sayings == {"prompt", "reply", "failure", "cancelled"}

\* A run that a step does not concern.
LEMMA RunKept ==
  ASSUME NEW q \in Prompts, RunOK(q), ToolsOK(q), SayingsOK(q),
         session' = session, begun' = begun, runs'[q] = runs[q], link'[q] = "open" => link[q] = "open",
         tool'[q] = tool[q], shell'[q] \in {"none", shell[q]}, taskRecord'[q] = "complete" => taskRecord[q] = "complete",
         q \in cancels' => q \in cancels, active' = q <=> active = q,
         \A what \in Sayings : Said(q, what)' <=> Said(q, what),
         \A t \in Tools : <<q, t>> \in consents => <<q, t>> \in consents'
  PROVE  RunOK(q)' /\ ToolsOK(q)' /\ SayingsOK(q)'
<1>1. RunOK(q)' BY DEF RunOK, Underway, Going
<1>2. ToolsOK(q)' BY DEF ToolsOK, Touched
<1>3. SayingsOK(q)' BY DEF SayingsOK, Going, Sayings
<1> QED BY <1>1, <1>2, <1>3

\* Questions of runs that a step does not concern.
LEMMA AsksKept ==
  ASSUME AsksOK, session' = session, resolver' = resolver, dialog' = dialog, asks' \subseteq asks,
         \A a \in asks' : /\ runs'[a.run].stage \in {"connect", "agent", "fail"}
                          /\ runs'[a.run].session = runs[a.run].session
                          /\ runs'[a.run].cancelled = runs[a.run].cancelled
                          /\ tool'[a.run][a.tool].kind = tool[a.run][a.tool].kind
                          /\ link'[a.run] = "open" => link[a.run] = "open"
  PROVE  AsksOK'
BY DEF AsksOK, Going, Asking

\* A run that goes on to another stage than its report, and what it says and records then.
LEMMA ReachSafe ==
  ASSUME RunInv, NEW r \in Prompts, Underway(r), NEW s \in Stages \ {"idle", "done", "report"}, Reaches(r, s),
         UNCHANGED sideVars, UNCHANGED ownVars, runs[r].stage # "refresh",
         s = "refresh" => runs[r].cancelled # "early",
         shell' = shell \/ (s = "refresh" /\ shell' = [shell EXCEPT ![r] = "complete"]),
         link[r] = "open" => s \in {"connect", "agent"}, s = "fail" => runs[r].cancelled # "early",
         \A a \in asks : a.run = r => s \in {"connect", "agent", "fail"},
         messages' \subseteq Prompts \X Sayings, SayingsOK(r)',
         \A q \in Prompts \ {r} : \A what \in Sayings : Said(q, what)' <=> Said(q, what),
         taskRecord' \in [Prompts -> {"open", "complete", "ended"}],
         \A q \in Prompts \ {r} : taskRecord'[q] = taskRecord[q],
         taskRecord'[r] = "complete" => s \in {"fail", "refresh"}
  PROVE  RunInv'
<1>0. RunShape /\ AsksOK /\ RunOK(r) /\ ToolsOK(r) BY DEF RunInv
<1>1. /\ session' = session /\ begun' = begun /\ resolver' = resolver /\ dialog' = dialog /\ cancels' = cancels
      /\ active' = active /\ link' = link /\ tool' = tool /\ asks' = asks /\ consents' = consents
  BY DEF sideVars, ownVars
<1>2. /\ runs' \in [Prompts -> RunRow] /\ \A q \in Prompts \ {r} : runs'[q] = runs[q]
      /\ runs'[r].stage = s /\ runs'[r].session = runs[r].session /\ runs'[r].cancelled = runs[r].cancelled
  BY <1>0, StageFacts
<1>8. /\ shell' \in [Prompts -> {"none", "complete", "ended"}] /\ \A q \in Prompts \ {r} : shell'[q] = shell[q]
      /\ shell'[r] = "none" \/ (s = "refresh" /\ shell'[r] = "complete")
  <2>1. shell \in [Prompts -> {"none", "complete", "ended"}] /\ shell[r] = "none" BY <1>0 DEF RunShape, RunOK, Underway
  <2>2. CASE shell' = shell BY <2>1, <2>2
  <2>3. CASE shell' = [shell EXCEPT ![r] = "complete"] /\ s = "refresh" BY <2>1, <2>3
  <2> QED BY <2>2, <2>3
<1>3. RunShape' BY <1>0, <1>1, <1>2, <1>8 DEF RunShape, Sayings
<1>4. AsksOK' BY <1>0, <1>1, <1>2, AsksKept DEF AsksOK, RunShape, AskRow
<1>5. RunOK(r)' BY <1>0, <1>1, <1>2, <1>8 DEF RunOK, Underway, Going
<1>6. ToolsOK(r)' BY <1>0, <1>1, <1>2 DEF ToolsOK
<1>7. ASSUME NEW q \in Prompts \ {r} PROVE RunOK(q)' /\ ToolsOK(q)' /\ SayingsOK(q)'
  <2>1. RunOK(q) /\ ToolsOK(q) /\ SayingsOK(q) BY DEF RunInv
  <2>2. shell'[q] \in {"none", shell[q]} BY <1>8
  <2> QED BY <1>1, <1>2, <2>1, <2>2, RunKept
<1> QED BY <1>3, <1>4, <1>5, <1>6, <1>7 DEF RunInv

\* A run that ends.
LEMMA EndSafe ==
  ASSUME RunInv, NEW r \in Prompts, Underway(r), End(r), UNCHANGED sideVars,
         messages' \subseteq Prompts \X Sayings, SayingsOK(r)',
         \A q \in Prompts \ {r} : \A what \in Sayings : Said(q, what)' <=> Said(q, what),
         shell' \in [Prompts -> {"none", "complete", "ended"}],
         \A q \in Prompts \ {r} : shell'[q] = shell[q],
         shell'[r] = "complete" => runs[r].cancelled # "early",
         taskRecord' \in [Prompts -> {"open", "complete", "ended"}],
         \A q \in Prompts \ {r} : taskRecord'[q] = taskRecord[q],
         taskRecord'[r] = "complete" => runs[r].cancelled # "early"
  PROVE  RunInv'
<1>0. RunShape /\ AsksOK /\ RunOK(r) /\ ToolsOK(r) BY DEF RunInv
<1>1. /\ session' = session /\ begun' = begun /\ resolver' = resolver /\ dialog' = dialog /\ cancels' = cancels
  BY DEF sideVars
<1>2. /\ runs' \in [Prompts -> RunRow] /\ \A q \in Prompts \ {r} : runs'[q] = runs[q]
      /\ runs'[r].stage = "done" /\ runs'[r].session = runs[r].session /\ runs'[r].cancelled = runs[r].cancelled
      /\ runs'[r].wants = "look"
      /\ link' \in [Prompts -> {"none", "open", "closed"}] /\ link'[r] = "none"
      /\ \A q \in Prompts \ {r} : link'[q] = link[q]
      /\ tool' \in [Prompts -> [Tools -> ToolRow]] /\ \A q \in Prompts \ {r} : tool'[q] = tool[q]
      /\ \A t \in Tools : tool'[r][t] = NoTool
      /\ active' = Vacated(r) /\ asks' = {a \in asks : a.run # r} /\ consents' = {c \in consents : c[1] # r}
  BY <1>0, EndFacts
<1>3. /\ active' \in Prompts \cup {0} /\ active' # r /\ \A q \in Prompts \ {r} : active' = q <=> active = q
  BY <1>0, <1>2, PromptsAssumption DEF RunShape, Vacated
<1>4. RunShape' BY <1>0, <1>1, <1>2, <1>3 DEF RunShape, Sayings
<1>5. AsksOK'
  <2>1. \A a \in asks' : a \in asks /\ a.run \in Prompts \ {r} BY <1>0, <1>2 DEF RunShape, AskRow
  <2> QED BY <1>0, <1>1, <1>2, <2>1, AsksKept DEF AsksOK
<1>6. RunOK(r)' BY <1>0, <1>1, <1>2, <1>3 DEF RunOK, Underway, Going
<1>7. ToolsOK(r)' BY <1>2 DEF ToolsOK, NoTool
<1>8. ASSUME NEW q \in Prompts \ {r} PROVE RunOK(q)' /\ ToolsOK(q)' /\ SayingsOK(q)'
  <2>1. RunOK(q) /\ ToolsOK(q) /\ SayingsOK(q) BY DEF RunInv
  <2>2. shell'[q] \in {"none", shell[q]} OBVIOUS
  <2>3. \A t \in Tools : <<q, t>> \in consents => <<q, t>> \in consents' BY <1>2
  <2> QED BY <1>1, <1>2, <1>3, <2>1, <2>2, <2>3, RunKept
<1> QED BY <1>4, <1>5, <1>6, <1>7, <1>8 DEF RunInv

\* What is said by one is said by no other.
LEMMA SaysFacts ==
  ASSUME RunShape, NEW r \in Prompts, NEW w \in Sayings, Says(r, w)
  PROVE  /\ messages' \subseteq Prompts \X Sayings
         /\ \A q \in Prompts \ {r} : \A what \in Sayings : Said(q, what)' <=> Said(q, what)
         /\ \A what \in Sayings : Said(r, what)' <=> Said(r, what) \/ what = w
BY DEF RunShape, Says, Said, Sayings

LEMMA FailsSafe ==
  ASSUME RunInv, NEW r \in Prompts, Underway(r), Fails(r), UNCHANGED sideVars,
         link[r] # "open", runs[r].stage # "refresh",
         taskRecord' \in [Prompts -> {"open", "complete", "ended"}],
         \A q \in Prompts \ {r} : taskRecord'[q] = taskRecord[q],
         taskRecord'[r] = "complete" => runs[r].cancelled # "early"
  PROVE  RunInv'
<1>0. RunShape /\ AsksOK /\ RunOK(r) /\ ToolsOK(r) /\ SayingsOK(r) /\ session' = session BY DEF RunInv, sideVars
<1>1. CASE ~Going(r)
  <2>1. End(r) /\ messages' = messages /\ shell' = shell BY <1>1 DEF Fails
  <2>2. runs'[r].stage = "done" /\ runs'[r].session = runs[r].session BY <1>0, <2>1, EndFacts
  <2>3. SayingsOK(r)' BY <1>0, <2>1, <2>2 DEF SayingsOK, Said
  <2>4. shell[r] = "none" BY <1>0 DEF RunOK, Underway, RunShape
  <2>5. messages' \subseteq Prompts \X Sayings /\ shell' \in [Prompts -> {"none", "complete", "ended"}]
    BY <1>0, <2>1 DEF RunShape, Sayings
  <2> QED BY <2>1, <2>3, <2>4, <2>5, EndSafe DEF Said
<1>2. CASE Going(r)
  <2>0. runs[r].cancelled = "no" /\ session = runs[r].session BY <1>2 DEF Going
  <2>1. \/ Said(r, "prompt") /\ ~Said(r, "reply") /\ Says(r, "failure")
        \/ messages' = messages
    BY <1>2 DEF Fails
  <2>2. /\ messages' \subseteq Prompts \X Sayings
        /\ \A q \in Prompts \ {r} : \A what \in Sayings : Said(q, what)' <=> Said(q, what)
    <3>1. CASE Says(r, "failure") BY <1>0, <3>1, SaysFacts DEF Sayings
    <3>2. CASE messages' = messages BY <1>0, <3>2 DEF RunShape, Sayings, Said
    <3> QED BY <2>1, <3>1, <3>2
  <2>3. ASSUME runs'[r].stage \in {"fail", "done"}, runs'[r].session = runs[r].session PROVE SayingsOK(r)'
    <3>1. CASE Said(r, "prompt") /\ ~Said(r, "reply") /\ Says(r, "failure")
      <4>1. \A what \in Sayings : Said(r, what)' <=> Said(r, what) \/ what = "failure"
        BY <1>0, <3>1, SaysFacts DEF Sayings
      <4> QED BY <1>0, <2>0, <2>3, <3>1, <4>1 DEF SayingsOK, Sayings
    <3>2. CASE messages' = messages BY <1>0, <2>0, <2>3, <3>2 DEF SayingsOK, Said
    <3> QED BY <2>1, <3>1, <3>2
  <2>4. CASE runs[r].mode = "code"
    <3>1. Reaches(r, "fail") /\ UNCHANGED ownVars /\ shell' = shell BY <1>2, <2>4 DEF Fails
    <3>2. "fail" \in Stages \ {"idle", "done", "report"} BY DEF Stages
    <3>3. runs'[r].stage = "fail" /\ runs'[r].session = runs[r].session BY <1>0, <3>1, <3>2, StageFacts
    <3> QED BY <2>0, <2>2, <2>3, <3>1, <3>2, <3>3, ReachSafe
  <2>5. CASE runs[r].mode # "code"
    <3>1. End(r) /\ shell' = [shell EXCEPT ![r] = "ended"] BY <1>2, <2>5 DEF Fails
    <3>2. runs'[r].stage = "done" /\ runs'[r].session = runs[r].session BY <1>0, <3>1, EndFacts
    <3>3. /\ shell' \in [Prompts -> {"none", "complete", "ended"}] /\ shell'[r] = "ended"
          /\ \A q \in Prompts \ {r} : shell'[q] = shell[q]
      BY <1>0, <3>1 DEF RunShape
    <3>4. ~(shell'[r] = "complete") BY <3>3
    <3> QED BY <2>2, <2>3, <3>1, <3>2, <3>3, <3>4, EndSafe
  <2> QED BY <2>4, <2>5
<1> QED BY <1>1, <1>2

LEMMA RunStart == RunInit => RunInv
<1> SUFFICES ASSUME RunInit PROVE RunInv
  OBVIOUS
<1>1. Unsent \in RunRow /\ NoTool \in ToolRow BY DEF Unsent, NoTool, RunRow, ToolRow, Stages
<1>2. PICK none : none = [t \in Tools |-> NoTool] OBVIOUS
<1>3. none \in [Tools -> ToolRow] BY <1>1, <1>2
<1>4. RunShape BY <1>1, <1>2, <1>3 DEF RunInit, RunShape
<1>5. AsksOK BY DEF RunInit, AsksOK
<1>6. ASSUME NEW r \in Prompts PROVE RunOK(r) /\ ToolsOK(r) /\ SayingsOK(r)
  <2>1. runs[r] = Unsent /\ Unsent.stage = "idle" /\ Unsent.session = 0 /\ r # 0
    BY <1>6, PromptsAssumption DEF RunInit, Unsent
  <2>2. RunOK(r) BY <2>1 DEF RunInit, RunOK, Underway
  <2>3. ToolsOK(r) BY <2>1 DEF RunInit, ToolsOK, NoTool
  <2>4. SayingsOK(r) BY <2>1 DEF RunInit, SayingsOK, Said
  <2> QED BY <2>2, <2>3, <2>4
<1> QED BY <1>4, <1>5, <1>6 DEF RunInv

LEMMA SendSafe ==
  ASSUME RunInv, NEW r \in Prompts, NEW mode \in {"code", "chat"}, SendPrompt(r, mode) PROVE RunInv'
<1>0. RunShape /\ AsksOK /\ RunOK(r) /\ ToolsOK(r) /\ SayingsOK(r) BY DEF RunInv
<1>1. PICK row : row = [Unsent EXCEPT !.stage = "claim", !.mode = mode, !.session = session] OBVIOUS
<1>2. row = [stage |-> "claim", mode |-> mode, wants |-> "look", session |-> session, cancelled |-> "no", gitRead |-> TRUE]
  BY <1>1 DEF Unsent
<1>3. row \in RunRow /\ row.stage = "claim" /\ row.session = session /\ row.cancelled = "no"
  BY <1>0, <1>2 DEF RunRow, Stages, RunShape
<1>4. runs' = [runs EXCEPT ![r] = row] BY <1>1 DEF SendPrompt
<1>5. /\ session # 0 /\ active = 0 /\ active' = r /\ runs[r].stage = "idle"
      /\ UNCHANGED <<sideVars, link, tool, asks, consents, shell, taskRecord, messages>>
  BY DEF SendPrompt
<1>6. /\ session' = session /\ begun' = begun /\ resolver' = resolver /\ dialog' = dialog /\ cancels' = cancels
  BY <1>5 DEF sideVars
<1>7. runs' \in [Prompts -> RunRow] /\ runs'[r] = row /\ \A q \in Prompts \ {r} : runs'[q] = runs[q]
  BY <1>0, <1>3, <1>4 DEF RunShape
<1>8. RunShape' BY <1>0, <1>5, <1>6, <1>7 DEF RunShape
<1>9. AsksOK'
  <2>1. \A a \in asks : a.run # r /\ a.run \in Prompts BY <1>0, <1>5 DEF AsksOK, RunShape, AskRow
  <2> QED BY <1>0, <1>5, <1>6, <1>7, <2>1, AsksKept DEF AsksOK
<1>10. RunOK(r)' BY <1>0, <1>3, <1>5, <1>6, <1>7 DEF RunOK, RunShape, Underway, Going
<1>11. ToolsOK(r)' BY <1>0, <1>3, <1>5, <1>7 DEF ToolsOK
<1>12. SayingsOK(r)' BY <1>0, <1>3, <1>5, <1>6, <1>7 DEF SayingsOK, Said
<1>13. ASSUME NEW q \in Prompts \ {r} PROVE RunOK(q)' /\ ToolsOK(q)' /\ SayingsOK(q)'
  <2>1. RunOK(q) /\ ToolsOK(q) /\ SayingsOK(q) BY DEF RunInv
  <2>2. q # 0 BY PromptsAssumption
  <2> QED BY <1>5, <1>6, <1>7, <2>1, <2>2, RunKept DEF Said
<1> QED BY <1>8, <1>9, <1>10, <1>11, <1>12, <1>13 DEF RunInv

LEMMA ClaimedSafe ==
  ASSUME RunInv, NEW r \in Prompts, NEW ok \in BOOLEAN, Claimed(r, ok) PROVE RunInv'
<1>0. /\ RunShape /\ AsksOK /\ RunOK(r) /\ SayingsOK(r) /\ Underway(r) /\ link[r] # "open" /\ UNCHANGED sideVars
      /\ session' = session /\ taskRecord' = taskRecord /\ taskRecord[r] # "complete" /\ runs[r].stage = "claim"
  BY DEF RunInv, RunOK, Claimed, Underway, sideVars
<1>1. taskRecord' \in [Prompts -> {"open", "complete", "ended"}] BY <1>0 DEF RunShape
<1>2. CASE ok /\ Going(r)
  <2>1. PICK s : s = IF runs[r].mode = "code" THEN "before" ELSE "chat" OBVIOUS
  <2>2. s \in Stages \ {"idle", "done", "report"} /\ s # "fail" /\ s # "refresh" BY <2>1 DEF Stages
  <2>3. Says(r, "prompt") /\ Reaches(r, s) /\ UNCHANGED <<ownVars, shell>> BY <1>2, <2>1 DEF Claimed
  <2>4. runs'[r].stage = s /\ runs'[r].session = runs[r].session BY <1>0, <2>2, <2>3, StageFacts
  <2>5. /\ messages' \subseteq Prompts \X Sayings
        /\ \A q \in Prompts \ {r} : \A what \in Sayings : Said(q, what)' <=> Said(q, what)
        /\ \A what \in Sayings : Said(r, what)' <=> Said(r, what) \/ what = "prompt"
    BY <1>0, <2>3, SaysFacts DEF Sayings
  <2>6. SayingsOK(r)' BY <1>0, <1>2, <2>2, <2>4, <2>5 DEF SayingsOK, Sayings, Going
  <2>7. \A a \in asks : a.run # r BY <1>0 DEF AsksOK
  <2> QED BY <1>0, <1>1, <2>2, <2>3, <2>5, <2>6, <2>7, ReachSafe
<1>3. CASE ~(ok /\ Going(r))
  <2>1. Fails(r) BY <1>3 DEF Claimed
  <2> QED BY <1>0, <1>1, <2>1, FailsSafe
<1> QED BY <1>2, <1>3

LEMMA PreparedSafe ==
  ASSUME RunInv, NEW r \in Prompts, NEW ok \in BOOLEAN, NEW git \in BOOLEAN, Prepared(r, ok, git) PROVE RunInv'
<1>0. /\ RunShape /\ AsksOK /\ RunOK(r) /\ ToolsOK(r) /\ SayingsOK(r) /\ Underway(r) /\ link[r] # "open" /\ UNCHANGED sideVars
      /\ session' = session /\ taskRecord' = taskRecord /\ taskRecord[r] # "complete" /\ runs[r].stage = "before"
      /\ begun' = begun /\ resolver' = resolver /\ dialog' = dialog /\ cancels' = cancels
  BY DEF RunInv, RunOK, Prepared, Underway, sideVars
<1>1. taskRecord' \in [Prompts -> {"open", "complete", "ended"}] BY <1>0 DEF RunShape
<1>2. CASE ok /\ Going(r)
  <2>1. PICK row : row = [runs[r] EXCEPT !.stage = "connect", !.gitRead = git] OBVIOUS
  <2>2. /\ row \in RunRow /\ row.stage = "connect" /\ row.session = runs[r].session /\ row.cancelled = runs[r].cancelled
    BY <1>0, <2>1, ZenonT(30) DEF RunShape, RunRow, Stages
  <2>3. runs' = [runs EXCEPT ![r] = row] BY <1>2, <2>1 DEF Prepared
  <2>4. /\ link' = [link EXCEPT ![r] = "open"]
        /\ UNCHANGED <<active, tool, asks, consents, messages, shell>>
    BY <1>2 DEF Prepared
  <2>5. runs' \in [Prompts -> RunRow] /\ runs'[r] = row /\ \A q \in Prompts \ {r} : runs'[q] = runs[q]
    BY <1>0, <2>2, <2>3 DEF RunShape
  <2>6. /\ link' \in [Prompts -> {"none", "open", "closed"}] /\ link'[r] = "open"
        /\ \A q \in Prompts \ {r} : link'[q] = link[q]
    BY <1>0, <2>4 DEF RunShape
  <2>7. RunShape' BY <1>0, <2>4, <2>5, <2>6 DEF RunShape
  <2>8. AsksOK'
    <3>1. \A a \in asks : a.run # r /\ a.run \in Prompts BY <1>0 DEF AsksOK, RunShape, AskRow
    <3> QED BY <1>0, <2>4, <2>5, <2>6, <3>1, AsksKept DEF AsksOK
  <2>9. RunOK(r)' BY <1>0, <1>2, <2>2, <2>4, <2>5, <2>6 DEF RunOK, Underway, Going
  <2>10. ToolsOK(r)' BY <1>0, <2>2, <2>4, <2>5 DEF ToolsOK
  <2>11. SayingsOK(r)' BY <1>0, <2>2, <2>4, <2>5 DEF SayingsOK, Said, Going
  <2>12. ASSUME NEW q \in Prompts \ {r} PROVE RunOK(q)' /\ ToolsOK(q)' /\ SayingsOK(q)'
    <3>1. RunOK(q) /\ ToolsOK(q) /\ SayingsOK(q) BY DEF RunInv
    <3> QED BY <1>0, <2>4, <2>5, <2>6, <3>1, RunKept DEF Said
  <2> QED BY <2>7, <2>8, <2>9, <2>10, <2>11, <2>12 DEF RunInv
<1>3. CASE ~(ok /\ Going(r))
  <2>1. Fails(r) BY <1>3 DEF Prepared
  <2> QED BY <1>0, <1>1, <2>1, FailsSafe
<1> QED BY <1>2, <1>3

LEMMA ConnectSafe ==
  ASSUME RunInv, NEW r \in Prompts, ConnectAgent(r) PROVE RunInv'
<1>0. /\ RunShape /\ RunOK(r) /\ SayingsOK(r) /\ Underway(r) /\ runs[r].stage = "connect" /\ taskRecord[r] # "complete"
      /\ Reaches(r, "agent") /\ UNCHANGED <<sideVars, ownVars, shell, taskRecord, messages>>
  BY DEF RunInv, RunOK, ConnectAgent, Underway
<1>1. "agent" \in Stages \ {"idle", "done", "report"} BY DEF Stages
<1>2. runs'[r].stage = "agent" /\ runs'[r].session = runs[r].session /\ runs'[r].cancelled = runs[r].cancelled
  BY <1>0, <1>1, StageFacts
<1>3. SayingsOK(r)' BY <1>0, <1>2 DEF SayingsOK, Said, Going, sideVars
<1>4. messages' \subseteq Prompts \X Sayings /\ taskRecord' \in [Prompts -> {"open", "complete", "ended"}]
  BY <1>0 DEF RunShape, Sayings
<1> QED BY <1>0, <1>1, <1>3, <1>4, ReachSafe DEF Said

LEMMA LostSafe ==
  ASSUME RunInv, NEW r \in Prompts, LinkLost(r) PROVE RunInv'
<1>0. /\ RunShape /\ Underway(r) /\ link[r] # "open" /\ UNCHANGED sideVars
      /\ taskRecord' = taskRecord /\ taskRecord[r] # "complete" /\ runs[r].stage # "refresh" /\ Fails(r)
  BY DEF RunInv, RunOK, LinkLost, Underway
<1>1. taskRecord' \in [Prompts -> {"open", "complete", "ended"}] BY <1>0 DEF RunShape
<1> QED BY <1>0, <1>1, FailsSafe

\* What changes nothing of a run but its socket, which may close.
LEMMA DiesSafe ==
  ASSUME RunInv, NEW r \in Prompts, AgentDies(r) PROVE RunInv'
<1>0. RunShape /\ AsksOK BY DEF RunInv
<1>1. /\ link' = [link EXCEPT ![r] = "closed"]
      /\ UNCHANGED <<sideVars, runs, active, tool, asks, consents, shell, taskRecord, messages>>
  BY DEF AgentDies
<1>2. session' = session /\ begun' = begun /\ resolver' = resolver /\ dialog' = dialog /\ cancels' = cancels
  BY <1>1 DEF sideVars
<1>3. link' \in [Prompts -> {"none", "open", "closed"}] /\ \A q \in Prompts : link'[q] = "open" => link[q] = "open"
  BY <1>0, <1>1 DEF RunShape
<1>4. RunShape' BY <1>0, <1>1, <1>2, <1>3 DEF RunShape
<1>5. AsksOK' BY <1>0, <1>1, <1>2, <1>3, AsksKept DEF AsksOK, RunShape, AskRow
<1>6. ASSUME NEW q \in Prompts PROVE RunOK(q)' /\ ToolsOK(q)' /\ SayingsOK(q)'
  <2>1. RunOK(q) /\ ToolsOK(q) /\ SayingsOK(q) BY DEF RunInv
  <2> QED BY <1>1, <1>2, <1>3, <2>1, RunKept DEF Said
<1> QED BY <1>4, <1>5, <1>6 DEF RunInv

LEMMA TurnEndsSafe ==
  ASSUME RunInv, NEW r \in Prompts, TurnEnds(r) PROVE RunInv'
<1>0. /\ RunShape /\ AsksOK /\ RunOK(r) /\ ToolsOK(r) /\ SayingsOK(r) /\ runs[r].stage = "agent" /\ taskRecord[r] # "complete"
      /\ Reaches(r, "after") /\ (\A a \in asks : a.run # r)
  BY DEF RunInv, RunOK, TurnEnds
<1>1. /\ link' = [link EXCEPT ![r] = "closed"]
      /\ UNCHANGED <<sideVars, active, tool, asks, consents, shell, taskRecord, messages>>
  BY DEF TurnEnds
<1>2. session' = session /\ begun' = begun /\ resolver' = resolver /\ dialog' = dialog /\ cancels' = cancels
  BY <1>1 DEF sideVars
<1>3. "after" \in Stages BY DEF Stages
<1>4. /\ runs' \in [Prompts -> RunRow] /\ \A q \in Prompts \ {r} : runs'[q] = runs[q]
      /\ runs'[r].stage = "after" /\ runs'[r].session = runs[r].session /\ runs'[r].cancelled = runs[r].cancelled
  BY <1>0, <1>3, StageFacts
<1>5. /\ link' \in [Prompts -> {"none", "open", "closed"}] /\ link'[r] = "closed"
      /\ \A q \in Prompts \ {r} : link'[q] = link[q]
  BY <1>0, <1>1 DEF RunShape
<1>6. RunShape' BY <1>0, <1>1, <1>2, <1>4, <1>5 DEF RunShape
<1>7. AsksOK'
  <2>1. \A a \in asks : a.run # r /\ a.run \in Prompts BY <1>0 DEF RunShape, AskRow
  <2> QED BY <1>0, <1>1, <1>2, <1>4, <1>5, <2>1, AsksKept DEF AsksOK
<1>8. RunOK(r)' BY <1>0, <1>1, <1>2, <1>4, <1>5 DEF RunOK, Underway, Going
<1>9. ToolsOK(r)' BY <1>0, <1>1, <1>4 DEF ToolsOK
<1>10. SayingsOK(r)' BY <1>0, <1>1, <1>2, <1>4 DEF SayingsOK, Said, Going
<1>11. ASSUME NEW q \in Prompts \ {r} PROVE RunOK(q)' /\ ToolsOK(q)' /\ SayingsOK(q)'
  <2>1. RunOK(q) /\ ToolsOK(q) /\ SayingsOK(q) BY DEF RunInv
  <2> QED BY <1>1, <1>2, <1>4, <1>5, <2>1, RunKept DEF Said
<1> QED BY <1>6, <1>7, <1>8, <1>9, <1>10, <1>11 DEF RunInv

\* A review that passes has seen work, and a change if there was to be one and it could tell.
LEMMA ReviewedSafe ==
  ASSUME RunInv, NEW r \in Prompts, NEW wants \in {"change", "look"}, NEW ok \in BOOLEAN, NEW git \in BOOLEAN,
         Reviewed(r, wants, ok, git)
  PROVE  RunInv'
<1>0. /\ RunShape /\ AsksOK /\ RunOK(r) /\ ToolsOK(r) /\ SayingsOK(r) /\ Underway(r) /\ link[r] # "open" /\ UNCHANGED sideVars
      /\ session' = session /\ taskRecord' = taskRecord /\ taskRecord[r] # "complete" /\ runs[r].stage = "after"
      /\ begun' = begun /\ resolver' = resolver /\ dialog' = dialog /\ cancels' = cancels
  BY DEF RunInv, RunOK, Reviewed, Underway, sideVars
<1>1. taskRecord' \in [Prompts -> {"open", "complete", "ended"}] BY <1>0 DEF RunShape
<1>2. PICK differs \in MayDiffer(r, git) :
          IF ok /\ Going(r) /\ Worked(r, wants, differs)
          THEN /\ Says(r, "reply")
               /\ runs' = [runs EXCEPT ![r].stage = "report", ![r].wants = wants, ![r].gitRead = @ /\ git]
               /\ UNCHANGED <<ownVars, shell>>
          ELSE Fails(r)
  BY DEF Reviewed
<1>3. CASE ok /\ Going(r) /\ Worked(r, wants, differs)
  <2>1. PICK both : both \in BOOLEAN /\ (both <=> runs[r].gitRead /\ git)
    <3>1. (runs[r].gitRead /\ git) \in BOOLEAN OBVIOUS
    <3> QED BY <3>1
  <2>2. PICK row : row = [runs[r] EXCEPT !.stage = "report", !.wants = wants, !.gitRead = runs[r].gitRead /\ git] OBVIOUS
  <2>3. runs[r] \in RunRow BY <1>0 DEF RunShape
  <2>4. /\ row \in RunRow /\ row.stage = "report" /\ row.session = runs[r].session /\ row.cancelled = runs[r].cancelled
        /\ row.wants = wants /\ (row.gitRead <=> runs[r].gitRead /\ git)
    BY <2>2, <2>3 DEF RunRow, Stages
  <2>5. runs' = [runs EXCEPT ![r] = row] BY <1>2, <1>3, <2>2
  <2>6. Says(r, "reply") /\ UNCHANGED <<ownVars, shell>> BY <1>2, <1>3
  <2>7. runs' \in [Prompts -> RunRow] /\ runs'[r] = row /\ \A q \in Prompts \ {r} : runs'[q] = runs[q]
    BY <1>0, <2>4, <2>5 DEF RunShape
  <2>8. active' = active /\ link' = link /\ tool' = tool /\ asks' = asks /\ consents' = consents /\ shell' = shell
    BY <2>6 DEF ownVars
  <2>9. /\ messages' \subseteq Prompts \X Sayings
        /\ \A q \in Prompts \ {r} : \A what \in Sayings : Said(q, what)' <=> Said(q, what)
        /\ \A what \in Sayings : Said(r, what)' <=> Said(r, what) \/ what = "reply"
    BY <1>0, <2>6, SaysFacts DEF Sayings
  <2>10. RunShape' BY <1>0, <2>7, <2>8, <2>9 DEF RunShape, Sayings
  <2>11. AsksOK'
    <3>1. \A a \in asks : a.run # r /\ a.run \in Prompts BY <1>0 DEF AsksOK, RunShape, AskRow
    <3> QED BY <1>0, <2>7, <2>8, <3>1, AsksKept DEF AsksOK
  <2>12. RunOK(r)' BY <1>0, <1>3, <2>4, <2>7, <2>8 DEF RunOK, Underway, Going
  <2>13. ToolsOK(r)'
    <3>1. tool[r] \in [Tools -> ToolRow] BY <1>0 DEF RunShape
    <3>2. \E t \in Tools : tool[r][t].status \notin {"none", "failed"}
      <4>1. CallsOf(r) # {} /\ (With(r, "failed") = {} \/ With(r, "completed") # {}) BY <1>3 DEF Worked
      <4>2. CASE With(r, "completed") # {} BY <4>2 DEF With
      <4>3. CASE With(r, "failed") = {}
        <5>1. PICK t \in Tools : tool[r][t].kind # "none" BY <4>1 DEF CallsOf
        <5>2. tool[r][t].status # "none" BY <1>0, <5>1 DEF ToolsOK
        <5>3. tool[r][t].status # "failed" BY <4>3 DEF With
        <5> QED BY <5>2, <5>3
      <4> QED BY <4>1, <4>2, <4>3
    <3>3. wants = "change" => \/ Touched(r) \/ ~(runs[r].gitRead /\ git)
                              \/ \E t \in Tools : tool[r][t].kind = "edit" /\ tool[r][t].status # "failed"
      <4>1. ASSUME wants = "change", runs[r].gitRead /\ git, differs PROVE Touched(r) BY <4>1 DEF MayDiffer
      <4>2. wants = "change" => differs \/ \E t \in CallsOf(r) \ With(r, "failed") : tool[r][t].kind = "edit"
        BY <1>3 DEF Worked
      <4>3. ASSUME NEW t \in CallsOf(r) \ With(r, "failed") PROVE t \in Tools /\ tool[r][t].status # "failed"
        BY <4>3 DEF CallsOf, With
      <4> QED BY <4>1, <4>2, <4>3
    <3>4. Touched(r)' <=> Touched(r) BY <2>8 DEF Touched
    <3> QED BY <1>0, <2>4, <2>7, <2>8, <3>2, <3>3, <3>4 DEF ToolsOK
  <2>14. SayingsOK(r)' BY <1>0, <1>3, <2>4, <2>7, <2>9 DEF SayingsOK, Sayings, Going
  <2>15. ASSUME NEW q \in Prompts \ {r} PROVE RunOK(q)' /\ ToolsOK(q)' /\ SayingsOK(q)'
    <3>1. RunOK(q) /\ ToolsOK(q) /\ SayingsOK(q) BY DEF RunInv
    <3> QED BY <1>0, <2>7, <2>8, <2>9, <3>1, RunKept
  <2> QED BY <2>10, <2>11, <2>12, <2>13, <2>14, <2>15 DEF RunInv
<1>4. CASE ~(ok /\ Going(r) /\ Worked(r, wants, differs))
  <2>1. Fails(r) BY <1>2, <1>4
  <2> QED BY <1>0, <1>1, <2>1, FailsSafe
<1> QED BY <1>3, <1>4

LEMMA ChattedSafe ==
  ASSUME RunInv, NEW r \in Prompts, NEW ok \in BOOLEAN, Chatted(r, ok) PROVE RunInv'
<1>0. /\ RunShape /\ AsksOK /\ RunOK(r) /\ SayingsOK(r) /\ Underway(r) /\ link[r] # "open" /\ UNCHANGED sideVars
      /\ session' = session /\ taskRecord' = taskRecord /\ taskRecord[r] # "complete" /\ runs[r].stage = "chat"
  BY DEF RunInv, RunOK, Chatted, Underway, sideVars
<1>1. taskRecord' \in [Prompts -> {"open", "complete", "ended"}] BY <1>0 DEF RunShape
<1>2. CASE ok /\ Going(r)
  <2>1. Says(r, "reply") /\ Reaches(r, "refresh") /\ shell' = [shell EXCEPT ![r] = "complete"] /\ UNCHANGED ownVars
    BY <1>2 DEF Chatted
  <2>5. "refresh" \in Stages \ {"idle", "done", "report"} BY DEF Stages
  <2>2. runs'[r].stage = "refresh" /\ runs'[r].session = runs[r].session BY <1>0, <2>1, <2>5, StageFacts
  <2>3. /\ messages' \subseteq Prompts \X Sayings
        /\ \A q \in Prompts \ {r} : \A what \in Sayings : Said(q, what)' <=> Said(q, what)
        /\ \A what \in Sayings : Said(r, what)' <=> Said(r, what) \/ what = "reply"
    BY <1>0, <2>1, SaysFacts DEF Sayings
  <2>4. SayingsOK(r)' BY <1>0, <1>2, <2>2, <2>3 DEF SayingsOK, Sayings, Going
  <2>6. runs[r].cancelled # "early" BY <1>2 DEF Going
  <2>7. \A a \in asks : a.run # r BY <1>0 DEF AsksOK
  <2> QED BY <1>0, <1>1, <2>1, <2>3, <2>4, <2>5, <2>6, <2>7, ReachSafe
<1>3. CASE ~(ok /\ Going(r))
  <2>1. Fails(r) BY <1>3 DEF Chatted
  <2> QED BY <1>0, <1>1, <2>1, FailsSafe
<1> QED BY <1>2, <1>3

LEMMA RecordFacts ==
  ASSUME RunShape, NEW r \in Prompts, NEW outcome \in {"complete", "ended"},
         taskRecord' \in {taskRecord, Recorded(r, outcome)}
  PROVE  /\ taskRecord' \in [Prompts -> {"open", "complete", "ended"}]
         /\ \A q \in Prompts \ {r} : taskRecord'[q] = taskRecord[q]
         /\ taskRecord'[r] \in {taskRecord[r], outcome}
BY DEF RunShape, Recorded

\* A run that ends in the silence of what it has said before.
LEMMA EndQuiet ==
  ASSUME RunInv, NEW r \in Prompts, End(r), messages' = messages, session' = session PROVE SayingsOK(r)' \/ ~Underway(r)
<1>1. RunShape /\ RunOK(r) /\ SayingsOK(r) BY DEF RunInv
<1>2. runs'[r].stage = "done" /\ runs'[r].session = runs[r].session BY <1>1, EndFacts
<1> QED BY <1>1, <1>2 DEF SayingsOK, Said

LEMMA ReportDoneSafe ==
  ASSUME RunInv, NEW r \in Prompts, NEW accepted \in BOOLEAN, NEW answered \in BOOLEAN, ReportDone(r, accepted, answered)
  PROVE  RunInv'
<1>0. /\ RunShape /\ AsksOK /\ SayingsOK(r) /\ Underway(r) /\ link[r] # "open" /\ UNCHANGED sideVars
      /\ session' = session /\ runs[r].stage = "report" /\ runs[r].cancelled # "early"
  BY DEF RunInv, RunOK, RunShape, ReportDone, Underway, sideVars
<1>1. taskRecord' \in {taskRecord, Recorded(r, "complete")} BY DEF ReportDone
<1>2. /\ taskRecord' \in [Prompts -> {"open", "complete", "ended"}]
      /\ \A q \in Prompts \ {r} : taskRecord'[q] = taskRecord[q]
  BY <1>0, <1>1, RecordFacts
<1>3. CASE accepted /\ answered /\ Going(r)
  <2>1. Reaches(r, "refresh") /\ messages' = messages /\ shell' = shell /\ UNCHANGED ownVars BY <1>3 DEF ReportDone
  <2>2. "refresh" \in Stages \ {"idle", "done", "report"} BY DEF Stages
  <2>3. runs'[r].stage = "refresh" /\ runs'[r].session = runs[r].session BY <1>0, <2>1, <2>2, StageFacts
  <2>4. SayingsOK(r)' BY <1>0, <2>1, <2>3 DEF SayingsOK, Said
  <2>5. messages' \subseteq Prompts \X Sayings BY <1>0, <2>1 DEF RunShape, Sayings
  <2>6. \A a \in asks : a.run # r BY <1>0 DEF AsksOK
  <2> QED BY <1>0, <1>2, <2>1, <2>2, <2>4, <2>5, <2>6, ReachSafe DEF Said
<1>4. CASE ~(accepted /\ answered /\ Going(r))
  <2>1. Fails(r) BY <1>4 DEF ReportDone
  <2> QED BY <1>0, <1>2, <2>1, FailsSafe
<1> QED BY <1>3, <1>4

\* A run whose answer had come ends, whether it was cancelled meanwhile or not; the report
\* of a chat may still be under way.
LEMMA RefreshedSafe ==
  ASSUME RunInv, NEW r \in Prompts, Refreshed(r) PROVE RunInv'
<1>0. /\ RunShape /\ RunOK(r) /\ Underway(r) /\ UNCHANGED sideVars /\ session' = session /\ End(r)
      /\ UNCHANGED <<shell, taskRecord, messages>> /\ runs[r].cancelled # "early"
  BY DEF RunInv, RunOK, Refreshed, Underway, sideVars
<1>1. SayingsOK(r)' BY <1>0, EndQuiet
<1>2. /\ messages' \subseteq Prompts \X Sayings /\ shell' \in [Prompts -> {"none", "complete", "ended"}]
      /\ taskRecord' \in [Prompts -> {"open", "complete", "ended"}]
  BY <1>0 DEF RunShape, Sayings
<1> QED BY <1>0, <1>1, <1>2, EndSafe DEF Said

LEMMA ReportFailureSafe ==
  ASSUME RunInv, NEW r \in Prompts, ReportFailure(r) PROVE RunInv'
<1>0. /\ RunShape /\ RunOK(r) /\ Underway(r) /\ UNCHANGED sideVars /\ shell' = shell /\ messages' = messages
      /\ session' = session /\ runs[r].stage = "fail" /\ runs[r].cancelled # "early" /\ shell[r] = "none" /\ End(r)
      /\ taskRecord' \in {taskRecord, Recorded(r, "ended")}
  BY DEF RunInv, RunOK, RunShape, ReportFailure, Underway, sideVars
<1>1. /\ taskRecord' \in [Prompts -> {"open", "complete", "ended"}]
      /\ \A q \in Prompts \ {r} : taskRecord'[q] = taskRecord[q]
  BY <1>0, RecordFacts
<1>2. SayingsOK(r)' BY <1>0, EndQuiet
<1>3. messages' \subseteq Prompts \X Sayings /\ shell' \in [Prompts -> {"none", "complete", "ended"}]
  BY <1>0 DEF RunShape, Sayings
<1> QED BY <1>0, <1>1, <1>2, <1>3, EndSafe DEF Said

\* What changes only what is recorded of a task.
LEMMA RecordSafe ==
  ASSUME RunInv, session' = session, begun' = begun, resolver' = resolver, dialog' = dialog,
         cancels' \subseteq cancels, UNCHANGED ownVars, runs' = runs, messages' = messages,
         shell' \in [Prompts -> {"none", "complete", "ended"}], \A q \in Prompts : shell'[q] \in {"none", shell[q]},
         taskRecord' \in [Prompts -> {"open", "complete", "ended"}],
         \A q \in Prompts : taskRecord'[q] = "complete" =>
            taskRecord[q] = "complete" \/ (runs[q].stage \in {"refresh", "done"} /\ runs[q].cancelled # "early")
  PROVE  RunInv'
<1>0. RunShape /\ AsksOK BY DEF RunInv
<1>1. active' = active /\ link' = link /\ tool' = tool /\ asks' = asks /\ consents' = consents BY DEF ownVars
<1>2. RunShape' BY <1>0, <1>1 DEF RunShape
<1>3. AsksOK' BY <1>0, <1>1, AsksKept DEF AsksOK
<1>4. ASSUME NEW q \in Prompts PROVE RunOK(q)' /\ ToolsOK(q)' /\ SayingsOK(q)'
  <2>1. RunOK(q) /\ ToolsOK(q) /\ SayingsOK(q) BY DEF RunInv
  <2>2. RunOK(q)' BY <1>1, <2>1 DEF RunOK, Underway, Going
  <2>3. ToolsOK(q)' BY <1>1, <2>1 DEF ToolsOK, Touched
  <2>4. SayingsOK(q)' BY <2>1 DEF SayingsOK, Said, Going
  <2> QED BY <2>2, <2>3, <2>4
<1> QED BY <1>2, <1>3, <1>4 DEF RunInv

LEMMA ShellSafe ==
  ASSUME RunInv, NEW r \in Prompts, ShellReports(r) PROVE RunInv'
<1>0. RunShape /\ RunOK(r) BY DEF RunInv
<1>1. /\ shell[r] \in {"complete", "ended"} /\ shell' = [shell EXCEPT ![r] = "none"]
      /\ taskRecord' \in {taskRecord, Recorded(r, shell[r])}
      /\ UNCHANGED sideVars /\ UNCHANGED ownVars /\ runs' = runs /\ messages' = messages
  BY <1>0 DEF ShellReports, RunShape
<1>2. /\ taskRecord' \in [Prompts -> {"open", "complete", "ended"}]
      /\ \A q \in Prompts \ {r} : taskRecord'[q] = taskRecord[q]
      /\ taskRecord'[r] \in {taskRecord[r], shell[r]}
  BY <1>0, <1>1, RecordFacts
<1>3. runs[r].stage \in {"refresh", "done"} /\ (shell[r] = "complete" => runs[r].cancelled # "early") BY <1>0, <1>1 DEF RunOK
<1>4. shell' \in [Prompts -> {"none", "complete", "ended"}] /\ \A q \in Prompts : shell'[q] \in {"none", shell[q]}
  BY <1>0, <1>1 DEF RunShape
<1>5. session' = session /\ begun' = begun /\ resolver' = resolver /\ dialog' = dialog /\ cancels' = cancels
  BY <1>1 DEF sideVars
<1> QED BY <1>1, <1>2, <1>3, <1>4, <1>5, RecordSafe

LEMMA ElsewhereSafe ==
  ASSUME RunInv, NEW r \in Prompts, EndedElsewhere(r) PROVE RunInv'
<1>0. RunShape BY DEF RunInv
<1>1. /\ shell' = shell /\ taskRecord' \in {taskRecord, Recorded(r, "ended")}
      /\ UNCHANGED sideVars /\ UNCHANGED ownVars /\ runs' = runs /\ messages' = messages
  BY DEF EndedElsewhere
<1>2. /\ taskRecord' \in [Prompts -> {"open", "complete", "ended"}]
      /\ \A q \in Prompts : taskRecord'[q] = "complete" => taskRecord[q] = "complete"
  BY <1>0, <1>1, RecordFacts
<1>3. session' = session /\ begun' = begun /\ resolver' = resolver /\ dialog' = dialog /\ cancels' = cancels
  BY <1>1 DEF sideVars
<1>4. shell' \in [Prompts -> {"none", "complete", "ended"}] /\ \A q \in Prompts : shell'[q] \in {"none", shell[q]}
  BY <1>0, <1>1 DEF RunShape
<1> QED BY <1>1, <1>2, <1>3, <1>4, RecordSafe

LEMMA CancelledSafe ==
  ASSUME RunInv, NEW r \in Prompts, NEW accepted \in BOOLEAN, NEW answered \in BOOLEAN, Cancelled(r, accepted, answered)
  PROVE  RunInv'
<1>0. RunShape /\ AsksOK /\ RunOK(r) BY DEF RunInv
<1>1. /\ taskRecord' \in {taskRecord, Recorded(r, "ended")} /\ r \in cancels /\ cancels' = cancels \ {r}
      /\ UNCHANGED <<session, begun, runs, active, link, tool, asks, resolver, dialog, shell, consents>>
  BY DEF Cancelled
<1>2. /\ taskRecord' \in [Prompts -> {"open", "complete", "ended"}]
      /\ \A q \in Prompts : taskRecord'[q] = "complete" => taskRecord[q] = "complete"
  BY <1>0, <1>1, RecordFacts
<1>3. CASE messages' = messages
  <2>1. shell' \in [Prompts -> {"none", "complete", "ended"}] BY <1>0, <1>1 DEF RunShape
  <2> QED BY <1>1, <1>2, <1>3, <2>1, RecordSafe DEF ownVars
<1>4. CASE session = runs[r].session /\ Says(r, "cancelled")
  <2>1. /\ messages' \subseteq Prompts \X Sayings
        /\ \A q \in Prompts \ {r} : \A what \in Sayings : Said(q, what)' <=> Said(q, what)
        /\ \A what \in Sayings : Said(r, what)' <=> Said(r, what) \/ what = "cancelled"
    BY <1>0, <1>4, SaysFacts DEF Sayings
  <2>2. RunShape' BY <1>0, <1>1, <1>2, <2>1 DEF RunShape, Sayings
  <2>3. AsksOK' BY <1>0, <1>1, AsksKept DEF AsksOK
  <2>4. ASSUME NEW q \in Prompts PROVE RunOK(q)' /\ ToolsOK(q)' /\ SayingsOK(q)'
    <3>1. RunOK(q) /\ ToolsOK(q) /\ SayingsOK(q) BY DEF RunInv
    <3>2. RunOK(q)' BY <1>1, <1>2, <3>1 DEF RunOK, Underway, Going
    <3>3. ToolsOK(q)' BY <1>1, <3>1 DEF ToolsOK, Touched
    <3>4. CASE q # r
      <4>1. SayingsOK(q)' BY <1>1, <2>1, <3>1, <3>4 DEF SayingsOK, Sayings, Going
      <4> QED BY <3>2, <3>3, <4>1
    <3>5. CASE q = r
      <4>1. runs[r].stage # "idle" BY <1>0, <1>1 DEF RunOK
      <4>2. SayingsOK(r)' BY <1>1, <1>4, <2>1, <3>1, <3>5, <4>1 DEF SayingsOK, Sayings, Going
      <4> QED BY <3>2, <3>3, <3>5, <4>2
    <3> QED BY <3>4, <3>5
  <2> QED BY <2>2, <2>3, <2>4 DEF RunInv
<1>5. messages' = messages \/ (session = runs[r].session /\ Says(r, "cancelled")) BY DEF Cancelled
<1> QED BY <1>3, <1>4, <1>5

\* A step of the tools and the questions alone.
LEMMA ToolStep ==
  ASSUME RunInv, UNCHANGED <<session, begun, runs, active, link, shell, taskRecord, messages, cancels>>,
         tool' \in [Prompts -> [Tools -> ToolRow]], asks' \subseteq AskRow, AsksOK',
         \A q \in Prompts : ToolsOK(q)'
  PROVE  RunInv'
<1>1. RunShape' BY DEF RunInv, RunShape
<1>2. ASSUME NEW q \in Prompts PROVE RunOK(q)' /\ SayingsOK(q)'
  <2>1. RunOK(q) /\ SayingsOK(q) BY DEF RunInv
  <2> QED BY <2>1 DEF RunOK, SayingsOK, Underway, Going, Said
<1> QED BY <1>1, <1>2 DEF RunInv

LEMMA ToolFacts ==
  ASSUME RunShape, NEW r \in Prompts, NEW t \in Tools, NEW row \in ToolRow, tool' = [tool EXCEPT ![r][t] = row]
  PROVE  /\ tool' \in [Prompts -> [Tools -> ToolRow]] /\ tool'[r][t] = row
         /\ \A q \in Prompts, u \in Tools : q # r \/ u # t => tool'[q][u] = tool[q][u]
<1>1. PICK rows : rows = [tool[r] EXCEPT ![t] = row] OBVIOUS
<1>2. tool[r] \in [Tools -> ToolRow] BY DEF RunShape
<1>3. rows \in [Tools -> ToolRow] /\ rows[t] = row /\ \A u \in Tools \ {t} : rows[u] = tool[r][u] BY <1>1, <1>2
<1>4. tool' = [tool EXCEPT ![r] = rows] BY <1>1
<1>5. tool' \in [Prompts -> [Tools -> ToolRow]] /\ tool'[r] = rows /\ \A q \in Prompts \ {r} : tool'[q] = tool[q]
  BY <1>3, <1>4 DEF RunShape
<1> QED BY <1>3, <1>5

LEMMA BeginSafe ==
  ASSUME RunInv, NEW r \in Prompts, NEW t \in Tools, NEW kind \in {"edit", "look"}, BeginTool(r, t, kind) PROVE RunInv'
<1>0. RunShape /\ AsksOK /\ runs[r].stage = "agent" /\ tool[r][t].kind = "none"
  BY DEF RunInv, BeginTool, NoTool
<1>1. PICK row : row = [kind |-> kind, status |-> "pending"] OBVIOUS
<1>2. row \in ToolRow /\ row.kind = kind /\ row.status = "pending" BY <1>1 DEF ToolRow
<1>3. tool' = [tool EXCEPT ![r][t] = row] BY <1>1 DEF BeginTool
<1>4. UNCHANGED <<agentVars, runs, asks>> BY DEF BeginTool
<1>5. UNCHANGED <<session, begun, runs, active, link, shell, taskRecord, messages, cancels, asks, resolver, dialog, consents>>
  BY <1>4 DEF agentVars
<1>6. /\ tool' \in [Prompts -> [Tools -> ToolRow]] /\ tool'[r][t] = row
      /\ \A q \in Prompts, u \in Tools : q # r \/ u # t => tool'[q][u] = tool[q][u]
  BY <1>0, <1>2, <1>3, ToolFacts, ZenonT(30)
<1>7. AsksOK'
  <2>1. \A a \in asks : a.run \in Prompts /\ a.tool \in Tools /\ (a.run # r \/ a.tool # t)
    BY <1>0 DEF AsksOK, RunShape, AskRow
  <2> QED BY <1>0, <1>5, <1>6, <2>1, AsksKept DEF AsksOK
<1>8. ASSUME NEW q \in Prompts PROVE ToolsOK(q)'
  <2>1. ToolsOK(q) BY DEF RunInv
  <2>2. CASE q = r BY <1>0, <1>2, <1>5, <1>6, <2>1, <2>2 DEF ToolsOK
  <2>3. CASE q # r
    <3>1. \A u \in Tools : tool'[q][u] = tool[q][u] BY <1>6, <2>3
    <3> QED BY <1>5, <2>1, <3>1 DEF ToolsOK, Touched
  <2> QED BY <2>2, <2>3
<1>9. asks' \subseteq AskRow BY <1>0, <1>5 DEF RunShape
<1> QED BY <1>5, <1>6, <1>7, <1>8, <1>9, ToolStep

LEMMA AskSafe ==
  ASSUME RunInv, NEW r \in Prompts, NEW t \in Tools, AskPermission(r, t) PROVE RunInv'
<1>0. /\ RunShape /\ AsksOK /\ runs[r].stage \in {"connect", "agent"} /\ Going(r)
      /\ tool[r][t].kind = "edit" /\ (\A a \in asks : a.run # r)
  BY DEF RunInv, RunOK, AskPermission
<1>1. PICK row : row = [tool[r][t] EXCEPT !.status = "asked"] OBVIOUS
<1>2. tool[r] \in [Tools -> ToolRow] /\ tool[r][t] \in ToolRow BY <1>0 DEF RunShape
<1>3. row \in ToolRow /\ row.kind = "edit" /\ row.status = "asked" BY <1>0, <1>1, <1>2 DEF ToolRow
<1>4. tool' = [tool EXCEPT ![r][t] = row] BY <1>1 DEF AskPermission
<1>5. UNCHANGED <<agentVars, runs>> BY DEF AskPermission
<1>6. UNCHANGED <<session, begun, runs, active, link, shell, taskRecord, messages, cancels, resolver, dialog, consents>>
  BY <1>5 DEF agentVars
<1>7. /\ tool' \in [Prompts -> [Tools -> ToolRow]] /\ tool'[r][t] = row
      /\ \A q \in Prompts, u \in Tools : q # r \/ u # t => tool'[q][u] = tool[q][u]
  BY <1>0, <1>3, <1>4, ToolFacts, ZenonT(30)
<1>8. PICK new : new = [run |-> r, tool |-> t, seen |-> FALSE] OBVIOUS
<1>9. new \in AskRow /\ new.run = r /\ new.tool = t /\ new.seen = FALSE BY <1>8 DEF AskRow
<1>10. asks' = asks \cup {new} BY <1>8 DEF AskPermission
<1>11. asks' \subseteq AskRow BY <1>0, <1>9, <1>10 DEF RunShape
<1>12. AsksOK'
  <2>1. \A a \in asks : a.run \in Prompts /\ a.tool \in Tools /\ tool'[a.run][a.tool].kind = tool[a.run][a.tool].kind
    BY <1>0, <1>7 DEF RunShape, AskRow
  <2>2. \A q : Going(q)' <=> Going(q) BY <1>6 DEF Going
  <2>3. ASSUME NEW a \in asks' PROVE /\ runs'[a.run].stage \in {"connect", "agent", "fail"}
                                     /\ tool'[a.run][a.tool].kind = "edit"
                                     /\ a.seen /\ Going(a.run)' /\ link'[a.run] = "open" => resolver' = Asking(a)
    <3>1. CASE a \in asks BY <1>0, <1>6, <2>1, <2>2, <3>1 DEF AsksOK
    <3>2. CASE a = new BY <1>0, <1>3, <1>6, <1>7, <1>9, <2>2, <3>2
    <3> QED BY <1>10, <3>1, <3>2
  <2>4. \A a, b \in asks' : a.run = b.run => a = b BY <1>0, <1>9, <1>10 DEF AsksOK
  <2>5. dialog' = resolver' BY <1>0, <1>6 DEF AsksOK
  <2> QED BY <2>3, <2>4, <2>5 DEF AsksOK, Asking
<1>13. ASSUME NEW q \in Prompts PROVE ToolsOK(q)'
  <2>1. ToolsOK(q) BY DEF RunInv
  <2>2. CASE q = r BY <1>0, <1>3, <1>6, <1>7, <2>1, <2>2 DEF ToolsOK
  <2>3. CASE q # r
    <3>1. \A u \in Tools : tool'[q][u] = tool[q][u] BY <1>7, <2>3
    <3> QED BY <1>6, <2>1, <3>1 DEF ToolsOK, Touched
  <2> QED BY <2>2, <2>3
<1> QED BY <1>6, <1>7, <1>11, <1>12, <1>13, ToolStep

LEMMA ToolEndsSafe ==
  ASSUME RunInv, NEW r \in Prompts, NEW t \in Tools, NEW status \in {"completed", "failed"}, ToolEnds(r, t, status)
  PROVE  RunInv'
<1>0. /\ RunShape /\ AsksOK /\ runs[r].stage = "agent"
      /\ \/ tool[r][t].kind = "look" /\ tool[r][t].status = "pending"
         \/ tool[r][t].status = "granted"
         \/ tool[r][t].status = "denied" /\ status = "failed"
  BY DEF RunInv, ToolEnds
<1>1. PICK row : row = [tool[r][t] EXCEPT !.status = status] OBVIOUS
<1>2. tool[r] \in [Tools -> ToolRow] /\ tool[r][t] \in ToolRow BY <1>0 DEF RunShape
<1>3. row \in ToolRow /\ row.kind = tool[r][t].kind /\ row.status = status BY <1>0, <1>1, <1>2 DEF ToolRow
<1>4. tool' = [tool EXCEPT ![r][t] = row] BY <1>1 DEF ToolEnds
<1>5. UNCHANGED <<agentVars, runs, asks>> BY DEF ToolEnds
<1>6. UNCHANGED <<session, begun, runs, active, link, shell, taskRecord, messages, cancels, asks, resolver, dialog, consents>>
  BY <1>5 DEF agentVars
<1>7. /\ tool' \in [Prompts -> [Tools -> ToolRow]] /\ tool'[r][t] = row
      /\ \A q \in Prompts, u \in Tools : q # r \/ u # t => tool'[q][u] = tool[q][u]
  BY <1>0, <1>3, <1>4, ToolFacts, ZenonT(30)
<1>8. AsksOK'
  <2>1. \A a \in asks : a.run \in Prompts /\ a.tool \in Tools /\ tool'[a.run][a.tool].kind = tool[a.run][a.tool].kind
    BY <1>0, <1>3, <1>7 DEF RunShape, AskRow
  <2> QED BY <1>0, <1>6, <2>1, AsksKept DEF AsksOK
<1>9. ASSUME NEW q \in Prompts PROVE ToolsOK(q)'
  <2>1. ToolsOK(q) BY DEF RunInv
  <2>2. CASE q = r BY <1>0, <1>3, <1>6, <1>7, <2>1, <2>2 DEF ToolsOK
  <2>3. CASE q # r
    <3>1. \A u \in Tools : tool'[q][u] = tool[q][u] BY <1>7, <2>3
    <3> QED BY <1>6, <2>1, <3>1 DEF ToolsOK, Touched
  <2> QED BY <2>2, <2>3
<1>10. asks' \subseteq AskRow BY <1>0, <1>6 DEF RunShape
<1> QED BY <1>6, <1>7, <1>8, <1>9, <1>10, ToolStep

\* A tool that is denied its permission is not of a run that reports.
LEMMA DeniedOK ==
  ASSUME NEW q \in Prompts, ToolsOK(q), RunShape, AsksOK, runs'[q].stage = runs[q].stage, runs'[q].wants = runs[q].wants,
         runs'[q].gitRead = runs[q].gitRead, \A t \in Tools : <<q, t>> \in consents => <<q, t>> \in consents',
         \A t \in Tools :
            \/ tool'[q][t] = tool[q][t]
            \/ /\ \E b \in asks : b.run = q /\ b.tool = t
               /\ tool'[q][t].kind = tool[q][t].kind /\ tool'[q][t].status \in {"granted", "denied"}
               /\ tool'[q][t].status = "granted" => <<q, t>> \in consents'
  PROVE  ToolsOK(q)'
<1>1. CASE \A t \in Tools : tool'[q][t] = tool[q][t] BY <1>1 DEF ToolsOK, Touched
<1>2. CASE ~ \A t \in Tools : tool'[q][t] = tool[q][t]
  <2>1. runs[q].stage # "report" BY <1>2 DEF AsksOK
  <2>2. ASSUME NEW t \in Tools
        PROVE  /\ tool'[q][t].kind = "none" <=> tool'[q][t].status = "none"
               /\ tool'[q][t].kind = "edit" /\ tool'[q][t].status \in {"granted", "completed"} => <<q, t>> \in consents'
    <3>1. CASE tool'[q][t] = tool[q][t] BY <3>1 DEF ToolsOK
    <3>2. CASE tool'[q][t] # tool[q][t]
      <4>0. PICK b \in asks : b.run = q /\ b.tool = t BY <3>2
      <4>1. tool[q][t].kind = "edit" BY <4>0 DEF AsksOK
      <4> QED BY <3>2, <4>1
    <3> QED BY <3>1, <3>2
  <2> QED BY <2>1, <2>2 DEF ToolsOK
<1> QED BY <1>1, <1>2

LEMMA ArrivesSafe ==
  ASSUME RunInv, NEW a \in asks, PermissionArrives(a) PROVE RunInv'
<1>0. RunShape /\ AsksOK /\ a \in AskRow /\ a.run \in Prompts /\ a.tool \in Tools
  BY DEF RunInv, RunShape, AskRow
<1>1. UNCHANGED <<session, begun, runs, active, link, shell, taskRecord, messages, cancels, consents>>
  BY DEF PermissionArrives
<1>2. CASE Going(a.run)
  <2>1. PICK heard : heard = [a EXCEPT !.seen = TRUE] OBVIOUS
  <2>2. heard \in AskRow /\ heard.run = a.run /\ heard.tool = a.tool /\ heard.seen = TRUE BY <1>0, <2>1 DEF AskRow
  <2>3. asks' = (asks \ {a}) \cup {heard} /\ resolver' = Asking(a) /\ dialog' = Asking(a) /\ tool' = tool
    BY <1>2, <2>1 DEF PermissionArrives
  <2>4. asks' \subseteq AskRow /\ tool' \in [Prompts -> [Tools -> ToolRow]] BY <1>0, <2>2, <2>3 DEF RunShape
  <2>5. \A q : Going(q)' <=> Going(q) BY <1>1 DEF Going
  <2>6. ASSUME NEW b \in asks, Going(b.run) PROVE b.run = active
    <3>1. b.run \in Prompts /\ runs[b.run].stage \in {"connect", "agent", "fail"} BY <1>0 DEF RunShape, AskRow, AsksOK
    <3>2. RunOK(b.run) BY <3>1 DEF RunInv
    <3> QED BY <2>6, <3>1, <3>2 DEF RunOK, Underway
  <2>7. ASSUME NEW b \in asks' PROVE /\ runs'[b.run].stage \in {"connect", "agent", "fail"}
                                     /\ tool'[b.run][b.tool].kind = "edit"
                                     /\ b.seen /\ Going(b.run)' /\ link'[b.run] = "open" => resolver' = Asking(b)
    <3>1. CASE b = heard BY <1>0, <1>1, <1>2, <2>2, <2>3, <2>5, <3>1 DEF AsksOK, Asking
    <3>2. CASE b \in asks \ {a}
      <4>1. b.run # a.run BY <1>0, <3>2 DEF AsksOK
      <4>2. ~Going(b.run) BY <1>2, <2>6, <3>2, <4>1
      <4>3. Asking(b) # Asking(a) BY <4>1 DEF Asking
      <4> QED BY <1>0, <1>1, <2>3, <2>5, <3>2, <4>2, <4>3 DEF AsksOK
    <3> QED BY <2>3, <3>1, <3>2
  <2>8. \A b, c \in asks' : b.run = c.run => b = c BY <1>0, <2>2, <2>3 DEF AsksOK
  <2>9. AsksOK' BY <2>3, <2>7, <2>8 DEF AsksOK, Asking
  <2>10. ASSUME NEW q \in Prompts PROVE ToolsOK(q)'
    <3>1. ToolsOK(q) BY DEF RunInv
    <3> QED BY <1>1, <2>3, <3>1 DEF ToolsOK, Touched
  <2> QED BY <1>1, <2>4, <2>9, <2>10, ToolStep
<1>3. CASE ~Going(a.run)
  <2>1. PICK key : key = Asking(a) OBVIOUS
  <2>2. key.run = a.run /\ key.tool = a.tool BY <2>1 DEF Asking
  <2>3. resolver' = resolver /\ dialog' = dialog BY <1>3 DEF PermissionArrives
  <2>0. PICK no \in BOOLEAN : ~no OBVIOUS
  <2>11. AgentHears(key, no) BY <1>3, <2>0, <2>1 DEF PermissionArrives, AgentHears
  <2>4. /\ asks' = {b \in asks : Asking(b) # key}
        /\ tool' \in [Prompts -> [Tools -> ToolRow]]
        /\ \A q \in Prompts, t \in Tools :
              \/ tool'[q][t] = tool[q][t]
              \/ /\ q = key.run /\ t = key.tool /\ \E b \in asks : Asking(b) = key
                 /\ tool'[q][t].kind = tool[q][t].kind
                 /\ tool'[q][t].status = "denied"
    <3>1. \A q \in Prompts, t \in Tools :
              \/ tool'[q][t] = tool[q][t]
              \/ /\ q = key.run /\ t = key.tool /\ \E b \in asks : Asking(b) = key
                 /\ tool'[q][t].kind = tool[q][t].kind
                 /\ tool'[q][t].status = IF no THEN "granted" ELSE "denied"
      BY <1>0, <2>11, HearsFacts
    <3>2. /\ asks' = {b \in asks : Asking(b) # key}
          /\ tool' \in [Prompts -> [Tools -> ToolRow]]
      BY <1>0, <2>11, HearsFacts
    <3> QED BY <2>0, <3>1, <3>2
  <2>5. asks' \subseteq AskRow BY <1>0, <2>4 DEF RunShape
  <2>6. AsksOK'
    <3>1. \A b \in asks' : b \in asks /\ b.run \in Prompts /\ b.tool \in Tools BY <1>0, <2>4 DEF RunShape, AskRow
    <3>2. \A b \in asks' : tool'[b.run][b.tool].kind = tool[b.run][b.tool].kind BY <2>4, <3>1
    <3> QED BY <1>0, <1>1, <2>3, <3>1, <3>2, AsksKept DEF AsksOK
  <2>7. ASSUME NEW q \in Prompts PROVE ToolsOK(q)'
    <3>1. ToolsOK(q) BY DEF RunInv
    <3> QED BY <1>0, <1>1, <2>2, <2>4, <3>1, DeniedOK
  <2> QED BY <1>1, <2>4, <2>5, <2>6, <2>7, ToolStep
<1> QED BY <1>2, <1>3

\* What the user clicks is heard by the run whose question is on the screen, and only while
\* its socket is open, so that it is live.
LEMMA ClickSafe ==
  ASSUME RunInv, NEW yes \in BOOLEAN, ClickPermission(yes) PROVE RunInv'
<1>0. RunShape /\ AsksOK /\ dialog = resolver BY DEF RunInv, AsksOK
<1>1. /\ UNCHANGED <<session, begun, runs, active, link, shell, taskRecord, messages, cancels>>
      /\ resolver' = NoAsk /\ dialog' = NoAsk /\ AgentHears(resolver, yes)
  BY <1>0 DEF ClickPermission
<1>2. /\ asks' = {b \in asks : Asking(b) # resolver}
      /\ tool' \in [Prompts -> [Tools -> ToolRow]]
      /\ \A q \in Prompts, t \in Tools :
            \/ tool'[q][t] = tool[q][t]
            \/ /\ q = resolver.run /\ t = resolver.tool /\ link[q] = "open" /\ \E b \in asks : Asking(b) = resolver
               /\ tool'[q][t].kind = tool[q][t].kind
               /\ tool'[q][t].status = IF yes THEN "granted" ELSE "denied"
  BY <1>0, <1>1, HearsFacts
<1>3. asks' \subseteq AskRow BY <1>0, <1>2 DEF RunShape
<1>4. \A q : Going(q)' <=> Going(q) BY <1>1 DEF Going
<1>5. AsksOK'
  <2>1. \A b \in asks' : b \in asks /\ b.run \in Prompts /\ b.tool \in Tools /\ Asking(b) # resolver
    BY <1>0, <1>2 DEF RunShape, AskRow
  <2>2. \A b \in asks' : tool'[b.run][b.tool].kind = tool[b.run][b.tool].kind BY <1>2, <2>1
  <2>3. \A b \in asks' : Asking(b) # NoAsk BY <2>1, PromptsAssumption DEF Asking, NoAsk
  <2> QED BY <1>0, <1>1, <1>4, <2>1, <2>2, <2>3 DEF AsksOK, Asking
<1>6. ASSUME \E b \in asks : Asking(b) = resolver, link[resolver.run] = "open", yes PROVE <<resolver.run, resolver.tool>> \in consents'
  <2>1. PICK b \in asks : Asking(b) = resolver BY <1>6
  <2>2. b.run = resolver.run /\ b.run \in Prompts BY <1>0, <2>1 DEF Asking, RunShape, AskRow
  <2>3. RunOK(b.run) /\ link[b.run] = "open" BY <1>6, <2>2 DEF RunInv
  <2>4. Going(b.run) /\ Underway(b.run) BY <2>3 DEF RunOK, Underway
  <2> QED BY <1>0, <1>6, <2>2, <2>4 DEF ClickPermission
<1>7. ASSUME NEW q \in Prompts PROVE ToolsOK(q)'
  <2>1. ToolsOK(q) BY DEF RunInv
  <2>2. \A t \in Tools : <<q, t>> \in consents => <<q, t>> \in consents' BY DEF ClickPermission
  <2>3. ASSUME NEW t \in Tools, tool'[q][t] # tool[q][t]
        PROVE  /\ \E b \in asks : b.run = q /\ b.tool = t
               /\ tool'[q][t].kind = tool[q][t].kind /\ tool'[q][t].status \in {"granted", "denied"}
               /\ tool'[q][t].status = "granted" => <<q, t>> \in consents'
    <3>1. /\ q = resolver.run /\ t = resolver.tool /\ link[q] = "open" /\ \E b \in asks : Asking(b) = resolver
          /\ tool'[q][t].kind = tool[q][t].kind
          /\ tool'[q][t].status = IF yes THEN "granted" ELSE "denied"
      BY <1>2, <2>3
    <3>2. \E b \in asks : b.run = q /\ b.tool = t BY <3>1 DEF Asking
    <3> QED BY <1>6, <3>1, <3>2
  <2> QED BY <1>0, <1>1, <2>1, <2>2, <2>3, DeniedOK
<1> QED BY <1>1, <1>2, <1>3, <1>5, <1>7, ToolStep

\* Whatever is asked for is denied, and nobody is asked any more.
LEMMA WithdrawnFacts ==
  ASSUME RunShape, AsksOK, Withdrawn
  PROVE  /\ asks' = {b \in asks : Asking(b) # resolver} /\ resolver' = NoAsk /\ dialog' = NoAsk
         /\ tool' \in [Prompts -> [Tools -> ToolRow]]
         /\ \A q \in Prompts, t \in Tools :
               \/ tool'[q][t] = tool[q][t]
               \/ /\ \E b \in asks : b.run = q /\ b.tool = t
                  /\ tool'[q][t].kind = tool[q][t].kind /\ tool'[q][t].status = "denied"
<1>1. \A b \in asks : Asking(b) # NoAsk BY PromptsAssumption DEF RunShape, AskRow, Asking, NoAsk
<1>2. CASE resolver = NoAsk BY <1>1, <1>2 DEF Withdrawn, RunShape
<1>3. CASE resolver # NoAsk
  <2>0. PICK no \in BOOLEAN : ~no OBVIOUS
  <2>1. AgentHears(resolver, no) /\ resolver' = NoAsk /\ dialog' = NoAsk BY <1>3, <2>0 DEF Withdrawn, AgentHears
  <2>2. /\ asks' = {b \in asks : Asking(b) # resolver}
        /\ tool' \in [Prompts -> [Tools -> ToolRow]]
        /\ \A q \in Prompts, t \in Tools :
              \/ tool'[q][t] = tool[q][t]
              \/ /\ q = resolver.run /\ t = resolver.tool /\ \E b \in asks : Asking(b) = resolver
                 /\ tool'[q][t].kind = tool[q][t].kind
                 /\ tool'[q][t].status = "denied"
    <3>1. \A q \in Prompts, t \in Tools :
              \/ tool'[q][t] = tool[q][t]
              \/ /\ q = resolver.run /\ t = resolver.tool /\ \E b \in asks : Asking(b) = resolver
                 /\ tool'[q][t].kind = tool[q][t].kind
                 /\ tool'[q][t].status = IF no THEN "granted" ELSE "denied"
      BY <2>1, HearsFacts
    <3>2. /\ asks' = {b \in asks : Asking(b) # resolver}
          /\ tool' \in [Prompts -> [Tools -> ToolRow]]
      BY <2>1, HearsFacts
    <3> QED BY <2>0, <3>1, <3>2
  <2>3. ASSUME NEW b \in asks, Asking(b) = resolver PROVE b.run = resolver.run /\ b.tool = resolver.tool
    BY <2>3 DEF Asking
  <2> QED BY <2>1, <2>2, <2>3
<1> QED BY <1>2, <1>3

\* Once the active run is stopped no run goes on, and no socket is open.
LEMMA HaltFacts ==
  ASSUME RunInv, Halt
  PROVE  /\ runs' \in [Prompts -> RunRow] /\ link' \in [Prompts -> {"none", "open", "closed"}]
         /\ \A q \in Prompts :
               /\ runs'[q].stage = runs[q].stage /\ runs'[q].wants = runs[q].wants
               /\ runs'[q].session = runs[q].session /\ runs'[q].gitRead = runs[q].gitRead
               /\ runs'[q].cancelled = "no" /\ session = runs[q].session => ~Underway(q)
               /\ runs[q].stage \in {"report", "fail", "refresh", "done"} /\ runs[q].cancelled # "early"
                     => runs'[q].cancelled # "early"
               /\ link'[q] # "open"
<1>0. RunShape /\ \A q \in Prompts : RunOK(q) BY DEF RunInv
<1>1. ASSUME NEW q \in Prompts, q # active PROVE link[q] # "open" /\ (Going(q) => ~Underway(q))
  BY <1>0, <1>1 DEF RunOK, Underway
<1>2. CASE active = 0
  <2>1. runs' = runs /\ link' = link BY <1>2 DEF Halt
  <2>2. \A q \in Prompts : q # active BY <1>2, PromptsAssumption
  <2> QED BY <1>0, <1>1, <2>1, <2>2 DEF Going, RunShape
<1>3. CASE active # 0
  <2>1. active \in Prompts /\ StopRun(active) /\ Underway(active) BY <1>0, <1>3 DEF Halt, RunShape, RunOK
  <2>2. PICK r \in Prompts : r = active BY <2>1
  <2>3. /\ runs' \in [Prompts -> RunRow] /\ \A q \in Prompts \ {r} : runs'[q] = runs[q]
        /\ runs'[r].stage = runs[r].stage /\ runs'[r].wants = runs[r].wants
        /\ runs'[r].session = runs[r].session /\ runs'[r].gitRead = runs[r].gitRead
        /\ runs'[r].cancelled # "no"
        /\ runs[r].stage \in {"report", "fail", "refresh"} /\ runs[r].cancelled # "early" => runs'[r].cancelled # "early"
        /\ link' \in [Prompts -> {"none", "open", "closed"}] /\ link'[r] # "open"
        /\ \A q \in Prompts \ {r} : link'[q] = link[q]
    BY <1>0, <2>1, <2>2, StopFacts
  <2>4. runs[r].stage # "done" BY <2>1, <2>2 DEF Underway
  <2>5. ASSUME NEW q \in Prompts \ {r} PROVE /\ runs'[q] = runs[q] /\ link'[q] # "open"
                                             /\ runs'[q].cancelled = "no" /\ session = runs[q].session => ~Underway(q)
    <3>1. runs'[q] = runs[q] /\ link'[q] = link[q] BY <2>3
    <3> QED BY <1>1, <2>2, <3>1 DEF Going
  <2> QED BY <2>3, <2>4, <2>5
<1> QED BY <1>2, <1>3

\* A stop of the active run, in the session or at its end, with its question or without.
LEMMA StopSafe ==
  ASSUME RunInv, Halt, UNCHANGED <<begun, shell, taskRecord, consents>>,
         asks' \subseteq asks, dialog' = resolver', tool' \in [Prompts -> [Tools -> ToolRow]],
         \A q \in Prompts, t \in Tools :
            \/ tool'[q][t] = tool[q][t]
            \/ /\ \E b \in asks : b.run = q /\ b.tool = t
               /\ tool'[q][t].kind = tool[q][t].kind /\ tool'[q][t].status = "denied",
         \/ session' = session /\ active' = active
         \/ session' = 0 /\ active' = 0,
         messages' \subseteq Prompts \X Sayings, cancels' \subseteq Prompts,
         \A q \in cancels' : runs[q].stage # "idle",
         \A q \in Prompts : SayingsOK(q)'
  PROVE  RunInv'
<1>0. RunShape /\ AsksOK /\ \A q \in Prompts : RunOK(q) BY DEF RunInv
<1>1. /\ runs' \in [Prompts -> RunRow] /\ link' \in [Prompts -> {"none", "open", "closed"}]
      /\ \A q \in Prompts :
            /\ runs'[q].stage = runs[q].stage /\ runs'[q].wants = runs[q].wants
            /\ runs'[q].session = runs[q].session /\ runs'[q].gitRead = runs[q].gitRead
            /\ runs'[q].cancelled = "no" /\ session = runs[q].session => ~Underway(q)
            /\ runs[q].stage \in {"report", "fail", "refresh", "done"} /\ runs[q].cancelled # "early"
                  => runs'[q].cancelled # "early"
            /\ link'[q] # "open"
  BY HaltFacts
<1>3. RunShape' BY <1>0, <1>1 DEF RunShape, Sayings
<1>4. AsksOK'
  <2>1. \A b \in asks' : b \in asks /\ b.run \in Prompts /\ b.tool \in Tools BY <1>0 DEF RunShape, AskRow
  <2>2. \A b \in asks' : tool'[b.run][b.tool].kind = tool[b.run][b.tool].kind BY <2>1
  <2>4. ASSUME NEW b \in asks' PROVE /\ runs'[b.run].stage \in {"connect", "agent", "fail"}
                                     /\ tool'[b.run][b.tool].kind = "edit"
                                     /\ link'[b.run] # "open"
    <3>1. b \in asks /\ b.run \in Prompts BY <2>1
    <3>2. runs'[b.run].stage = runs[b.run].stage /\ link'[b.run] # "open" BY <1>1, <3>1
    <3> QED BY <1>0, <2>2, <3>1, <3>2 DEF AsksOK
  <2>5. \A b, c \in asks' : b.run = c.run => b = c BY <1>0, <2>1 DEF AsksOK
  <2> QED BY <2>4, <2>5 DEF AsksOK, Asking
<1>5. ASSUME NEW q \in Prompts PROVE RunOK(q)' /\ ToolsOK(q)'
  <2>1. RunOK(q) /\ ToolsOK(q) /\ q # 0 BY PromptsAssumption DEF RunInv
  <2>2. /\ runs'[q].stage = runs[q].stage /\ runs'[q].wants = runs[q].wants
        /\ runs'[q].session = runs[q].session /\ runs'[q].gitRead = runs[q].gitRead
        /\ runs'[q].cancelled = "no" /\ session = runs[q].session => ~Underway(q)
        /\ runs[q].stage \in {"report", "fail", "refresh", "done"} /\ runs[q].cancelled # "early"
              => runs'[q].cancelled # "early"
        /\ link'[q] # "open"
    BY <1>1
  <2>3. Underway(q)' <=> Underway(q) BY <2>2 DEF Underway
  <2>4. Underway(q) => ~Going(q)'
    <3>1. Underway(q) => runs[q].session # 0 BY <2>1 DEF RunOK, Underway
    <3> QED BY <2>2, <3>1 DEF Going
  <2>5. RunOK(q)' BY <2>1, <2>2, <2>3, <2>4 DEF RunOK
  <2>6. ToolsOK(q)' BY <1>0, <2>1, <2>2, DeniedOK
  <2> QED BY <2>5, <2>6
<1> QED BY <1>3, <1>4, <1>5 DEF RunInv

\* What is said stays true of a run that was stopped.
LEMMA StoppedSayings ==
  ASSUME RunInv, Halt, session' = session, messages' = messages, NEW q \in Prompts PROVE SayingsOK(q)'
<1>1. runs'[q].stage = runs[q].stage /\ runs'[q].session = runs[q].session
      /\ (runs'[q].cancelled = "no" /\ session = runs[q].session => ~Underway(q))
  BY HaltFacts
<1>2. SayingsOK(q) BY DEF RunInv
<1> QED BY <1>1, <1>2 DEF SayingsOK, Said, Going, Underway

LEMMA SynchronizedSafe ==
  ASSUME RunInv, Synchronized PROVE RunInv'
<1>0. RunShape /\ AsksOK /\ \A q \in Prompts : RunOK(q) BY DEF RunInv
<1>1. /\ Halt /\ Withdrawn
      /\ UNCHANGED <<session, begun, active, shell, taskRecord, messages, cancelling, cancels, consents>>
  BY DEF Synchronized, Halt
<1>2. messages' \subseteq Prompts \X Sayings /\ cancels' \subseteq Prompts BY <1>0, <1>1 DEF RunShape, Sayings
<1>3. \A q \in cancels' : runs[q].stage # "idle" BY <1>0, <1>1 DEF RunOK, RunShape
<1>4. \A q \in Prompts : SayingsOK(q)' BY <1>1, StoppedSayings
<1>5. /\ asks' \subseteq asks /\ dialog' = resolver' /\ tool' \in [Prompts -> [Tools -> ToolRow]]
      /\ \A q \in Prompts, t \in Tools :
            \/ tool'[q][t] = tool[q][t]
            \/ /\ \E b \in asks : b.run = q /\ b.tool = t
               /\ tool'[q][t].kind = tool[q][t].kind /\ tool'[q][t].status = "denied"
  BY <1>0, <1>1, WithdrawnFacts
<1> QED BY <1>1, <1>2, <1>3, <1>4, <1>5, StopSafe

\* The run alone is stopped, and what is on the screen stays there.
LEMMA RefusedSafe ==
  ASSUME RunInv, LeaseRefused PROVE RunInv'
<1>0. RunShape /\ AsksOK /\ \A q \in Prompts : RunOK(q) BY DEF RunInv
<1>1. /\ Halt
      /\ UNCHANGED <<session, begun, active, tool, asks, resolver, dialog, shell, taskRecord, messages,
                     cancelling, cancels, consents>>
  BY DEF LeaseRefused, Halt
<1>2. /\ messages' \subseteq Prompts \X Sayings /\ cancels' \subseteq Prompts
      /\ tool' \in [Prompts -> [Tools -> ToolRow]] /\ dialog' = resolver'
  BY <1>0, <1>1 DEF RunShape, Sayings, AsksOK
<1>3. \A q \in cancels' : runs[q].stage # "idle" BY <1>0, <1>1 DEF RunOK, RunShape
<1>4. \A q \in Prompts : SayingsOK(q)' BY <1>1, StoppedSayings
<1> QED BY <1>1, <1>2, <1>3, <1>4, StopSafe

LEMMA LeaveSafe ==
  ASSUME RunInv, LeaveSession PROVE RunInv'
<1>0. RunShape /\ AsksOK /\ \A q \in Prompts : RunOK(q) BY DEF RunInv
<1>1. /\ session' = 0 /\ active' = 0 /\ messages' = {} /\ Halt /\ Withdrawn
      /\ UNCHANGED <<begun, shell, taskRecord, cancelling, cancels, consents>>
  BY DEF LeaveSession
<1>2. messages' \subseteq Prompts \X Sayings /\ cancels' \subseteq Prompts BY <1>0, <1>1 DEF RunShape
<1>3. \A q \in cancels' : runs[q].stage # "idle" BY <1>0, <1>1 DEF RunOK, RunShape
<1>4. ASSUME NEW q \in Prompts PROVE SayingsOK(q)'
  <2>1. runs'[q].stage = runs[q].stage /\ runs'[q].session = runs[q].session BY <1>1, HaltFacts
  <2>2. runs[q].stage # "idle" => runs[q].session # 0 BY <1>0 DEF RunOK
  <2> QED BY <1>1, <2>1, <2>2 DEF SayingsOK, Said, Going
<1>5. /\ asks' \subseteq asks /\ dialog' = resolver' /\ tool' \in [Prompts -> [Tools -> ToolRow]]
      /\ \A q \in Prompts, t \in Tools :
            \/ tool'[q][t] = tool[q][t]
            \/ /\ \E b \in asks : b.run = q /\ b.tool = t
               /\ tool'[q][t].kind = tool[q][t].kind /\ tool'[q][t].status = "denied"
  BY <1>0, <1>1, WithdrawnFacts
<1> QED BY <1>1, <1>2, <1>3, <1>4, <1>5, StopSafe

LEMMA CancelSafe ==
  ASSUME RunInv, NEW r \in Prompts, Cancel(r) PROVE RunInv'
<1>0. RunShape /\ AsksOK /\ \A q \in Prompts : RunOK(q) BY DEF RunInv
<1>1. /\ session # 0 /\ session = runs[r].session /\ cancels' = cancels \cup {r}
      /\ UNCHANGED <<session, begun, active, shell, taskRecord, consents>>
  BY DEF Cancel
<1>2. runs[r].stage # "idle" BY <1>0, <1>1 DEF RunOK
<1>3. /\ cancels' \subseteq Prompts /\ \A q \in cancels' : runs[q].stage # "idle"
  BY <1>0, <1>1, <1>2 DEF RunShape, RunOK
<1>4. CASE active = r
  <2>1. Halt /\ Withdrawn
    <3>1. r # 0 BY PromptsAssumption
    <3> QED BY <1>4, <3>1 DEF Cancel, Halt
  <2>4. /\ asks' \subseteq asks /\ dialog' = resolver' /\ tool' \in [Prompts -> [Tools -> ToolRow]]
        /\ \A q \in Prompts, t \in Tools :
              \/ tool'[q][t] = tool[q][t]
              \/ /\ \E b \in asks : b.run = q /\ b.tool = t
                 /\ tool'[q][t].kind = tool[q][t].kind /\ tool'[q][t].status = "denied"
    BY <1>0, <2>1, WithdrawnFacts
  <2>2. CASE messages' = messages
    <3>1. messages' \subseteq Prompts \X Sayings BY <1>0, <2>2 DEF RunShape, Sayings
    <3>2. \A q \in Prompts : SayingsOK(q)' BY <1>1, <2>1, <2>2, StoppedSayings
    <3> QED BY <1>1, <1>3, <2>1, <2>4, <3>1, <3>2, StopSafe
  <2>3. CASE Says(r, "cancelled")
    <3>1. /\ messages' \subseteq Prompts \X Sayings
          /\ \A q \in Prompts \ {r} : \A what \in Sayings : Said(q, what)' <=> Said(q, what)
          /\ \A what \in Sayings : Said(r, what)' <=> Said(r, what) \/ what = "cancelled"
      BY <1>0, <2>3, SaysFacts DEF Sayings
    <3>2. ASSUME NEW q \in Prompts PROVE SayingsOK(q)'
      <4>1. runs'[q].stage = runs[q].stage /\ runs'[q].session = runs[q].session
            /\ (runs'[q].cancelled = "no" /\ session = runs[q].session => ~Underway(q))
        BY <2>1, HaltFacts
      <4>2. SayingsOK(q) BY DEF RunInv
      <4>3. CASE q # r BY <1>1, <3>1, <4>1, <4>2, <4>3 DEF SayingsOK, Sayings, Going, Underway
      <4>4. CASE q = r BY <1>1, <1>2, <3>1, <4>1, <4>2, <4>4 DEF SayingsOK, Sayings, Going, Underway
      <4> QED BY <4>3, <4>4
    <3> QED BY <1>1, <1>3, <2>1, <2>4, <3>1, <3>2, StopSafe
  <2> QED BY <2>2, <2>3 DEF Cancel
<1>5. CASE active # r
  <2>1. UNCHANGED <<runs, link, asks, tool, resolver, dialog, messages>> BY <1>5 DEF Cancel
  <2>2. RunShape' BY <1>0, <1>1, <1>3, <2>1 DEF RunShape
  <2>3. AsksOK' BY <1>0, <1>1, <2>1, AsksKept DEF AsksOK
  <2>4. ASSUME NEW q \in Prompts PROVE RunOK(q)' /\ ToolsOK(q)' /\ SayingsOK(q)'
    <3>1. RunOK(q) /\ ToolsOK(q) /\ SayingsOK(q) BY DEF RunInv
    <3>2. RunOK(q)' BY <1>1, <1>3, <2>1, <3>1 DEF RunOK, Underway, Going
    <3>3. ToolsOK(q)' BY <1>1, <2>1, <3>1 DEF ToolsOK, Touched
    <3>4. SayingsOK(q)' BY <1>1, <2>1, <3>1 DEF SayingsOK, Said, Going
    <3> QED BY <3>2, <3>3, <3>4
  <2> QED BY <2>2, <2>3, <2>4 DEF RunInv
<1> QED BY <1>4, <1>5

\* No run of an earlier session goes on in a new one, and nothing it said is left.
LEMMA BeginSessionSafe ==
  ASSUME RunInv, BeginSession PROVE RunInv'
<1>0. RunShape /\ AsksOK /\ begun \in Nat BY DEF RunInv, RunShape
<1>1. /\ session = 0 /\ session' = begun + 1 /\ begun' = begun + 1
      /\ UNCHANGED <<runs, active, link, tool, asks, resolver, dialog, shell, taskRecord, messages,
                     cancelling, cancels, consents>>
  BY DEF BeginSession
<1>2. RunShape' BY <1>0, <1>1 DEF RunShape
<1>3. ASSUME NEW q \in Prompts, runs[q].stage # "idle" PROVE ~Going(q) /\ ~Going(q)'
  <2>1. RunOK(q) BY DEF RunInv
  <2>2. runs[q].session # 0 /\ runs[q].session <= begun /\ runs[q].session \in Nat
    BY <1>0, <1>3, <2>1 DEF RunOK, RunShape, RunRow
  <2> QED BY <1>0, <1>1, <2>2 DEF Going
<1>4. AsksOK'
  <2>1. \A a \in asks : a.run \in Prompts /\ ~Going(a.run) /\ ~Going(a.run)'
    BY <1>0, <1>3 DEF RunShape, AskRow, AsksOK
  <2> QED BY <1>0, <1>1, <2>1 DEF AsksOK, Asking
<1>5. ASSUME NEW q \in Prompts PROVE RunOK(q)' /\ ToolsOK(q)' /\ SayingsOK(q)'
  <2>1. RunOK(q) /\ ToolsOK(q) /\ SayingsOK(q) /\ runs[q].session \in Nat BY <1>0 DEF RunInv, RunShape, RunRow
  <2>2. CASE runs[q].stage = "idle"
    <3>1. RunOK(q)' BY <1>1, <2>1, <2>2 DEF RunOK, Underway
    <3>2. SayingsOK(q)' BY <1>1, <2>1, <2>2 DEF SayingsOK, Said
    <3>3. ToolsOK(q)' BY <1>1, <2>1 DEF ToolsOK, Touched
    <3> QED BY <3>1, <3>2, <3>3
  <2>3. CASE runs[q].stage # "idle"
    <3>1. ~Going(q) /\ ~Going(q)' BY <1>3, <2>3
    <3>2. RunOK(q)' BY <1>0, <1>1, <2>1, <2>3, <3>1 DEF RunOK, Underway
    <3>3. runs[q].session # session BY <1>1, <2>1, <2>3 DEF RunOK
    <3>4. SayingsOK(q)' BY <1>1, <2>1, <3>1, <3>3 DEF SayingsOK, Said
    <3>5. ToolsOK(q)' BY <1>1, <2>1 DEF ToolsOK, Touched
    <3> QED BY <3>2, <3>4, <3>5
  <2> QED BY <2>2, <2>3
<1> QED BY <1>2, <1>4, <1>5 DEF RunInv

LEMMA RunStep == RunInv /\ [RunNext]_runVars => RunInv'
<1> SUFFICES ASSUME RunInv, [RunNext]_runVars PROVE RunInv'
  OBVIOUS
<1>1. ASSUME NEW r \in Prompts, \/ \E mode \in {"code", "chat"} : SendPrompt(r, mode)
                                \/ ConnectAgent(r) \/ LinkLost(r) \/ AgentDies(r) \/ TurnEnds(r)
                                \/ Refreshed(r) \/ ReportFailure(r) \/ ShellReports(r) \/ Cancel(r) \/ EndedElsewhere(r)
      PROVE  RunInv'
  BY <1>1, SendSafe, ConnectSafe, LostSafe, DiesSafe, TurnEndsSafe, RefreshedSafe, ReportFailureSafe,
     ShellSafe, CancelSafe, ElsewhereSafe
<1>2. ASSUME NEW r \in Prompts, NEW ok \in BOOLEAN, Claimed(r, ok) \/ Chatted(r, ok) PROVE RunInv'
  BY <1>2, ClaimedSafe, ChattedSafe
<1>3. ASSUME NEW r \in Prompts, NEW ok \in BOOLEAN, NEW git \in BOOLEAN,
             \/ Prepared(r, ok, git)
             \/ \E wants \in {"change", "look"} : Reviewed(r, wants, ok, git)
             \/ ReportDone(r, ok, git) \/ Cancelled(r, ok, git)
      PROVE  RunInv'
  BY <1>3, PreparedSafe, ReviewedSafe, ReportDoneSafe, CancelledSafe
<1>4. ASSUME NEW r \in Prompts, NEW t \in Tools,
             \/ \E kind \in {"edit", "look"} : BeginTool(r, t, kind)
             \/ AskPermission(r, t)
             \/ \E status \in {"completed", "failed"} : ToolEnds(r, t, status)
      PROVE  RunInv'
  BY <1>4, BeginSafe, AskSafe, ToolEndsSafe
<1>5. ASSUME NEW a \in asks, PermissionArrives(a) PROVE RunInv' BY <1>5, ArrivesSafe
<1>6. ASSUME NEW yes \in BOOLEAN, ClickPermission(yes) PROVE RunInv' BY <1>6, ClickSafe
<1>7. CASE Synchronized \/ LeaseRefused \/ LeaveSession \/ BeginSession
  BY <1>7, SynchronizedSafe, RefusedSafe, LeaveSafe, BeginSessionSafe
<1>8. CASE UNCHANGED runVars
  <2>1. UNCHANGED <<session, begun, runs, active, link, tool, asks, resolver, dialog, shell,
             taskRecord, messages, cancelling, cancels, consents>>
    BY <1>8 DEF runVars
  <2>2. UNCHANGED ownVars BY <2>1 DEF ownVars
  <2>3. shell' \in [Prompts -> {"none", "complete", "ended"}] /\ taskRecord' \in [Prompts -> {"open", "complete", "ended"}]
    BY <2>1 DEF RunInv, RunShape
  <2>4. session' = session /\ begun' = begun /\ resolver' = resolver /\ dialog' = dialog /\ cancels' = cancels
        /\ runs' = runs /\ messages' = messages /\ shell' = shell /\ taskRecord' = taskRecord
    BY <2>1
  <2> QED BY <2>2, <2>3, <2>4, RecordSafe
<1> QED BY <1>1, <1>2, <1>3, <1>4, <1>5, <1>6, <1>7, <1>8 DEF RunNext

LEMMA RunImplies == RunInv => RunSafe
<1> SUFFICES ASSUME RunInv PROVE RunSafe
  OBVIOUS
<1>0. RunShape /\ AsksOK /\ \A r \in Prompts : RunOK(r) /\ ToolsOK(r) /\ SayingsOK(r) BY DEF RunInv
<1>1. EditsHaveConsent BY <1>0 DEF EditsHaveConsent, ToolsOK, AsksOK
<1>2. CompleteIsEarned BY <1>0 DEF CompleteIsEarned, ToolsOK, RunOK
<1>3. ConversationIsOwn
  <2>1. ASSUME NEW m \in messages PROVE /\ runs[m[1]].session = session
                                        /\ m[2] \in {"reply", "failure"} => Said(m[1], "prompt")
                                        /\ m[2] = "failure" => ~Said(m[1], "reply")
    <3>0. PICK r \in Prompts, what \in {"prompt", "reply", "failure", "cancelled"} : m = <<r, what>>
      BY <1>0 DEF RunShape
    <3>1. m[1] \in Prompts /\ m[2] \in {"prompt", "reply", "failure", "cancelled"} /\ Said(m[1], m[2])
      BY <3>0 DEF Said
    <3>2. SayingsOK(m[1]) BY <1>0, <3>1
    <3> QED BY <3>1, <3>2 DEF SayingsOK
  <2> QED BY <2>1 DEF ConversationIsOwn
<1>4. OneRunAtATime BY <1>0 DEF OneRunAtATime, RunOK
<1> QED BY <1>1, <1>2, <1>3, <1>4 DEF RunSafe

\* Of every window, whatever the agent, the servers and the user do and in what order:
\* nothing is edited without a permission the user gave, no code run reports work that it
\* does not show, no task is complete whose run was cancelled before its answer had come,
\* the conversation is that of the account signed in, and one run goes on at a time.
\* A chat stopped between its answer and its end may still be reported complete.
THEOREM RunsAreSafe == RunSpec => []RunSafe
<1>1. RunInit => RunInv BY RunStart
<1>2. RunInv /\ [RunNext]_runVars => RunInv' BY RunStep
<1>3. RunInv => RunSafe BY RunImplies
<1> QED BY <1>1, <1>2, <1>3, PTL DEF RunSpec

-----------------------------------------------------------------------------
\* Of everything a window does for its user with an agent, a project and the proxy between
\* them, in any order: what it promises of each holds.
THEOREM WorkIsSafe == WindowSpec => []WorkSafe
<1>1. RunSafe /\ WorkspaceSafe /\ ProxySafe => WorkSafe BY DEF WorkSafe
<1> QED BY <1>1, RunsAreSafe, WorkspaceIsSafe, ProxyIsSafe, PTL DEF WindowSpec

=============================================================================
