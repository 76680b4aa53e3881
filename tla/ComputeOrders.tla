---------------------------- MODULE ComputeOrders ----------------------------
(***************************************************************************)
(* Orders of the compute market (version 2), the card-hour ledger that     *)
(* settles them and the operators who quote and move them.  Sources:       *)
(* services/control-plane/src/compute-market-v2/{orders,settlements,       *)
(* validation,router,admin}.ts.                                            *)
(*                                                                         *)
(* Every handler runs to its end without an await, so it is one step.  The *)
(* catalog is whatever an operator last saved: the mode and the price of   *)
(* the offer are chosen when an order is created.  An operation on a       *)
(* revision that is no longer the order's changes nothing and is left out, *)
(* as are the inventory reservations, which no order looks at.             *)
(***************************************************************************)
EXTENDS Naturals, FiniteSets, Sequences, Functions

CONSTANTS
    MarketOrders,   \* ids of orders
    MarketKeys,     \* idempotency keys
    Sums,           \* amounts in card hours, 0 among them
    NoSum, NoMarketKey,
    Granted,        \* card hours granted to the account
    MaxMoves        \* bound on the moves of an order by operators

ASSUME MarketAssumption == Sums \subseteq Nat /\ Granted \in Nat

VARIABLES
    order,          \* order -> its row
    hours,          \* availableCardHoursMilli of the account
    charges,        \* rental_charge entries: sequence of [order, sum]
    spent,          \* mutations of the ledger: key -> fingerprint
    moves,          \* order -> moves by operators
    agreed          \* history: order -> sum its owner agreed to pay

marketVars == <<order, hours, charges, spent, moves, agreed>>

-----------------------------------------------------------------------------
NoOrder == [status |-> "none", charged |-> 0, quote |-> NoSum, valid |-> FALSE,
            key |-> NoMarketKey, cancelKey |-> NoMarketKey]

MarketInit ==
    /\ order = [o \in MarketOrders |-> NoOrder]
    /\ hours = Granted /\ charges = <<>>
    /\ spent = [k \in MarketKeys |-> <<>>]
    /\ moves = [o \in MarketOrders |-> 0]
    /\ agreed = [o \in MarketOrders |-> NoSum]

orderTransitions == [
    draft              |-> {"reserved", "pending_quote", "cancelled"},
    reserved           |-> {"pending_settlement", "cancelled"},
    pending_quote      |-> {"quoted", "cancelled"},
    quoted             |-> {"pending_settlement", "cancelled"},
    pending_settlement |-> {"settled", "cancelled"},
    settled            |-> {"provisioning", "action_required", "refund_pending"},
    provisioning       |-> {"running", "action_required", "refund_pending"},
    running            |-> {"completed", "action_required"},
    action_required    |-> {"settled", "provisioning", "running", "cancelled", "refund_pending"},
    completed |-> {}, cancelled |-> {}, refund_pending |-> {"refunded"}, refunded |-> {}]

Ordered == {o \in MarketOrders : order[o].status # "none"}

\* assertOrderTransition.
CanMove(o, status) == o \in Ordered /\ status \in orderTransitions[order[o].status]

-----------------------------------------------------------------------------
(* The owner of the orders *)

\* createOrder: a key used before answers with the order it created.
PlaceOrder(o, k, mode, sum) ==
    /\ o \notin Ordered
    /\ \A x \in Ordered : order[x].key # k
    /\ LET status == CASE mode = "quote"       -> "pending_quote"
                       [] mode = "reservation" -> "reserved"
                       [] mode = "instant"     -> "pending_settlement"
       IN order' = [order EXCEPT ![o] =
             [NoOrder EXCEPT !.status = status, !.charged = sum, !.key = k]]
    /\ agreed' = [agreed EXCEPT ![o] = IF mode = "quote" THEN NoSum ELSE sum]
    /\ UNCHANGED <<hours, charges, spent, moves>>

\* decideQuote, while the quote is valid.
DecideQuote(o, accept) ==
    /\ order[o].status = "quoted" /\ order[o].valid
    /\ order' = [order EXCEPT ![o].status = IF accept THEN "pending_settlement" ELSE "cancelled"]
    /\ agreed' = [agreed EXCEPT ![o] = IF accept THEN order[o].quote ELSE @]
    /\ UNCHANGED <<hours, charges, spent, moves>>

\* ledger.charge: the key of another charge is refused, that of the same one
\* charges nothing; the sum is positive and available.
Charge(o, k) ==
    LET sum == order[o].charged
        fingerprint == <<o, sum>>
    IN /\ sum > 0
       /\ \/ /\ spent[k] = <<>> /\ sum <= hours
             /\ hours' = hours - sum
             /\ charges' = Append(charges, fingerprint)
             /\ spent' = [spent EXCEPT ![k] = fingerprint]
          \/ spent[k] = fingerprint /\ UNCHANGED <<hours, charges, spent>>

\* settle: the charge and the transition are one step.
SettleOrder(o, k) ==
    /\ order[o].status = "pending_settlement"
    /\ Charge(o, k)
    /\ order' = [order EXCEPT ![o].status = "settled"]
    /\ UNCHANGED <<moves, agreed>>

\* cancel: the key is looked up first, whichever order it cancelled.
CancelOrder(o, k) ==
    /\ \A x \in Ordered : order[x].cancelKey # k
    /\ order[o].status \in {"draft", "reserved", "pending_quote", "quoted", "pending_settlement"}
    /\ order' = [order EXCEPT ![o].status = "cancelled", ![o].cancelKey = k]
    /\ UNCHANGED <<hours, charges, spent, moves, agreed>>

-----------------------------------------------------------------------------
(* Operators *)

Quotable(o) == order[o].status = "pending_quote"

\* quote: the sum after the discount, which may be all of it.
Quote(o, sum) ==
    /\ Quotable(o)
    /\ order' = [order EXCEPT ![o] = [@ EXCEPT !.status = "quoted", !.charged = sum,
                                               !.quote = sum, !.valid = TRUE]]
    /\ UNCHANGED <<hours, charges, spent, moves, agreed>>

\* Mutation of OperatorMay: an operator may accept a quote.
OperatorMayAccept(o, status) == CanMove(o, status)

OperatorMay(o, status) ==
    CanMove(o, status) /\ ~(status = "pending_settlement" /\ order[o].status = "quoted")

\* adminTransition.  It moves no card hours, in either direction.
MoveOrder(o, status) ==
    /\ OperatorMay(o, status) /\ moves[o] < MaxMoves
    /\ order' = [order EXCEPT ![o].status = status]
    /\ moves' = [moves EXCEPT ![o] = @ + 1]
    /\ UNCHANGED <<hours, charges, spent, agreed>>

QuoteExpires(o) ==
    /\ order[o].valid
    /\ order' = [order EXCEPT ![o].valid = FALSE]
    /\ UNCHANGED <<hours, charges, spent, moves, agreed>>

\* The routes of owners and of operators.
OwnerActs ==
    \/ \E o \in MarketOrders, k \in MarketKeys, sum \in Sums, mode \in {"quote", "reservation", "instant"} :
          PlaceOrder(o, k, mode, sum)
    \/ \E o \in MarketOrders, accept \in BOOLEAN : DecideQuote(o, accept)
    \/ \E o \in MarketOrders, k \in MarketKeys : SettleOrder(o, k) \/ CancelOrder(o, k)

OperatorActs ==
    \/ \E o \in MarketOrders, sum \in Sums : Quote(o, sum)
    \/ \E o \in MarketOrders, status \in DOMAIN orderTransitions : MoveOrder(o, status)

MarketNext == OwnerActs \/ OperatorActs \/ \E o \in MarketOrders : QuoteExpires(o)

MarketSpec == MarketInit /\ [][MarketNext]_marketVars

-----------------------------------------------------------------------------
\* An order is charged at most once, however it is moved, retried and reopened; it
\* is charged what its owner agreed to, at the price shown or by accepting a valid
\* quote, which no operator can do or change afterwards; and the balance is what
\* was granted without the charges.
ChargedAsAgreed ==
    /\ \A i \in DOMAIN charges :
          /\ charges[i][2] = agreed[charges[i][1]]
          /\ \A j \in DOMAIN charges : charges[i][1] = charges[j][1] => i = j
    /\ hours + SumFunctionOnSet([i \in DOMAIN charges |-> charges[i][2]], DOMAIN charges) = Granted

=============================================================================
