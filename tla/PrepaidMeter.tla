---------------------------- MODULE PrepaidMeter ----------------------------
(***************************************************************************)
(* What the billing tables promise to the owner of an account, with no     *)
(* reservations, leases, refunds, cached answers or retries in it: funds   *)
(* are added, exchanged for credit packs and spent, a request is charged   *)
(* at most once, and nothing is ever spent that is not there.  Billing     *)
(* implements this meter (Billing!MeterPromise).                           *)
(***************************************************************************)
EXTENDS Integers

CONSTANTS
    Users,          \* the accounts
    Requests,       \* what can be charged once: a chat request, a usage post
    Deposits,       \* amounts a top-up may have
    Packs,          \* records [price, credit]
    Prices          \* what a request may cost

VARIABLES
    funds,          \* user -> unspent cents, in the wallet or as credit
    charged         \* user -> the requests that have been paid

Init ==
    /\ funds \in [Users -> Nat]
    /\ charged = [u \in Users |-> {}]

Deposit(u, cents) ==
    /\ funds' = [funds EXCEPT ![u] = @ + cents]
    /\ UNCHANGED charged

BuyPack(u, pack) ==
    /\ funds[u] >= pack.price
    /\ funds' = [funds EXCEPT ![u] = @ - pack.price + pack.credit]
    /\ UNCHANGED charged

Charge(u, request, cents) ==
    /\ request \notin charged[u]
    /\ charged' = [charged EXCEPT ![u] = @ \cup {request}]
    /\ funds[u] >= cents
    /\ funds' = [funds EXCEPT ![u] = @ - cents]

Next ==
    \E u \in Users :
        \/ \E cents \in Deposits : Deposit(u, cents)
        \/ \E pack \in Packs : BuyPack(u, pack)
        \/ \E request \in Requests, cents \in Prices : Charge(u, request, cents)

Spec == Init /\ [][Next]_<<funds, charged>>

=============================================================================
