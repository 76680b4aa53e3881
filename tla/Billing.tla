------------------------------- MODULE Billing -------------------------------
(***************************************************************************)
(* The money tables of the control plane and the transactions over them:   *)
(* wallets (cod_users.balance_cents), credit grants, usage reservations    *)
(* with their 90 s leases, the append-only ledger and the idempotent chat  *)
(* requests.  Source: services/control-plane/src/database.ts,              *)
(* PostgresDatabase.                                                       *)
(*                                                                         *)
(* Every action is one committed database transaction; a transaction that  *)
(* throws is rolled back and is a stuttering step.  The callers are left   *)
(* free: any transaction may come at any time, in any order, repeated.     *)
(* ChatGateway restricts them to what the chat handler does.               *)
(*                                                                         *)
(* Time is abstract: a lease, a grant or a chat row carries a flag that    *)
(* says whether its expiry timestamp lies in the past, and an action of    *)
(* its own lets that happen.                                               *)
(***************************************************************************)
EXTENDS Integers, FiniteSetsExt, Functions

CONSTANTS
    Users,          \* (tenant_id, user_id) pairs
    Admins,         \* the users with role = 'admin', billed zero
    RequestKeys,    \* chat request keys (x-request-id or agent session key)
    Fingerprints,   \* hashes of chat request bodies
    OpKeys,         \* idempotency keys of top-ups, pack purchases, usage posts
    Executions,     \* task execution ids
    NoTask,         \* no task execution: task_execution_id IS NULL
    None,           \* the absent user, key or fingerprint: NULL
    ReservationIds, \* reservation uuids
    MaxGrants,      \* bound on the grants of one user
    MaxBalance,     \* bound on a wallet that is topped up
    TopupAmounts, ReserveAmounts, Costs,
    Packs,          \* creditPackCatalog: records [price, credit]
    TrialCredit,    \* the grant every new account receives
    ReapBatch       \* USAGE_RESERVATION_REAP_BATCH_SIZE

ASSUME MoneyAssumption ==
    /\ MaxBalance \in Nat
    /\ TopupAmounts \subseteq Nat \ {0}
    /\ ReserveAmounts \subseteq Nat
    /\ Costs \subseteq Nat
    /\ Packs \subseteq [price : Nat, credit : Nat \ {0}]
    /\ TrialCredit \in Nat \ {0}
    /\ ReapBatch \in Nat \ {0}

ASSUME IdentityAssumption ==
    /\ IsFiniteSet(Users)
    /\ Admins \subseteq Users
    /\ IsFiniteSet(ReservationIds)
    /\ MaxGrants \in Nat \ {0}
    /\ NoTask \notin Executions
    /\ None \notin Users \cup Fingerprints

VARIABLES
    balance,        \* user -> wallet cents
    grants,         \* user -> slot -> credit grant, slots in expiry order
    reservations,   \* reservation id -> row
    chat,           \* user -> request key -> row
    ledger,         \* the set of ledger entries
    live            \* executions that hold a live task lease

vars == <<balance, grants, reservations, chat, ledger, live>>

-----------------------------------------------------------------------------
(* Rows. *)

Slots == 1 .. MaxGrants

NoGrant == [status |-> "none", past |-> FALSE, original |-> 0, remaining |-> 0,
            key |-> None]

Grant == [status : {"none", "active", "depleted", "expired"}, past : BOOLEAN,
          original : Nat, remaining : Nat, key : OpKeys \cup {None}]

\* The trial grant of ensurePrincipal; its idempotency key is its own.
TrialGrant == [status |-> "active", past |-> FALSE, original |-> TrialCredit,
               remaining |-> TrialCredit, key |-> None]

NoReservation == [status |-> "none", user |-> None, exec |-> NoTask,
                  wallet |-> 0, holds |-> [i \in Slots |-> 0], leased |-> FALSE]

Reservation == [status : {"none", "reserved", "settled", "released"},
                user : Users \cup {None}, exec : Executions \cup {NoTask},
                wallet : Nat, holds : [Slots -> Nat], leased : BOOLEAN]

NoChat == [status |-> "none", fp |-> None, exec |-> NoTask, stale |-> FALSE]

ChatRow == [status : {"none", "pending", "complete", "failed"},
            fp : Fingerprints \cup {None}, exec : Executions \cup {NoTask},
            stale : BOOLEAN]

LedgerId == [ns : {"chat", "raw", "pack-purchase", "credit-grant", "trial-credit"},
             key : RequestKeys \cup OpKeys \cup {None}, fp : Fingerprints \cup {None}]

ChatId(k, f) == [ns |-> "chat", key |-> k, fp |-> f]
OpId(ns, o) == [ns |-> ns, key |-> o, fp |-> None]

Entry == [user : Users, id : LedgerId,
          type : {"topup", "usage", "pack_purchase", "credit_grant", "trial_credit"},
          wallet : Int, credit : Int]

LedgerEntry(u, id, type, wallet, credit) ==
    [user |-> u, id |-> id, type |-> type, wallet |-> wallet, credit |-> credit]

TrialEntry(u) == LedgerEntry(u, OpId("trial-credit", None), "trial_credit", 0, TrialCredit)

TypeOK ==
    /\ balance \in [Users -> Nat]
    /\ grants \in [Users -> [Slots -> Grant]]
    /\ reservations \in [ReservationIds -> Reservation]
    /\ chat \in [Users -> [RequestKeys -> ChatRow]]
    /\ ledger \subseteq Entry
    /\ live \subseteq Executions

Init ==
    /\ balance = [u \in Users |-> 0]
    /\ grants = [u \in Users |-> [i \in Slots |-> IF i = 1 THEN TrialGrant ELSE NoGrant]]
    /\ reservations = [r \in ReservationIds |-> NoReservation]
    /\ chat = [u \in Users |-> [k \in RequestKeys |-> NoChat]]
    /\ ledger = {TrialEntry(u) : u \in Users}
    /\ live = Executions

-----------------------------------------------------------------------------
(* Drawing funds and giving them back. *)

Lesser(a, b) == IF a < b THEN a ELSE b

\* What a reservation or a settlement takes: cents of each grant, and wallet.
Credit(a) == SumFunctionOnSet(a.holds, Slots)
Total(a) == Credit(a) + a.wallet

\* Taking `amount` from the grants in expiry order and, once they are
\* exhausted, from the wallet.  There is at most one such allocation, and none
\* when the funds do not suffice.
Draw(available, cash, amount) ==
    {a \in [holds : [Slots -> 0 .. amount], wallet : 0 .. Lesser(cash, amount)] :
        /\ Total(a) = amount
        /\ \A i \in Slots :
              /\ a.holds[i] <= available[i]
              /\ a.holds[i] < available[i] =>
                    a.wallet = 0 /\ \A j \in i + 1 .. MaxGrants : a.holds[j] = 0}

\* Mutation of Spendable: only the stored status of a grant is looked at.
SpendableByStatus(gs) ==
    [i \in Slots |-> IF gs[i].status = "active" THEN gs[i].remaining ELSE 0]

\* What allocateFunds may take of each grant of a user.
Spendable(gs) ==
    [i \in Slots |-> IF gs[i].status = "active" /\ ~gs[i].past THEN gs[i].remaining ELSE 0]

\* The grants after allocateFunds took `holds` from them: those past their
\* expiry are marked, those used up become depleted.
Spend(gs, holds) ==
    [i \in Slots |->
        IF holds[i] > 0
        THEN [gs[i] EXCEPT !.remaining = @ - holds[i],
                           !.status = IF gs[i].remaining = holds[i] THEN "depleted"
                                      ELSE "active"]
        ELSE IF gs[i].status = "active" /\ gs[i].past THEN [gs[i] EXCEPT !.status = "expired"]
        ELSE gs[i]]

\* Mutation of RestoreGrants: a depleted grant is not reactivated.
RestoreAmountsOnly(gs, back) ==
    [i \in Slots |->
        IF back[i] = 0 THEN gs[i]
        ELSE [gs[i] EXCEPT !.remaining = Lesser(gs[i].original, @ + back[i]),
                           !.status = IF gs[i].past THEN "expired" ELSE @]]

\* restoreGrants: never above the original amount, and spendable again unless
\* the grant has expired meanwhile.
RestoreGrants(gs, back) ==
    [i \in Slots |->
        IF back[i] = 0 THEN gs[i]
        ELSE [gs[i] EXCEPT !.remaining = Lesser(gs[i].original, @ + back[i]),
                           !.status = IF gs[i].past THEN "expired" ELSE "active"]]

\* billedUsageEvent and reservableAmount: administrators are not charged.
Billed(u, cents) == IF u \in Admins THEN 0 ELSE cents

\* The ledger entries under an idempotency key.
Posted(u, id) == {e \in ledger : e.user = u /\ e.id = id}

Holding(r, u) == reservations[r].status = "reserved" /\ reservations[r].user = u

-----------------------------------------------------------------------------
(* Wallet transactions. *)

\* topup; a repeated key returns the first entry.
Topup(u, o, cents) ==
    /\ Posted(u, OpId("raw", o)) = {}
    /\ balance[u] + cents <= MaxBalance
    /\ balance' = [balance EXCEPT ![u] = @ + cents]
    /\ ledger' = ledger \cup {LedgerEntry(u, OpId("raw", o), "topup", cents, 0)}
    /\ UNCHANGED <<grants, reservations, chat, live>>

\* purchaseCreditPack: the new grant expires last, so it takes the first free
\* slot.  MaxGrants bounds the purchases of the model.
PurchaseCreditPack(u, o, pack) ==
    /\ \A i \in Slots : grants[u][i].key # o
    /\ balance[u] >= pack.price
    /\ \E i \in Slots :
          /\ grants[u][i].status = "none"
          /\ \A j \in 1 .. i - 1 : grants[u][j].status # "none"
          /\ grants' = [grants EXCEPT ![u][i] =
                [status |-> "active", past |-> FALSE, original |-> pack.credit,
                 remaining |-> pack.credit, key |-> o]]
    /\ balance' = [balance EXCEPT ![u] = @ - pack.price]
    /\ ledger' = ledger \cup
          {LedgerEntry(u, OpId("pack-purchase", o), "pack_purchase", -pack.price, 0),
           LedgerEntry(u, OpId("credit-grant", o), "credit_grant", 0, pack.credit)}
    /\ UNCHANGED <<reservations, chat, live>>

\* recordUsage: a usage post of the internal service, outside any chat.
RecordUsage(u, o, cost) ==
    /\ Posted(u, OpId("raw", o)) = {}
    /\ \E a \in Draw(Spendable(grants[u]), balance[u], Billed(u, cost)) :
          /\ balance' = [balance EXCEPT ![u] = @ - a.wallet]
          /\ grants' = [grants EXCEPT ![u] = Spend(@, a.holds)]
          /\ ledger' = ledger \cup
                {LedgerEntry(u, OpId("raw", o), "usage", -a.wallet, -Credit(a))}
    /\ UNCHANGED <<reservations, chat, live>>

-----------------------------------------------------------------------------
(* Usage reservations. *)

\* reserveUsage, the transaction that takes the funds.  (The two reaping
\* transactions it runs first are ReapExpired and EndExecution.)  Repeating it
\* with the id of a live reservation changes nothing.
ReserveUsage(u, r, amount, e) ==
    /\ reservations[r].status = "none"
    /\ e # NoTask => e \in live
    /\ \E a \in Draw(Spendable(grants[u]), balance[u], Billed(u, amount)) :
          /\ balance' = [balance EXCEPT ![u] = @ - a.wallet]
          /\ grants' = [grants EXCEPT ![u] = Spend(@, a.holds)]
          /\ reservations' = [reservations EXCEPT ![r] =
                [status |-> "reserved", user |-> u, exec |-> e, wallet |-> a.wallet,
                 holds |-> a.holds, leased |-> TRUE]]
    /\ UNCHANGED <<chat, ledger, live>>

\* Mutation of ReleaseUsage: the status of the reservation is not checked.
ReleaseAlways(u, r) ==
    /\ reservations[r].user = u
    /\ balance' = [balance EXCEPT ![u] = @ + reservations[r].wallet]
    /\ grants' = [grants EXCEPT ![u] = RestoreGrants(@, reservations[r].holds)]
    /\ reservations' = [reservations EXCEPT ![r].status = "released"]
    /\ UNCHANGED <<chat, ledger, live>>

\* releaseUsage and releaseReservation: the held wallet cents and grant cents
\* go back.  A reservation that is settled or released already is left alone.
ReleaseUsage(u, r) ==
    /\ Holding(r, u)
    /\ balance' = [balance EXCEPT ![u] = @ + reservations[r].wallet]
    /\ grants' = [grants EXCEPT ![u] = RestoreGrants(@, reservations[r].holds)]
    /\ reservations' = [reservations EXCEPT ![r].status = "released"]
    /\ UNCHANGED <<chat, ledger, live>>

\* Mutation of ReapedWallet: refunds are not grouped by account.
ReapedUngrouped(rs, u) ==
    SumFunctionOnSet([r \in ReservationIds |->
        IF r \in rs THEN reservations[r].wallet ELSE 0], ReservationIds)

\* What reaping the reservations `rs` returns to user u.
ReapedWallet(rs, u) ==
    SumFunctionOnSet([r \in ReservationIds |->
        IF r \in rs /\ Holding(r, u) THEN reservations[r].wallet ELSE 0], ReservationIds)

\* Mutation of ReapedHolds: only the wallet part is refunded.
ReapedNoHolds(rs, u) == [i \in Slots |-> 0]

ReapedHolds(rs, u) ==
    [i \in Slots |-> SumFunctionOnSet([r \in ReservationIds |->
        IF r \in rs /\ Holding(r, u) THEN reservations[r].holds[i] ELSE 0], ReservationIds)]

\* Mutation of Reapable: reservations paid from credit alone are overlooked.
ReapableWallet ==
    {r \in ReservationIds : /\ reservations[r].status = "reserved"
                            /\ ~reservations[r].leased
                            /\ reservations[r].wallet > 0}

\* The candidates of usageReservationReapSql.
Reapable ==
    {r \in ReservationIds : reservations[r].status = "reserved" /\ ~reservations[r].leased}

\* reapExpiredUsageReservations, run by the 60 s timer and by every
\* reserveUsage: one batch of expired reservations.  LIMIT and SKIP LOCKED make
\* any part of the candidates a possible batch.
ReapExpired ==
    /\ \E rs \in SUBSET Reapable :
          /\ rs # {}
          /\ Cardinality(rs) <= ReapBatch
          /\ reservations' = [r \in ReservationIds |->
                IF r \in rs THEN [reservations[r] EXCEPT !.status = "released"]
                ELSE reservations[r]]
          /\ balance' = [u \in Users |-> balance[u] + ReapedWallet(rs, u)]
          /\ grants' = [u \in Users |-> RestoreGrants(grants[u], ReapedHolds(rs, u))]
    /\ UNCHANGED <<chat, ledger, live>>

-----------------------------------------------------------------------------
(* Chat requests. *)

\* Mutation of Marked: the expiry is renewed, the status forgotten.
MarkedExpiryOnly(row, status) == [row EXCEPT !.stale = FALSE]

\* A row with a new status and a new expiry.
Marked(row, status) == [row EXCEPT !.status = status, !.stale = FALSE]

\* The deletion with which every claim begins.
SweepStale ==
    [u \in Users |-> [k \in RequestKeys |->
        IF chat[u][k].stale THEN NoChat ELSE chat[u][k]]]

\* claimChatRequest, when it answers 'claimed': there is no row, or a failed
\* one of the same body and execution.
ClaimChatRequest(u, k, f, e) ==
    LET row == SweepStale[u][k] IN
    /\ \/ row.status = "none"
       \/ row.status = "failed" /\ row.fp = f /\ row.exec = e
    /\ chat' = [SweepStale EXCEPT ![u][k] =
          [status |-> "pending", fp |-> f, exec |-> e, stale |-> FALSE]]
    /\ UNCHANGED <<balance, grants, reservations, ledger, live>>

\* claimChatRequest, when it answers 'pending' or 'complete': only the stale
\* rows go.
ClaimRefused(u, k, f, e) ==
    /\ SweepStale[u][k].status \in {"pending", "complete"}
    /\ SweepStale[u][k].fp = f /\ SweepStale[u][k].exec = e
    /\ chat' = SweepStale
    /\ UNCHANGED <<balance, grants, reservations, ledger, live>>

\* Mutation of FailChatRequest: without its look at the ledger.
FailUnposted(u, k, f, e) ==
    /\ chat[u][k].status = "pending" /\ chat[u][k].fp = f /\ chat[u][k].exec = e
    /\ chat' = [chat EXCEPT ![u][k] = Marked(@, "failed")]
    /\ UNCHANGED <<balance, grants, reservations, ledger, live>>

\* failChatRequest: never once the request is in the ledger.
FailChatRequest(u, k, f, e) ==
    /\ chat[u][k].status = "pending" /\ chat[u][k].fp = f /\ chat[u][k].exec = e
    /\ Posted(u, ChatId(k, f)) = {}
    /\ chat' = [chat EXCEPT ![u][k] = Marked(@, "failed")]
    /\ UNCHANGED <<balance, grants, reservations, ledger, live>>

\* The row settleUsage insists on before it looks at the money.
SettleableChat(u, k, f, e) ==
    /\ chat[u][k].fp = f
    /\ chat[u][k].exec = e
    /\ chat[u][k].status \in {"pending", "complete"}

OwnedBy(r, u, e) == reservations[r].user = u /\ reservations[r].exec = e

\* settleUsage when the request is in the ledger already: the earlier entry
\* must be for the same cost; the reservation is given back.
SettleAgain(u, r, k, f, e, cost) ==
    LET mine == Holding(r, u) IN
    /\ SettleableChat(u, k, f, e)
    /\ \E old \in Posted(u, ChatId(k, f)) : old.wallet + old.credit = -Billed(u, cost)
    /\ e # NoTask => OwnedBy(r, u, e)
    /\ balance' = [balance EXCEPT ![u] = @ + IF mine THEN reservations[r].wallet ELSE 0]
    /\ grants' = IF mine
                 THEN [grants EXCEPT ![u] = RestoreGrants(@, reservations[r].holds)]
                 ELSE grants
    /\ reservations' = IF mine THEN [reservations EXCEPT ![r].status = "released"]
                       ELSE reservations
    /\ chat' = IF chat[u][k].status = "pending"
               THEN [chat EXCEPT ![u][k] = Marked(@, "complete")]
               ELSE chat
    /\ UNCHANGED <<ledger, live>>

\* settleUsage, the first time: what was held pays, the rest of it goes back,
\* and what it does not cover is allocated like any other spending.
SettleFirst(u, r, k, f, e, cost) ==
    LET row == reservations[r]
        due == Billed(u, cost)
        covered == Lesser(due, Total(row))
    IN
    /\ SettleableChat(u, k, f, e)
    /\ Posted(u, ChatId(k, f)) = {}
    /\ e # NoTask => OwnedBy(r, u, e) /\ e \in live
    /\ chat[u][k].status = "pending"
    /\ Holding(r, u) /\ row.leased
    /\ \E paid \in Draw(row.holds, row.wallet, covered),
          extra \in Draw(Spendable(grants[u]), balance[u], due - covered) :
          /\ balance' = [balance EXCEPT ![u] = @ + row.wallet - paid.wallet - extra.wallet]
          /\ grants' = [grants EXCEPT ![u] =
                IF due > covered THEN Spend(@, extra.holds)
                ELSE RestoreGrants(@, [i \in Slots |-> row.holds[i] - paid.holds[i]])]
          /\ ledger' = ledger \cup {LedgerEntry(u, ChatId(k, f), "usage",
                -(paid.wallet + extra.wallet), -(Credit(paid) + Credit(extra)))}
    /\ reservations' = [reservations EXCEPT ![r].status = "settled"]
    /\ chat' = [chat EXCEPT ![u][k] = Marked(@, "complete")]
    /\ UNCHANGED live

SettleUsage(u, r, k, f, e, cost) ==
    SettleAgain(u, r, k, f, e, cost) \/ SettleFirst(u, r, k, f, e, cost)

-----------------------------------------------------------------------------
(* The passing of time, and the task module's decisions. *)

\* 90 s without a renewal.
LapseReservation(r) ==
    /\ reservations[r].status = "reserved" /\ reservations[r].leased
    /\ reservations' = [reservations EXCEPT ![r].leased = FALSE]
    /\ UNCHANGED <<balance, grants, chat, ledger, live>>

\* A grant reaches its expiry; grants expire in the order of their slots.
LapseGrant(u, i) ==
    /\ grants[u][i].status # "none" /\ ~grants[u][i].past
    /\ \A j \in 1 .. i - 1 : grants[u][j].past
    /\ grants' = [grants EXCEPT ![u][i].past = TRUE]
    /\ UNCHANGED <<balance, reservations, chat, ledger, live>>

\* getCreditSummary (and allocateFunds) writes down that a grant has expired.
MarkExpired(u) ==
    /\ \E i \in Slots : grants[u][i].status = "active" /\ grants[u][i].past
    /\ grants' = [grants EXCEPT ![u] = Spend(@, [i \in Slots |-> 0])]
    /\ UNCHANGED <<balance, reservations, chat, ledger, live>>

\* An hour after a claim or a failure, 24 hours after completion.
LapseChat(u, k) ==
    /\ chat[u][k].status # "none" /\ ~chat[u][k].stale
    /\ chat' = [chat EXCEPT ![u][k].stale = TRUE]
    /\ UNCHANGED <<balance, grants, reservations, ledger, live>>

\* A task execution completes, fails, is cancelled or loses its lease; its id
\* is never used again.
EndExecution(e) ==
    /\ e \in live
    /\ live' = live \ {e}
    /\ UNCHANGED <<balance, grants, reservations, chat, ledger>>

Tasks == Executions \cup {NoTask}

Next ==
    \/ \E u \in Users, o \in OpKeys, c \in TopupAmounts : Topup(u, o, c)
    \/ \E u \in Users, o \in OpKeys, p \in Packs : PurchaseCreditPack(u, o, p)
    \/ \E u \in Users, o \in OpKeys, c \in Costs : RecordUsage(u, o, c)
    \/ \E u \in Users, r \in ReservationIds, a \in ReserveAmounts, e \in Tasks :
          ReserveUsage(u, r, a, e)
    \/ \E u \in Users, r \in ReservationIds : ReleaseUsage(u, r)
    \/ ReapExpired
    \/ \E u \in Users, k \in RequestKeys, f \in Fingerprints, e \in Tasks :
          \/ ClaimChatRequest(u, k, f, e)
          \/ ClaimRefused(u, k, f, e)
          \/ FailChatRequest(u, k, f, e)
          \/ \E r \in ReservationIds, c \in Costs : SettleAgain(u, r, k, f, e, c)
          \/ \E r \in ReservationIds, c \in Costs : SettleFirst(u, r, k, f, e, c)
    \/ \E r \in ReservationIds : LapseReservation(r)
    \/ \E u \in Users, i \in Slots : LapseGrant(u, i)
    \/ \E u \in Users : MarkExpired(u)
    \/ \E u \in Users, k \in RequestKeys : LapseChat(u, k)
    \/ \E e \in Executions : EndExecution(e)

Spec == Init /\ [][Next]_vars

-----------------------------------------------------------------------------
(* What must hold. *)

HeldWallet(u) ==
    SumFunctionOnSet([r \in ReservationIds |->
        IF Holding(r, u) THEN reservations[r].wallet ELSE 0], ReservationIds)

HeldCredit(u, i) ==
    SumFunctionOnSet([r \in ReservationIds |->
        IF Holding(r, u) THEN reservations[r].holds[i] ELSE 0], ReservationIds)

PostedWallet(u) ==
    SumFunctionOnSet([e \in ledger |-> IF e.user = u THEN e.wallet ELSE 0], ledger)

PostedCredit(u) ==
    SumFunctionOnSet([e \in ledger |-> IF e.user = u THEN e.credit ELSE 0], ledger)

CreditOwned(u) ==
    SumFunctionOnSet([i \in Slots |-> grants[u][i].remaining + HeldCredit(u, i)], Slots)

\* A wallet and what reservations hold of it add up to the ledger, whatever the
\* order of settlements, releases and reaping.  This is the sum that
\* walletOpeningBalanceMigration computes at every start of the server: a
\* difference would become a spurious opening_balance entry.
WalletConserved == \A u \in Users : balance[u] + HeldWallet(u) = PostedWallet(u)

\* The same for card hours: restoreGrants loses no credit of a release, a
\* settlement below the reservation or a reaped batch, and creates none.
CreditConserved == \A u \in Users : CreditOwned(u) = PostedCredit(u)

\* Credit that came back to an unexpired grant can be spent: allocateFunds only
\* looks at active grants, so a depleted grant has to become active again.
GrantsStaySpendable ==
    \A u \in Users, i \in Slots :
        grants[u][i].remaining > 0 /\ ~grants[u][i].past => grants[u][i].status = "active"

\* A completed request has its billing record (the 500 chat_billing_inconsistent
\* of settleUsage is unreachable) and a failed one, which the client may send
\* again, has none.
ChatBillingConsistent ==
    \A u \in Users, k \in RequestKeys :
        /\ chat[u][k].status = "complete" => Posted(u, ChatId(k, chat[u][k].fp)) # {}
        /\ chat[u][k].status = "failed" => Posted(u, ChatId(k, chat[u][k].fp)) = {}

\* Once a grant is past its expiry its credit is never spent, although its
\* status is only brought up to date by the next reader.
LapsedCreditNotSpent ==
    [][\A u \in Users, i \in Slots :
          grants[u][i].past => grants'[u][i].remaining >= grants[u][i].remaining]_vars

\* Whatever happens to a request, its reservation does not hold funds for ever.
HeldFundsReturn ==
    \A r \in ReservationIds :
        reservations[r].status = "reserved" ~> reservations[r].status # "reserved"

\* Reservations, refunds, reaping, expiry and repeated settlements are invisible
\* in the funds an account owns: the tables implement a prepaid meter that
\* charges each request at most once and only what is there.
Meter == INSTANCE PrepaidMeter WITH
    funds    <- [u \in Users |-> balance[u] + HeldWallet(u) + CreditOwned(u)],
    charged  <- [u \in Users |-> {e.id : e \in {d \in ledger : d.user = u /\ d.type = "usage"}}],
    Requests <- {ChatId(k, f) : k \in RequestKeys, f \in Fingerprints}
                    \cup {OpId("raw", o) : o \in OpKeys},
    Deposits <- TopupAmounts,
    Prices   <- Costs \cup {0}
MeterPromise == Meter!Spec

=============================================================================
