------------------------------ MODULE Upgrade -------------------------------
(***************************************************************************)
(* A server of this release starts on the tables of an earlier one: the    *)
(* schema, its backfills and constraints, the opening balance of a wallet, *)
(* and the leases of tasks, while the earlier release may still write and  *)
(* servers may stop and start again at any step.  Source:                  *)
(* services/control-plane/src/database.ts, the migrations and initialize.  *)
(*                                                                         *)
(* One account, one reservation and one task stand for each table.  The    *)
(* schema is one query of many statements, hence one transaction, and its  *)
(* first ALTER TABLE locks cod_users against everyone: it is one action.   *)
(* The unique index of the addresses is in Identities.                     *)
(***************************************************************************)
EXTENDS Integers, FiniteSets, Functions

CONSTANTS
    Servers,        \* processes of this release
    OpenBalances,   \* wallets as an earlier release may have left them
    OldEntries      \* entries of the ledger that an earlier release may have written

VARIABLES
    earlier,        \* the release that made the tables: what they lack
    checks,         \* constraint -> absent, of an earlier release, or of this one
    leases,         \* cod_tasks_execution_lease_check, and the trigger of the leases
    migrated,       \* the columns and backfills of this release are there
    wallet,         \* balance_cents
    ledger,         \* cod_ledger
    held,           \* cod_usage_reservations
    work,           \* cod_tasks: status and lease
    boot            \* server -> how far initialize has come

upgradeVars == <<earlier, checks, leases, migrated, wallet, ledger, held, work, boot>>

-----------------------------------------------------------------------------
(* The tables. *)

\* ancient: no allocation of amounts, no leases; middle: no leases; strict: leases on
\* every running task.
Releases == {"ancient", "middle", "strict"}
Constraints == {"ledger_type", "request_kind", "request_status"}

WalletTypes == {"topup", "usage", "pack_purchase"}
CreditTypes == {"credit_grant", "trial_credit"}

Entry(key, type, fromWallet, fromCredit) ==
    [key |-> key, type |-> type, amount |-> fromWallet + fromCredit,
     wallet |-> fromWallet, credit |-> fromCredit]

OpeningKey == "opening-balance-v1"
ChargeKey == "charge"

ASSUME OldEntriesAssumption ==
    /\ OpenBalances \subseteq Int
    /\ IsFiniteSet(OldEntries)
    /\ \A row \in OldEntries :
          /\ row.key \notin {OpeningKey, ChargeKey} /\ row.type \in WalletTypes \cup CreditTypes
          /\ row.wallet \in Int /\ row.credit \in Int
          /\ row = Entry(row.key, row.type, row.wallet, row.credit)
          /\ row.type \in CreditTypes => row.wallet = 0

\* As a release without the two columns wrote it: they are added with 0.
Unallocated(row) == [row EXCEPT !.wallet = 0, !.credit = 0]

NotHeld == [status |-> "none", amount |-> 0, wallet |-> 0, lease |-> "none"]
OldHold == [status |-> "reserved", amount |-> 1, wallet |-> 0, lease |-> "none"]

HeldWallet == IF held.status = "reserved" THEN held.wallet ELSE 0
WalletEntries(rows) == SumFunctionOnSet([row \in rows |-> row.wallet], rows)

Running(w) == w.status = "running"
Coherent(w) == w.lease # "partial" /\ (w.lease # "none" => Running(w))
StrictlyLeased(w) == w.lease # "partial" /\ (w.lease # "none" <=> Running(w))

UpgradeInit ==
    /\ earlier \in Releases
    /\ checks = [c \in Constraints |-> IF earlier = "ancient" THEN "absent" ELSE "old"]
    /\ leases = [check |-> IF earlier = "strict" THEN "strict" ELSE "absent", trigger |-> FALSE]
    /\ migrated = FALSE
    /\ wallet \in OpenBalances
    /\ \E rows \in SUBSET OldEntries :
          ledger = IF earlier = "ancient" THEN {Unallocated(row) : row \in rows} ELSE rows
    /\ held \in {NotHeld, IF earlier = "ancient" THEN OldHold ELSE [OldHold EXCEPT !.wallet = 1]}
    /\ work \in [status : {"draft", "running", "complete"},
                 lease : IF earlier = "strict" THEN {"none", "live", "past"} ELSE {"none", "partial"}]
    /\ earlier = "strict" => StrictlyLeased(work)
    /\ boot = [s \in Servers |-> "down"]

-----------------------------------------------------------------------------
(* The schema. *)

\* ledgerAllocationBackfillMigration: an amount of which nothing is allocated is all of
\* the wallet or all of credit, by its type.
Allocated(row) ==
    IF row.wallet # 0 \/ row.credit # 0 THEN row
    ELSE IF row.type \in WalletTypes THEN [row EXCEPT !.wallet = row.amount]
    ELSE IF row.type \in CreditTypes THEN [row EXCEPT !.credit = row.amount]
    ELSE row

\* wallet_cents and lease_expires_at of reservations that have none.
Backfilled(h) ==
    IF h.status # "reserved" THEN h
    ELSE [h EXCEPT !.wallet = IF earlier = "ancient" THEN h.amount ELSE h.wallet,
                   !.lease = IF h.lease = "none" THEN "live" ELSE h.lease]

\* walletOpeningBalanceMigration: what the ledger does not explain of the wallet and
\* what is reserved of it; inserted once.
\* Mutation of OpeningOf: what is reserved of the wallet is not counted.
OpeningWithoutHolds(rows, h) == wallet - WalletEntries(rows)

OpeningOf(rows, h) ==
    wallet + (IF h.status = "reserved" THEN h.wallet ELSE 0) - WalletEntries(rows)

Opened(rows, h) ==
    IF OpeningOf(rows, h) = 0 \/ \E row \in rows : row.key = OpeningKey THEN rows
    ELSE rows \cup {Entry(OpeningKey, "opening_balance", OpeningOf(rows, h), 0)}

\* Dropped when it is of an earlier release, added and validated when it is not there.
Widened(c) == "new"

\* taskExecutionLeaseSchemaMigration: any check but this release's own is replaced; the
\* new one binds writes at once, and rows once it is validated.
LeaseSchema ==
    [check |-> IF leases.check \in {"compat", "valid"} THEN leases.check ELSE "compat",
     trigger |-> TRUE]

Schema(s) ==
    /\ boot[s] = "started"
    /\ checks' = [c \in Constraints |-> Widened(c)]
    /\ LET rows == IF migrated THEN ledger ELSE {Allocated(row) : row \in ledger}
           hold == IF migrated THEN held ELSE Backfilled(held)
       IN  ledger' = Opened(rows, hold) /\ held' = hold
    /\ leases' = LeaseSchema
    /\ migrated' = TRUE
    /\ boot' = [boot EXCEPT ![s] = "schema"]
    /\ UNCHANGED <<earlier, wallet, work>>

-----------------------------------------------------------------------------
(* The writes of a row of cod_tasks. *)

\* cod_tasks_normalize_terminal_lease.
Normalized(w) == IF leases.trigger /\ ~Running(w) THEN [w EXCEPT !.lease = "none"] ELSE w

\* The CHECK that is in force, validated or not.
Admitted(w) ==
    CASE leases.check = "absent" -> TRUE
      [] leases.check = "strict" -> StrictlyLeased(w)
      [] OTHER                   -> Coherent(w)

Write(w) == Admitted(Normalized(w)) /\ work' = Normalized(w)

\* expireTaskLeases: running, and without a lease or with a lapsed one.
LeaseExpired == Running(work) /\ work.lease # "live"
Failed == [status |-> "failed", lease |-> "none"]

\* The last transaction of initialize: leftovers of ended tasks, then leases, and the
\* check over all rows, which throws when one of them is not as it says.
Leases(s) ==
    /\ boot[s] = "schema"
    /\ work' = IF LeaseExpired THEN Failed ELSE IF ~Running(work) THEN [work EXCEPT !.lease = "none"] ELSE work
    /\ IF Coherent(work')
       THEN leases' = [leases EXCEPT !.check = "valid"] /\ boot' = [boot EXCEPT ![s] = "serving"]
       ELSE leases' = leases /\ boot' = [boot EXCEPT ![s] = "down"]
    /\ held' = IF held.lease = "past" THEN NotHeld ELSE held
    /\ wallet' = wallet + (IF held.lease = "past" THEN HeldWallet ELSE 0)
    /\ UNCHANGED <<earlier, checks, migrated, ledger>>

Start(s) ==
    /\ boot[s] = "down"
    /\ boot' = [boot EXCEPT ![s] = "started"]
    /\ UNCHANGED <<earlier, checks, leases, migrated, wallet, ledger, held, work>>

Stop(s) ==
    /\ boot[s] # "down"
    /\ boot' = [boot EXCEPT ![s] = "down"]
    /\ UNCHANGED <<earlier, checks, leases, migrated, wallet, ledger, held, work>>

-----------------------------------------------------------------------------
(* The earlier release, which goes on until it is stopped and which a failed *)
(* deployment brings back: it knows no leases unless it is the strict one.   *)

OldStart ==
    /\ ~Running(work)
    /\ Write([status |-> "running", lease |-> IF earlier = "strict" THEN "live" ELSE work.lease])
    /\ UNCHANGED <<earlier, checks, leases, migrated, wallet, ledger, held, boot>>

OldFinish ==
    /\ Running(work)
    /\ Write([status |-> "complete", lease |-> IF earlier = "strict" THEN "none" ELSE work.lease])
    /\ UNCHANGED <<earlier, checks, leases, migrated, wallet, ledger, held, boot>>

\* It gives an account money without an entry, as early releases did.
OldGift ==
    /\ ~migrated /\ wallet \in OpenBalances
    /\ wallet' = wallet + 1
    /\ UNCHANGED <<earlier, checks, leases, migrated, ledger, held, work, boot>>

-----------------------------------------------------------------------------
(* This release at work. *)

ClaimLeased(s) ==
    /\ boot[s] = "serving" /\ ~Running(work)
    /\ Write([status |-> "running", lease |-> "live"])
    /\ UNCHANGED <<earlier, checks, leases, migrated, wallet, ledger, held, boot>>

LeaseLapses ==
    /\ work.lease = "live" \/ held.lease = "live"
    /\ work' = [work EXCEPT !.lease = IF @ = "live" THEN "past" ELSE @]
    /\ held' = [held EXCEPT !.lease = IF @ = "live" THEN "past" ELSE @]
    /\ UNCHANGED <<earlier, checks, leases, migrated, wallet, ledger, boot>>

Reserve(s) ==
    /\ boot[s] = "serving" /\ held = NotHeld /\ wallet > 0
    /\ held' = [status |-> "reserved", amount |-> 1, wallet |-> 1, lease |-> "live"]
    /\ wallet' = wallet - 1
    /\ UNCHANGED <<earlier, checks, leases, migrated, ledger, work, boot>>

SettleHeld(s) ==
    /\ boot[s] = "serving" /\ held.status = "reserved"
    /\ \A row \in ledger : row.key # ChargeKey
    /\ ledger' = ledger \cup {Entry(ChargeKey, "usage", -held.wallet, 0)}
    /\ held' = NotHeld
    /\ UNCHANGED <<earlier, checks, leases, migrated, wallet, work, boot>>

UpgradeNext ==
    \/ \E s \in Servers :
          Start(s) \/ Schema(s) \/ Leases(s) \/ Stop(s) \/ ClaimLeased(s) \/ Reserve(s) \/ SettleHeld(s)
    \/ OldStart \/ OldFinish \/ OldGift \/ LeaseLapses

UpgradeSpec == UpgradeInit /\ [][UpgradeNext]_upgradeVars

-----------------------------------------------------------------------------
(* From the schema on, the entries of the ledger explain the wallet and what *)
(* is reserved of it, every amount is allocated, and credit never counts as  *)
(* money: whatever the earlier release had left, however often servers start.*)
LedgerExplains ==
    migrated =>
        /\ wallet + HeldWallet = WalletEntries(ledger)
        /\ \A row \in ledger :
              /\ row.amount = row.wallet + row.credit
              /\ row.type \in CreditTypes => row.wallet = 0
        /\ Cardinality({row \in ledger : row.key = OpeningKey}) <= 1

(* A validated check is true of the tasks, the earlier release's writes      *)
(* included, and none of these writes is refused: deploy/README.md says that *)
(* the constraints remain compatible with them.                              *)
EarlierReleaseWrites ==
    /\ leases.check = "valid" => Coherent(work)
    /\ migrated /\ leases.trigger /\ Coherent(work) =>
          LET running == [work EXCEPT !.status = "running"]
              ended == [work EXCEPT !.status = "complete"]
          IN  Admitted(Normalized(running)) /\ Admitted(Normalized(ended))

(* Whoever serves does so on the tables of this release.                     *)
ServesUpgraded ==
    \A s \in Servers : boot[s] = "serving" =>
        /\ migrated /\ leases.check = "valid" /\ leases.trigger
        /\ \A c \in Constraints : checks[c] = "new"

\* An upgrade loses and invents no money and no claim.
UpgradeSafe == LedgerExplains /\ EarlierReleaseWrites /\ ServesUpgraded

=============================================================================
