# TLA+ models of COD

COD is a coding-agent platform: a control plane (`services/control-plane`), a
web, a desktop and a mobile client (`apps/*`), and shared contracts
(`packages/contracts`). This directory holds TLA+ models of its core, TLC
configurations that check them on small instances, and TLAPS proofs of their
main properties for every value of the constants. The models follow the source;
`PROJECT.json` maps each definition to the lines it stands for.

    tlc -config Gateway.cfg MCChatGateway.tla     # one run
    tlapm AppsProofs.tla                          # one proof module

## 1. Inventory

Paths are relative to `src/services/control-plane/src/` unless they start with
`apps/` or `scripts/`.

| Component | State | Operations | Hard because |
|---|---|---|---|
| Wallets, credit grants, reservations, ledger (`database.ts`) | `cod_users.balance_cents`, `cod_credit_grants`, `cod_usage_reservations` with 90 s leases, the append-only `cod_ledger` | top up, buy a credit pack, reserve, renew, release, settle, record usage, reap every 60 s | refunds from four places race for one reservation; expiry of grants and leases; reply of a commit lost |
| Chat requests (`database.ts`, `server.ts`) | `cod_chat_requests`: pending, complete, failed | claim, fail, complete together with the settlement | idempotency across retries, crashes and the expiry of cached answers |
| Chat gateway (`server.ts`, `gateway.ts`) | requests in flight, `activeChats`, keepalive timers, the cached price list | claim, reserve, call the provider, fall back, settle, answer; the error paths | every await is a point where a disconnect, a cancellation, a lapsed lease or a crash can come; prices change between estimate and charge |
| Task leases (`database.ts`) | `cod_tasks`: status, version, execution, claim and lease hashes, lease expiry | create, claim, renew, update, cancel, expire | stale executions, replayed claims, version races |
| Devices (`database.ts`) | last heartbeat | register, heartbeat | a claim needs a device seen in the last 45 s |
| Event feed (`database.ts`) | `cod_events` by cursor | append, poll | cursors are drawn before they are committed |
| Payment orders (`payments.ts`, `database.ts`) | `cod_payment_orders` | create, verified callback, complete | duplicated and crossed callbacks |
| Registration (`registration-verification.ts`, `database.ts`) | challenges, codes, rate limits | start, send, verify, complete | two channels, retries, locks, expiry, delivery failures |
| Accounts and OIDC (`database.ts`, `oidc.ts`) | `cod_users`, its unique index of addresses, login records, one-time tickets, the copy of the signing keys | register, ensure, link, start, complete, exchange | two ways to make an account; servers that build the index while others write; one-time use |
| Database upgrade (`database.ts`) | every table | the schema query, backfills, opening balance, task leases | the earlier release still writes; servers stop and start at any step |
| Compute requests v1 (`compute-market.ts`, `database.ts`) | request, quote, version | create, quote, decide, advance | everyone acts on what they last read |
| Compute market v2 (`compute-market-v2/`) | orders, card-hour accounts, hosting applications, devices, all in memory | order, quote, accept, settle, cancel, administer | idempotency maps beside the state they protect |
| Project task board (`project-tasks.ts`) | status, version, claiming thread | create, transition, comment | optimistic versions |
| Administrator's list (`apps/web/src/App.tsx`) | filter, pages, details, generation | load, page, select, update | several calls in flight while filters change |
| Web window (`apps/web/src`) | session token, lists, run, task, project, dialog | sign in and out, run, cancel, permit, open a project, register | answers that arrive after what they were for has gone |
| Desktop agent process (`apps/desktop/src`) | launch generation, process, proxy, ownership record | launch, invalidate, clean up | crashes between start and record; reused process ids |
| Desktop pet, proxies, diff and file list (`apps/desktop/src`) | process, proxy, queue, limits | launch, stop, forward, list | starts and stops that are not serialized; files that go away |
| Mobile session store (`apps/mobile/src`) | one secure record, a marker, a plaintext token of an older version | load, migrate, save, clear | storage that fails half-way, crashes |
| Dependency gate (`scripts/check-npm-audit.mjs`) | none | one pass over its inputs | a release passes exactly what was reviewed |
| Bots, catalogs, directories, card-hour arithmetic, HTTP layer, configuration, contracts, deployment | view state or none | | no protocol of their own |

**Interaction.** Clients call the gateway over HTTP. A handler works on the
database through transactions (`PostgresDatabase.transaction`), which are the
only synchronization between handlers, the 60 s reaper and other processes.
Inside one process the cancel route reaches handlers through `activeChats` and
their abort controllers. A task's lease decides whether a request of the task
may reserve and settle; the request's own keepalives renew both leases every
30 s. Wallets are filled by payment callbacks and emptied by packs and usage. A
window holds a session token, follows tasks and drives the desktop's agent over
a loopback proxy that the desktop's main process opens for it.

**What makes each correct.** Billing: money is neither created nor lost, each
request is charged at most once, cached answers and ledger agree, held funds
come back. Gateway: single flight per request, no answer without a bill, no
bill without a kept answer, failed requests can be repeated, a cancelled task
has no running request. Tasks: one live execution, no result from a stale one.
Events: updates are followed in order. Payments: one credit per provider
payment. Registration and accounts: an account only with both channels
verified, one per address and telephone. Logins: one session, of who signed in.
Records that report the work of others: they advance only on what was read,
quoted or reviewed. Compute orders: charged once, what was agreed to. Windows:
what is shown belongs to the session and the filter it is shown under. Desktop:
a window talks to the agent it asked for, and no process is left behind. The
hazards behind these, each at its line, are in `PROJECT.json`.

## 2. Modules

| Module | What it is |
|---|---|
| `Billing` | The money tables and every transaction over them, one action each. |
| `PrepaidMeter` | The abstract promise: an account owns funds, a request is charged once. |
| `ChatGateway` | The chat handler, the cancel route, faults and the clock, on top of `Billing`. |
| `ModelGateway` | What one chat asks of the provider: prices, attempts, the other model, the charge. |
| `TaskLease` | One task: its row, its lease, its device, and every transaction over them. |
| `SingleExecution` | The abstract promise: executions of a task run one at a time. |
| `TaskClients` | The web client, the network and the server's task routes, on top of `TaskLease`. |
| `EventFeed` | Writers of `cod_events` and a follower. |
| `PaymentOrders` | Payment orders of an account and the provider's callbacks. |
| `Registration` | Registration with a code by e-mail and one by telephone. |
| `Identities`, `OidcLogin` | Accounts and the index of their addresses; logins through the provider, on top of them. |
| `Upgrade` | A server of this release starts on the tables of an earlier one. |
| `ComputeRequests`, `RequestDesk` | Compute requests v1; the administrator's list over them. |
| `ComputeOrders`, `Hosting` | Compute market v2: orders with their ledger; hosting applications and devices. |
| `ProjectTasks`, `ReviewedWork` | The task board; the board, compute requests and hosting side by side. |
| `WorkspaceSession`, `LoginForm`, `AgentRun`, `ProjectWorkspace` | The window: who is signed in, the registration dialog, a run with its permissions, the project that is shown. |
| `GooseSidecar`, `DesktopPet`, `AcpProxy` | The desktop's agent process, its pet, and the proxy between window and agent. |
| `GitDiff`, `WorkspaceTree` | What the desktop shows of the files of a project, within limits; `ProjectFiles`: both. |
| `MobileSession` | The session of the mobile application over failing storage. |
| `AuditGate` | The dependency gate. |
| `MCBilling`, `MCChatGateway`, `MCTaskClients` | Constants and symmetries for TLC. |
| `WindowWork` | `AgentRun`, `ProjectWorkspace` and `AcpProxy` together. |
| `MCStores`, `MCApps`, `MCLive` | Parts that share no state, checked side by side. |
| `SumTheorems` | What `SumFunctionOnSet` of the community modules does, proved. |
| `BillingProofs`, `BillingMoneyProofs` | Types, cached answers, spendable credit; conservation and the refinement of `PrepaidMeter`. |
| `ChatGatewayProofs` | The gateway implements `Billing`; its own invariants and action properties. |
| `TaskClientsProofs` | The row of a task; the clients over it. |
| `StoresProofs` | Payments, the three records of others' work, the price of an answer, upgrades, a window's work. |
| `GateAndFilesProofs` | The dependency gate; the files and changes of a project. |
| `AppsProofs` | Registration and its dialog, accounts, logins, the desktop's agent, compute orders, the event feed, sessions. |

`MCStores`, `MCApps` and `MCLive` choose in the initial state which `part`
moves; the others stay at their initial state, one of no interest. The state
space is the sum of those of the parts, and no behaviour is lost, since the
parts share no variable: what one does is possible whatever the others do. The
`VIEW Moving` leaves out the variables that stay.

### Money

**Billing.** `balance`, `grants`, `reservations`, `chat` and `ledger` are the
five tables; `live` is the set of task executions whose lease is live, all that
billing asks of a task. One action is one committed transaction: its row locks
and advisory locks make it atomic, and a transaction that throws is rolled back
and is a stuttering step. `ReserveUsage`, `ReleaseUsage`, `SettleFirst`,
`SettleAgain` (the request is in the ledger already), `ClaimChatRequest`,
`ClaimRefused`, `FailChatRequest`, `Topup`, `PurchaseCreditPack`, `RecordUsage`
and `ReapExpired` carry the names of the code. `Draw` is `allocateFunds`: the
one way to take an amount from the grants in expiry order and then from the
wallet, or none. Time is a flag per lease, grant and row that says that its
expiry has passed, set by `LapseReservation`, `LapseGrant` and `LapseChat`.
Callers are unrestricted: the transactions come in any order, from anyone.

**PrepaidMeter.** `funds[u]` and the set of charged requests. `Billing`
implements it with `funds` = wallet, grants and what reservations hold of both:
reserving, releasing, reaping and expiring are stuttering steps.

**ChatGateway.** `job[h]` is a request in flight: the step it is at, what it
has drawn so far, and whether its controller was aborted. Each of its steps is
the code between two awaits: `Claim`, `Reserve`, `Provider`, `Settle`, and on
the error paths `FailClaim` and `Refund` in the order of the code (after a
provider's error the refund comes first, in the catch block the claim).
`Disconnect` and `RenewalFails` abort it. `CancelTask`, `StopChats` and
`ReleaseStopped` are the cancel route. `Faults` selects what may go wrong
outside the program: a transaction commits and its reply is lost ("lost"), a
call of an error path fails ("throw"), the process ends and is started again
with the tables as they are ("crash").

**ModelGateway.** `offer` is what the provider's catalogue says now, `catalog`
the copy that is kept for five minutes, `chat` one request: the models it may
use, its reservation, the attempt it is at and what it has been answered. The
estimate covers both models; `Charge` uses the price that was read when the
model was chosen, whatever has changed since (`Reprice`, `Outdate`).

**PaymentOrders.** `callback[c]` is a transaction of several statements,
interleaved with the others; `Deliver` repeats an event until it is
acknowledged. `RollBack` breaks a transaction, or loses the reply of one that
committed. The unique indexes are left out, so the locks and checks alone must
prevent a second credit.

### Tasks

**TaskLease.** `task` is a row of `cod_tasks`; `fate` is the history of its
executions as the audit trail has it; `deviceSeen` says that the device sent a
heartbeat in the last 45 s. `Expire` (`expireTaskLeases`), `Claim` and
`SameClaim` (`claimTask`), `Update` (`updateTask`), `RenewTaskExecution` and
`Heartbeat` are transactions that anyone may call with any version and any
credential; `Lapse` lets the 90 s of a lease pass. `result` is the execution
that reported it, which is what lets `ResultIsCurrent` speak of answers of
earlier runs.

**TaskClients.** `client[c]` is what a window remembers: the lease and the
pending claim of `api.ts`, the task as the view shows it, and the run of
`App.tsx`. Its three flows (`run`, `sync`, `cancel`) each await one request,
`call[c][f]`; between a request and its answer everything else can happen.
`Lose` loses a request or its answer or leaves it on its way (`late`), `Crash`
is a crash, a reload or a logout. On the server each route first reaps in a
transaction of its own (`Reaping`) and then runs its body (`Handle`).

**SingleExecution.** `fate[e]`: each execution begins once, when no other is
open, and ends once; only while its lease is live can it end well.

**EventFeed.** `LockTask`, `AppendEvent` and `CommitEvent` are one transaction
of a writer; `InsertTask` and what follows are a creation, whose event is a
statement of its own. `Abandon` is a failure or a crash. `eventsAfter` is one
poll of the follower.

### Accounts and sessions

**Registration.** `challenge[e]` is the last row of an address; earlier ones are
closed and answer with an error. `Codes(e)` sends, delivers, loses, verifies and
resends codes of both channels; `wrong` and `reached` are history. A code that a
newer one has replaced is a wrong code, since its hash covers the row's id.

**Identities, OidcLogin.** `Identities` has the rows of `cod_users`, how each
got its id, and the five steps in which a server builds the unique index, each
of which may be its last (`Stop`). `OidcLogin` adds the logins a server
remembers, the calls of `/callback` and `/exchange`, and its copy of the
signing keys; the provider honours a code once, for the verifier it was made
for, which is what `oidc.ts` relies on.

**Upgrade.** One account, one reservation and one task stand for each table;
`earlier` says what the release lacked that made them, and that release goes on
writing (`OldStart`, `OldFinish`, `OldGift`) until the schema is there. `Schema`
is one query, hence one transaction; `Leases` is the transaction after it, which
throws when a row does not satisfy the new check.

**WorkspaceSession.** A token stands for a session. `reads` are requests on
their way, each with the token it was sent with and whether the generation it
belongs to is current; `Render` replaces the effects of the last render.

**LoginForm.** `form` is what is typed and shown, `requests` what is on its
way; giving one up aborts it, while the server may have it already. The server
is the rows its answers depend on; its own side is `Registration`.

**MobileSession.** `sessionPersistenceQueue` runs one operation at a time, each
step is the code between two calls of the native bridge, and any access to the
secure store or to localStorage may fail. `Restart` is a crash at any step.
`page` has the token shown, that of the login under way, those of logins whose
workspace loads (`arriving`, taken back by `RollBack` when they are superseded) and
that of the session found at the start (`resuming`). The history `crossed` says that
a clearing which left another token alone has removed a marker it had found.

### Work of others, and the market

**ProjectTasks, ComputeRequests, Hosting** (side by side in `ReviewedWork`). Each
keeps beside its row what an actor has read (`notes`, `seen`, `sent`) and, as
history, on what its decisive step was based; requests may come late and may be
repeated with their key.

**RequestDesk** puts `AdminComputeRequests` of `App.tsx` on top of
`ComputeRequests`: list, page and detail calls are in flight together, `live`
while their generation is current and their effect was not cleaned up.

**ComputeOrders.** Each handler runs to its end without an await and is one
step. Operators may quote at any price and move an order along
`orderTransitions`; `agreed` is history: what the owner saw or accepted.

### The window and the desktop

**AgentRun** is `handleSend` with its cancellations and the permission dialog:
`runs[r]` is a run at one of its awaits, `asks` the permissions agents wait
for, `resolver` the one an answer goes to. A run goes on after its answer, until the
balance is read again (`refresh`), and can be cancelled for as long; the report
of a chat (`shell`) waits for the claim beside it and asks for neither. **ProjectWorkspace** has the
loads of a project (files, changes, commit) with their two generation counters,
and the list of approved directories over restarts. **GooseSidecar** has the
launches and stops of `main.ts` between two awaits, the process, its proxy and
the record on disk; `AppEnds` is a crash or an exit at any step, and the next
start cleans up. `OtherProgram` reuses a process id. **DesktopPet** has the same
for the pet, whose launches and stops are not serialized. **AcpProxy** is one
proxy with its queue, its client and its session policy. **GitDiff** and
**WorkspaceTree** list changes and files within their limits while files go away.
**AuditGate** is one execution of the gate over what it may find.

### Abstractions and assumptions

- A user stands for a (tenant, user) pair. `ensurePrincipal` has run for every
  user before anything else, as `server.ts` does on each request.
- Idempotency keys of top-ups, packs, usage posts and chat requests are
  disjoint, except that top-ups and usage posts share a name space. Equality of
  a repeated operation's parameters is its cost; a repetition that differs in
  other parameters throws, which is a stutter.
- A task execution is a task of its own in `ChatGateway`. In the code the cancel
  route also reaches requests of earlier executions of the task; they have lost
  their lease and cannot reserve or settle.
- Every claim deletes the expired chat rows, at most 1000; the model has fewer.
- A chat claim (one hour) outlives the handler that made it: two attempts of
  120 s at each of two models, `gateway.ts` 266-291. `Background` therefore
  lets a row lapse only when no handler works on its request. `Billing` alone
  does not assume this.
- Grants expire in the order of their slots. A pack bought later expires later,
  because all packs have the same validity and the trial grant the shortest.
- A claim id and a lease token are drawn together and compared together: one
  token stands for both. Renewing a lease that is live changes nothing.
- Rows that are active without a lease stem from before the lease migration;
  `initialize()` reaps them before requests are served (`Upgrade` has them).
- A client in chat mode uses the task as a shell: it claims and reports, but its
  model requests carry no task, so it neither renews the lease nor stops when it
  is lost. The clients of this repository never send `waiting`; `TaskLease`
  allows it, `TaskClients` does not send it.
- The heartbeat before a run is part of `StartRun`, the list that the client
  reads after a failed cancellation is the next synchronization, and marking a
  task complete by hand is left out.
- Serialization failures and deadlock victims are rolled back and stutter.
- A login is watched while nobody else registers: an account of the identity
  provider may later get a password through `registerIdentity`'s legacy path.
- `WorkspaceSession` leaves out the poll of a payment order, `AgentRun` model
  choice and comparisons, `GooseSidecar` the developer's override
  `COD_GOOSE_ACP_URL`, `Registration` the hourly limits, `ComputeOrders` the
  reservations of inventory, which no order looks at.

## 3. Runs

| Run | Question | Bounds |
|---|---|---|
| `billing` | the safety of the money tables, and do they implement `PrepaidMeter`? | 1 user, 1 key, 2 bodies, 1 execution, 2 reservations, 2 grants, costs 1 and 3 around a reservation of 2, one pack |
| `gateway` | the safety of handlers and cancellation | 2 handlers, 1 key, a body of a task and one of none, 3 reservations, 1 grant, lost replies |
| `gateway_live` | do requests and cancellations end, do held funds come back? | 2 handlers, 2 reservations, a body of a task, cost 3, all faults |
| `gateway_pending`, `gateway_repeat` | expected violations, see below | no faults; 1 handler in the second |
| `task_clients` | do claims, cancellations and reports reach what they were meant for? can two windows hold one execution? | 2 windows in code mode, 2 tokens, 1 fault; one of them alone with 2 executions and 1 cancellation, or both in a race for one execution |
| `task_clients_live` | do stale agents stop and open executions end? is what was paid credited? | 1 code client, 2 executions, 1 token, 1 fault, 1 cancellation; 1 callback at a time, 2 orders, 2 events, 1 loss |
| `stores` | parts of the control plane, the window and the desktop without common state | see below |
| `apps` | accounts, feed, market, desk, agent process, sessions and forms | see below |
| `pet_logout`, `desk_stuck`, `mobile_logout` | expected violations, see below | 1 launch; 2 requests, 2 filters; 2 tokens, 2 waiting operations |

The bounds make the interesting cases happen. *Money:* the reservation lies
between the two costs, so a settlement refunds or draws more; the trial credit is
used up by one reservation, so grants are depleted and restored and the wallet
is used; two reservations meet in one reaper batch; three reservation ids let a
request be retried while another runs; two bodies under one key collide. More
users or keys only add independent copies: no transaction touches two users
except the reaper, which the part `accounts` of `apps` covers with a user and an
administrator. *Tasks:* two executions let a late message of the first meet the
second, and one fault is enough for a lost answer, a late request or a crash; in
the race of `task_clients` a fault and the lapse of the lease make each window
claim while the other holds or has lost it (the device stays seen, nothing is
cancelled, and a window synchronizes between its runs: the scene without these
limits has one window). `stores` has 3 executions, 2 tokens and 7 versions
for the routes under unrestricted callers, which is more than the clients get.
*Stores:* two orders, keys, payments, events and callbacks, so that callbacks are
repeated, crossed and interleaved; two board threads; two requests with two forms
and quotes; two operators with two drafts; two models whose prices change; two
prompts (one of a code run) in two sessions over two project roots; two clients
of a proxy with one queued frame; two servers in an upgrade; four packages and
three advisories; trees of six entries within a limit of six.
*Apps:* two addresses and one telephone, so that it is contended; two failures
and two sends, each limit of the code scaled down; two writers and two tasks of
the feed with four cursors and answers of two events; two market orders with two
keys; two filters; two launches and a stop with two process ids that are reused;
two mobile tokens; two people who log in at two servers with two key sets; a
dialog with one address and two telephones.

`gateway` uses the symmetry of handlers and of reservation ids, `task_clients`
that of executions and tokens; these check safety only.
Each property comes with a mutation of the code ("Mutation of ..." in the
modules) that breaks it. `CHECK_DEADLOCK FALSE` because the bounds end every
behaviour: reservations, keys, grants and versions are used up.

**Properties.** *Money.* `WalletConserved` and `CreditConserved`: what an account
owns plus what is held equals the ledger. `GrantsStaySpendable`: restored credit
can be spent; `LapsedCreditNotSpent`: lapsed credit cannot.
`ChatBillingConsistent`: completed requests are billed, failed ones are not, so
the 500 `chat_billing_inconsistent` of `settleUsage` is unreachable.
`MeterPromise`: refinement of `PrepaidMeter`. `HeldFundsReturn`: held funds come
back. `PaidIsCaptured`: one credit per captured payment, for the order it was
made for; `CapturesSettle`: each such payment is credited in the end.
`PricedAsListed`: an answer costs what a price list asked for its model.

*Gateway.* `SingleFlight`, `AnsweredIsBilled`, `PaidAnswerKept`,
`ChargeCompletes`, `FailureFreesRetry`: its exactly-once promise, seen from the
client. `HeldHasOwner`: while error paths work, nothing is left to the reaper.
`CancelStopsTask`: once the cancel route has answered, whatever still waits for
the provider is aborted and holds nothing, at whichever step the route found it. `RequestsEnd`: requests and cancellations end.

*Tasks.* `ResultIsCurrent`: no answer of an earlier run is shown as the present
one's. `ExecutionPromise`: refinement of `SingleExecution`. `ClaimBeginsOnce`: a
claim sent again, or arriving after it was given up, begins no second execution.
`DistinctHolders`: no two windows believe in the same execution.
`CancelHitsWhatWasSeen` and `ResultIsOwn`: a cancellation or a report that
arrives late does not reach the next run. `StaleRunStops`: an agent stops
working for an execution that has ended. `OpenExecutionEnds`: an execution that
nobody works on ends.

*Others.* `AdvancedAsRead`: board tasks, requests and applications reach their
ends through what was read. `WorkSafe`: an answer, a permission and a project
belong to the run, the session and the root they are shown for, and no task is
complete whose run was stopped before its answer had come. `UpgradeSafe`: an
upgrade loses no money and no claim, and whoever serves does so on upgraded
tables. `GateIsExact`: the gate passes what was reviewed and nothing else.
`FilesSafe`: what is left out of a diff or a list is said to be. `RegistrationSafe`:
accounts are proven, and a repeated completion finds its account. `AccountsSafe`:
one account per address, one session per login. `UpdatesInOrder`: a follower of
the feed learns a task's updates in their order. `ChargedAsAgreed`: an order is
charged once, the sum agreed to. `ListIsOfFilter`: a list is of the filter that
is set. `SidecarSafe`: one agent, a current address, and none left behind.
`LogoutHolds`, `SessionSafe`, `FormSafe`: no session comes back (for the
mobile application unless the crossing of finding 5 happened), nothing of
one is shown under another, and no late answer confuses the dialog.

**Fairness.** The reaper's timer (`startUsageReservationReaper`) and the lapse of
leases that nobody renews. `FairGateway` adds weak fairness of each handler and
of the cancel route: an awaited call returns, because provider calls have
timeouts and database calls fail or finish. `LiveSpec` of `MCLive`: requests are
served and answers read, a window synchronizes every 15 s (a code run also when
the window is hidden), a cancelled run notices, and the 90 s pass for a lease
that nobody works under; the provider repeats an event until it is acknowledged,
which is strong fairness of `Deliver`, and its callback's transaction goes on.
`LiveDeskSpec`: a call is answered or fails. None is assumed of users, of agents,
of the provider's answers, or of faults not happening.

**Findings.**

1. `gateway_pending`: `server.ts` 910 claims the request and then checks the
   connection, before the `try` whose catch block fails the claim. A client
   that disconnects in between leaves a pending row; its repetitions get
   "An identical chat request is still in progress" for an hour.
2. `gateway_repeat`: a request whose cached answer has expired is claimed again
   although it is in the ledger. If it fails (no funds, provider down, another
   price), `failChatRequest` sees the ledger entry and leaves the row pending,
   so it cannot be retried, unlike what the test at `server.test.ts` 589 says
   of failed requests. `FailureFreesRetry` states what does hold: every failed
   request that was not paid before can be repeated.
3. `desk_stuck`: typing into the search of the administrator's list and taking
   it back within 300 ms (`App.tsx` 885-890) discards the answer of the load
   under way, and no new one starts: the list is loading for ever.
4. `pet_logout`: `launchDesktopPet` (`main.ts` 353) awaits checks before it sets
   what a sign-out would stop, so a launch under way starts the pet with the
   token of the ended session; `docs/DESKTOP_PET_INTEGRATION.md` 12 says that
   signing out stops it.
5. `mobile_logout`: `clearMobileSession` writes the marker of an unfinished logout
   before it clears, and removes it when the secure store holds another token than
   the expected one (`api.ts` 408), also if the marker was there before. A login is
   saved and its dialog closed while the workspace loads; a second login is shown,
   and its logout fails in the secure store, so the marker is all that says of it;
   then the first login is taken back (`App.tsx` 1540), finds the second token and
   removes the marker. The next start resumes the second session, unlike what the
   test at `App.test.tsx` 289 says of a failed deletion. `LogoutHolds` states what
   does hold: nothing else can undo a logout.

**Observed while modelling**, and not run as properties. None is contradicted by a
property that holds; where one concerns a modelled part, the model behaves so.

- *Feed:* a follower that has read everything may still show a task as it was: an
  event can become visible behind its cursor, a creation's event can come after
  an update's, or never (`sync.test.ts` 10 has the sequential case).
- *Window:* a chat stopped after its answer, while the balance is read again, is
  reported complete if the cancellation is refused or lost: its report does not ask
  (`App.tsx` 1875); a refused lease stops the run and leaves its permission
  question on the screen (1437), where an answer reaches nobody;
  `cancellingTaskId` is not reset by `clearAuthenticatedUi` (`App.tsx`
  1113); a second permission request overwrites `permissionResolver` (1853);
  `validateCodeRun` takes the text of a git failure as a changed diff (1859); closing
  the dialog while the workspace loads leaves lists on a signed-out window (1351); a
  login answered between `setOverlay` and the render can show the other account's
  lists. `loadTurnstile` waits for ever after a script that did not load (319).
- *Dialog:* changing the telephone leads to a refusal, since the challenge is bound
  to the first, and the address cannot start again until that challenge expires;
  direct registration ignores the idempotency key, so a retry is told 409.
- *Accounts:* `ensurePrincipal` for a Feishu user fails on the unique index when an
  account of the identity provider has the address.
- *Market:* the replay of a key in `decideQuote` is dead code; a quote discounted to
  0 can never be settled; an operator can move `pending_settlement` to `settled`
  without a charge; the key of one order's cancellation replays for another
  (`orders.ts` 142); an order's price is not tied to what was shown (63); an
  administrator's draft can be submitted without `validateHostingDraft`.
- *Model list:* `getFallbackModel` ignores `callable`.
- *Desktop:* the record is cleared without being awaited in `clearSpawnedSidecar`; an
  unreadable directory fails the whole list, deeper entries are cut without a
  marker, and an empty directory at the limit sets one though nothing is missing.
- *Deployment:* a failure inside `write_revision` of `deploy-server.sh` ends without
  rollback, and running it again says "already active".

## 4. Proofs

TLAPS checks these for all values of the constants that satisfy the `ASSUME`s of
the modules: any users, keys, bodies, amounts, reservations, executions, tokens,
events, orders, launches, and so on, and any bounds.

| Theorem | Statement |
|---|---|
| `TypeCorrect`, `CachedAnswersAreBilled` | `Spec => []TypeOK` (no balance, grant or hold is ever negative), `[]ChatBillingConsistent` |
| `GivenBackIsSpendable`, `LapsedIsNotSpent` | `Spec => []GrantsStaySpendable`, `LapsedCreditNotSpent` |
| `WalletConservation`, `CreditConservation` | `Spec => []WalletConserved`, `[]CreditConserved` |
| `BillingImplementsMeter` | `Spec => MeterPromise` |
| `GatewayImplementsBilling`, `GatewayConservesMoney` | `GatewaySpec => Spec`, and its money is conserved |
| `OneHandlerPerRequest`, `AnswersAreBilledOnce`, `CancellationReachesAll` | `GatewaySpec => []` of `SingleFlight`, `AnsweredIsBilled`, `CancelStopsTask` |
| `PaidAnswersStay`, `ChargesComplete` | `GatewaySpec =>` `PaidAnswerKept`, `ChargeCompletes` |
| `FailuresFreeTheirClaims`, `HeldFundsHaveOwner` | the same of `FailureFreesRetry`, `HeldHasOwner`, if only replies are lost |
| `TaskTypeCorrect`, `OneExecution`, `CurrentResult` | `TaskSpec => []` of `TaskTypeOK`, `OneOpenExecution`, `ResultIsCurrent` |
| `TaskImplementsSingleExecution` | `TaskSpec => ExecutionPromise` |
| `ClientsImplementTaskLease` | the clients perform only transactions of `TaskLease` |
| `ClientsKeepThePromise`, `ClientsSeeCurrentResults` | hence `ExecutionPromise` and `ResultIsCurrent` for them |
| `ClaimsBeginOnce`, `HoldersAreDistinct`, `ResultsAreOwn`, `CancellationsHitWhatWasSeen` | `ClaimBeginsOnce`, `DistinctHolders`, `ResultIsOwn`, `CancelHitsWhatWasSeen` |
| `PaymentsAreCaptured` | `PaymentSpec => []PaidIsCaptured` |
| `WorkAdvancesAsRead`, `TermsBeginOnce` | `ReviewedSpec => []AdvancedAsRead`; the term of a hosting contract begins once |
| `ListsAreOfTheirFilter`, `DeskRunsRequests` | `DeskSpec => []ListIsOfFilter`, `DeskSpec => RequestsSpec` |
| `AnswersArePricedAsListed` | `ModelSpec => []PricedAsListed` |
| `UpgradesAreSafe` | `UpgradeSpec => []UpgradeSafe` |
| `RegistrationIsSafe` | `RegistrationSafe` |
| `AddressesHaveOneAccount`, `LoginsAreOwn` | `OneAccountPerAddress`, `AccountsSafe` |
| `UpdatesAreFollowedInOrder` | `FeedSpec => []UpdatesInOrder` |
| `OrdersAreChargedAsAgreed` | `ChargedAsAgreed` |
| `SidecarIsSafe` | `SidecarSafe` |
| `LogoutsHold` | `MobileSpec => []LogoutHolds` |
| `SessionsAreSafe` | `SessionSpec => []SessionSafe` |
| `FormsAreSafe` | `FormSpec => []FormSafe` |
| `RunsAreSafe`, `WorkspaceIsSafe`, `ProxyIsSafe` | `RunSpec => []RunSafe`, `ProjectSpec => []WorkspaceSafe`, `ProxySpec => []ProxySafe` |
| `TheGateIsExact` | `AuditSpec => []GateIsExact` |
| `DiffIsComplete`, `TreeIsComplete`, `FilesAreSafe` | `DiffSpec => []DiffComplete`, `TreeSpec => []TreeComplete`, and so `FilesSpec => []FilesSafe` |
| `WorkIsSafe` | `WindowSpec => []WorkSafe`, from these three |

**Money.** `TypeOK` is inductive once the sums of `Draw` are known to be natural
numbers (`SumTheorems`: a sum over a finite set, changed at one element, changes
by the difference; proved from the definition of `SumFunctionOnSet` by the fold
theorems of the library). `ChatBillingConsistent` is inductive over it: a row is
completed only together with its entry, and failed only without one.
`GrantsStaySpendable` needs `GrantsOK`, that a grant is depleted only when
nothing is left of it or its time has passed.

Conservation is not inductive by itself. `CreditConserved` needs that
`restoreGrants` never cuts at the original amount, that is `GrantsBounded`
(remaining plus held is at most the original amount); a purchase keeps the sums
only if its two ledger entries are new, that is `PurchasesHaveGrants` (an entry
of a purchase has its grant), as the code looks for the grant, not for the
entries. With `IsFiniteSet(ledger)` for the sums this is `MoneyInv`. Each action
is brought into one of a few shapes (funds move between a wallet, its holds and
the ledger by equal amounts), and one lemma per shape moves the sums. The same
invariant gives the refinement: the funds of the meter are the posted sums, so a
step that posts nothing is a stutter and one that posts is its `Deposit`,
`BuyPack` or `Charge`. That a chat request has one entry is `OneChatEntry`.

**Gateway.** `GatewayImplementsBilling` needs `JobsOK`: what a handler knows at
each step, so that its calls are instances of `Billing`'s actions. The safety
properties have invariants of their own on top: `ClaimsOK` (one handler has the
claim of a request, and its row, which has not lapsed), `AnswersOK` with
`OneChatEntry` (the request of an answer is in the ledger, once), `FundsOwned`
(what is held is held for the account of a handler that is still to release or
settle it) and `CancelsOK` (a handler of a cancelled task cannot settle any more:
while the cancel route waits it is aborted, and what it holds is among what the
route will release).
`FundsOwned` and the freedom to retry hold under the hypothesis
`Faults \subseteq {"lost"}`: with failing error paths or crashes they are false,
which is what the reaper and the lapse of claims are for, and `gateway_live`
shows that these do their work.

**Tasks.** The three invariants of a task are inductive together (`LeaseInv`):
that a claim opens the only execution needs the CHECK constraint (a row that is
not active has no execution), and that an answer is current needs that the row's
execution is the open one. The refinement reads "live" and "lapsed" off the row
and the rest off the history; a report that ends an execution well passed
`Vouched`, so its lease was live. For the clients, `ClientsInv` (`ClaimsDrawn`,
`TokensOwned`, `OriginsOK`: a token in a client, in a message or in the row was
drawn once, by the client that uses it) is inductive with `LeaseInv`. `LearnsInv`
says that a step teaches a client only a fresh claim or the answer of its own,
and `HandleEnds` who ends an execution.

**Stores.** `PaymentInv` ties what each callback has found, at each of its steps,
to the rows (`RowsOK`, `ReportsOK`, `DecisionsOK`), and says which callbacks
exclude each other (`LocksOK`): without it two could both have found an order
unpaid. `BoardInv` says that a version somebody has read is that row still, or an
older one, so that an update which names it is based on what was read;
`RequestsInv` and `HostingInv` say the same of quotes and of drafts. `ModelInv` says that a price a chat goes by is in an
offer the provider once made (`PricesTrue`), that the copy of the catalogue is
such an offer (`CatalogOK`), and how many calls are left (`CallsCounted`);
that a charge stays within the reservation is `CostGrows`, the monotony of the
rounded cost, applied to the estimate for either model.
`DeskInv` says of the administrator's window that each answer on its way is one
to the call it belongs to (`WellAnswered`), that at most one call for a first page
is live, and only while the list is loading (`LiveCallsOK`), and that live details
are of the request shown: a list that is shown is then never joined by a page, nor
a request by details, that were asked for under another filter or selection.

**Applications.** `RegistrationInv` has `RowTrue` for each challenge (what its
status says of the codes that came back) and `AccountsAreProven`. `IndexInv`
says how far the unique index is built, so that two accounts of an address exist
only while no server serves. `LoginInv` (`LoginShape`, `KeysOK`, `RecordsOK`,
`TicketsOK`, `RowsOfLogins`) says whose each login record, ticket and row is.
`FeedInv`: the writers that wait hold rows in order (`RowsHeld`,
`CursorsOrdered`) and a follower has read a prefix of each task's events
(`ReadForward`). `MarketInv`: an order that can be settled costs what was agreed
(`PricesOK`), and a charged one is past settlement and never returns
(`ChargesOK`); the account's sum is moved by the lemmas of `SumTheorems`.
`SidecarInv`: the calls are in an order (`QueueOK`): whoever was made before the
launch at work has ended, and a later stop has interrupted it; and each process
and proxy is where its launch says (`AgentsOK`, `ProxiesOK`, `AbandonedOK`).
`MobileInv`: what is left of a session whose logout was reported is known to the
marker or to the record (`LeftoverKnown`), the operation at work has seen to it
before it saves or loads (`HeadOK`), and whoever is shown has nothing of it beside
(`ShownOK`); the three are inductive together as long as no marker was lost to a
crossing. They need the order of the queue: a login is shown only when the logouts
asked for before it have ended (`LoginsApart`), and the session found at the start
is alone on its way (`StartAlone`). The nine steps of the storage are each one of
seven steps of the first operation (`HeadStep`), for which the order is kept once.
`SessionInv` of the web application: one attempt is of the latest generation and one
is open, and once somebody is signed in no attempt can sign in anybody else
(`GenerationsOK`); requests are of sessions that were established, those of an
effect of the one rendered (`ReadsOK`), so that late answers show nothing foreign
(`ViewsOK`); and the token of the last visit is given up only while another is
about to be stored (`StoredTokenOK`).
`FormInv` of the registration dialog: a request it still waits for was made at the
step on the screen with what the form still holds (`WaitsOK`), whatever was granted
has happened (`CallsOK`), and a key that went out went out with just what is in the
form (`KeysOfForm`).

**The window.** `RunInv` says where a run can be with what it remembers (`RunOK`: an
open socket is of a run that goes on, and such a run is the active one), what its
tools may have done (`ToolsOK`) and what it has said (`SayingsOK`). A click gives its
permission to a live run because of `AsksOK`: the resolver is the question on the
screen, and that of a live run's agent if there is one; of a run that was stopped, even
if its question stays, the socket is closed. `HaltFacts` and `StopSafe` say once what
the cancel button, a synchronization, a refused lease and a sign-out have in common.
`CompleteIsEarned` needs that a run at `refresh`, and one whose shell is to report
completion, was not cancelled before its answer.
`WorkspaceInv` ties the project on the screen to the one kept for a failure
(`PaneOK`) and every answer that is not yet overtaken to the root shown
(`CurrentOK`), and keeps each list of approved roots, those inside saves on their way
too, within what was picked (`ListsOK`). `Filtered` stands for the loop that restores
such a list; that it repeats and adds nothing is a lemma. `ProxyInv` joins the two sockets of a
client (`SocketsOK`) to the frames: those taken and those queued are together a
prefix of those sent, and all of them while the client is served (`FramesOK`). Assumed of the
constants: a prompt, a root and a client differ from the values that stand for none.

**The gate and the files.** `reachesImageSize` is a recursive function over the path, so
what it computes has to be proved. `Escapes` says it without recursion: a package is not
on the path and in no group that no reference leaves except to the path (`Trap`). It
satisfies the equation of the function (`EscapesRecurs`), so there is one that does, and
no other does (`ReachesIsEscapes`: a smallest set of packages beside the path on which
two differ would have a smaller one). With an empty path this is that no group of packages is
affected from within (`WalksAgree`), as `AsReviewed` asks. `GateInv` says which checks
have held at each step. That an advisory occurs once is a count in the one and an order
in the other (`EachOnceIsSound`); they agree because at least one is pinned.
`DiffInv` ties the output that is counted to what will be printed, line breaks included
(`DiffStages`), a sum moved by `SumTheorems`; the last line fits since
`SummaryReserve` was kept free. `TreeInv` says that the directories being read are listed
and are no two the same, that of each the entries before the next one are listed and the others
not (`StackRead`), and that every other listed directory was read to its end unless the
list says otherwise (`ReadToEnd`). Assumed are the types of what is read and, of a tree,
that no two entries have the same path.

*Only model-checked:* the liveness properties, which are out of the prover's reach (it
has no rules for `ENABLED`), and the expected violations.

## 5. Plan

Done: every module of section 2, its runs, and the proofs of section 4. Left:
`BillingLocks`, the order of
row locks of the reaper and of spending, would be a model below that of the
transactions; a deadlock there is a rolled-back transaction here.

**Not modelled.** Catalogs, directories, views, HTTP parsing, configuration,
metrics, cryptography, permission patterns and command policies, the mobile
shell, hourly limits and delivery of codes: they keep no state whose
interleavings could go wrong, or their correctness is about text.
`ComputeDemoApp.tsx` presents what `ComputeOrders` and `Hosting` keep;
`memory-database.ts` is the development double of the modelled
`PostgresDatabase`. Bots: a Feishu message is remembered as seen before it is
processed (`server.ts` 643), so a failure loses it. Card hours: cents are rounded
down to hours and back up (`card-hours.ts` 27), arithmetic without state. A
release older than the reservations' wallet column that reserves after the
migration is not in `Upgrade`: the reaper would return nothing to its wallet.
