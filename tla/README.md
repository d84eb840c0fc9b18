# GiroMesa: specifications, model checking and proofs

GiroMesa is a point-of-sale service for restaurants: one PostgreSQL database
shared by all tenants, a NestJS API (`apps/api`), a worker process
(`apps/worker`), a browser client that keeps working offline (`apps/web`) and
small connectors on the restaurant's own machines. This directory holds TLA+
models of the parts in which money, stock or documents can go wrong through an
unlucky order of events, the TLC configurations that check them, and proofs
checked by TLAPS. Paths below are relative to `src/`; `PROJECT.json` maps each
definition to the lines it models.

Contents:

1. The system: components, state, operations, interactions
2. What is hard about it
3. How a transaction is modelled
4. The modules
5. The runs, their bounds and fairness
6. What is proved
7. What is only model-checked
8. Where the code disagrees with its documents or with itself
9. What is not modelled
10. Plan
11. Running it

## 1. The system

### Components

`PROJECT.json` lists every component with its sources. The ones with state that
several actors change:

| Component | State it keeps | Operations | What makes it correct |
|---|---|---|---|
| Orders, charges, refunds (`pos/orders.service`, `payments.service`, `pos.service`, `order.repository`) | `orders` (status, subtotal, discount, total, version, closedAt), `order_items`, `payments` | registerPayment, createPaymentIntent, queryPayment, cancelPayment, refundPayment, addItem, discount, item cancellation, closeOrder, writeOffOrder | amounts are those of the items; charges fit the order; refunds fit their charge; stock leaves once; a closed order stays closed |
| Cash sessions (`pos/cash.service`, cash parts of `payments.service`) | `cash_sessions` (status, opening, expected, counted), `cash_movements`, handover columns of `payments` | open, movement, charge in cash, receive handover, close | a finished session accounts for its own cash once and never changes |
| Fiscal queue (`fiscal.service`, `worker/fiscal-operations`, webhook controller) | `fiscal_documents`, `fiscal_operations` (status, attempts, lease) | issue, cancel, query, retry, claim, process, fail, reconcile, webhook | one holder at a time; nothing given up early; everything settles |
| Event outbox (`worker/outbox`, `integrations/outbox.service`) | `outbox_events` (status, attempts, availableAt) | select batch, claim, deliver, record, replay | one delivery at a time; delivered means received; every event settles |
| Manager approvals (`approvals.service`) | `approval_requests` (status, appliedAt) | request, approve, reject, apply, mark | what is approved is applied once, however many managers press the button |
| Shifts (`pos/shift.service`) | `operational_shifts` | open, close | a shift closes on settled accounts, and the access it gave ends |
| Command outbox and receipts (`web/lib/operational-outbox`, `pos/operation-receipts`) | entries in the browser's storage; `operation_idempotency` | enqueue, attempt, mark, retry, discard, resolve; reserve, confirm | a command takes effect at most once, and what is shown as confirmed did |
| Printing (`printing.service`, `local-connector`) | `print_jobs` | enqueue, fetch, start, print, complete, fail, retry | nothing is promised: the status is what the last report said |
| Kitchen (`orders.sendToKitchen`, `kds.service`, QR review and cancellation in `pos.service`) | `order_items.status`, `kds_tickets` with their payload | add, send, move an item, move a ticket, review, cancel, notify | each sent item is on one ticket per station; served stays served |
| QR ordering (`qr.service`) | table services, guest sessions, access requests, receipts of orders, calls | activate, enter, approve, claim, order, call, answer, revoke | an order is placed once; an ended service lets nobody in |
| Tables, reservations, waiting list (`floor.service`, `pos.repository`) | `dining_tables`, `reservations`, `waitlist_entries` | reserve, move, seat, transfer, release, merge, archive | no table is promised twice |
| Waiter assignments (`waiter-assignment.service`) | `table_waiter_assignments`, help requests | assign, copy, redistribute, transfer, claim, ask for help, grant, use | nobody is replaced while at work; each grant is used once |
| Inventory (`inventory.service`, sales, doses) | `inventory_movements`, `inventory_transfers`, locations, settings | adjust, count, transfer, receive, reverse, cancel, archive, sell, return, consume | no stock is spent twice; balances are what was moved |
| Staff finance (`staff-finance.service`, `payment-reconciliation.service`) | settlements by revision, commission policies, accruals and payments, occurrences and recoveries, imported rows of card statements | calculate, confirm, check, close, reopen; activate, accrue, approve, pay, reverse; report, decide, recover, reverse; import, match, resolve | no share is paid and no loss recovered twice; a shift closes on its newest calculation; a file is recorded once |
| Webhook inbox and deliveries (`integrations/webhooks.service`, `delivery.service`) | `webhook_events`, `delivery_orders`, billing status | accept, process, mark, fail; enter, update, cancel | an external order is entered once; an event has one holder per lease |
| Realtime feed (`operational-realtime.service`) | cursor over `operational_events` | number, commit, poll | no event is skipped |
| People of a tenant (`auth.service`) | roles, invitations, users, `user_roles` | create and delete a role, invite, resend, accept, assign, deactivate | an invitation is accepted once per sending; no row names a role that is gone |
| Purchases of a tenant (`platform.service`, `tenants.service`) | `tenants.settings`, purchase intents, the subscription's checkout | ask, prepare a checkout, record it, events of the provider; notes, branding | one checkout per purchase, known to the purchase the subscription names |
| Integration accounts (`club-whisky-lifecycle`, printer and WhatsApp connectors) | `integration_accounts`: status, key, configuration | configure, rotate, revoke, authenticate, heartbeat, lifecycle events | a key that was taken away opens nothing again |
| Guest pages and links (`qr.service`) | `qr_branch_settings`, `guest_experience_configs` by version, links of the tables | settings, draft, schedule, publish, activate, roll back, rotate a link | a revision stays what it was; none is shown before its time; a link opens its table |
| Fiscal settings (`fiscal-onboarding`, `certificate`, `fiscal.service`) | `fiscal_settings`: status, stage, environment, version, usage and alerts | start, profile, certificate, simulator, production, metering | each change that counts a version has its own; production was enabled |
| Handoffs to the partner's product (`ecosystem.service`) | `tenant_entitlements`, `federation_handoffs` | grant, revoke, hand over, exchange | a token admits once |
| Onboarding (`onboarding.service`) | `onboarding_steps` | open, set a step, show readiness | what a person set is not undone |
| Backups (`platform/backup.service`) | dumps and metadata files | create, validate, restore, clean up | what is restored was complete |
| Club partner's calls (`club-whisky.service`) | keys in `webhook_events`, `outbox_events` | sale, customer's link | what is accepted is told on once |
| Devices and payment settings (`operational.service`, `payment-settings.service`, `printing.service`) | devices, printers, routes, the settings' version | register, activate, resolve, revoke; load and save a form | a revoked device stays so; no saved form replaces another unseen |
| Sums of payments (`payment-ledger`, used by `reports.service`, cash and reconciliation) | none: they compute from `payments` | register, refund; net sum | a refund compensates its charge |

What is left out of these, and the components that are not modelled, are in
section 9 with the reason.

### How they interact

- Every component writes the same database. Several of them write one order row:
  the POS services, the approvals (which run `PosService.applyDiscount` and
  `applyItemCancellation`), the QR service, `floor.transferTable`,
  `catalog.service` and staff finance's service charge. What protects the row is
  its `version` column, where a writer checks it.
- Charges take a transaction-level advisory lock per order, refunds one per
  charge (`pg_advisory_xact_lock`). Some handlers hold the order row
  `FOR UPDATE`.
- `closeOrder` deducts stock and, in the same transaction, queues the fiscal
  document and the outbox event of the order.
- A cash charge by a cashier adds to the open session's `expectedAmountCents`;
  one by a waiter waits for a handover. Closing a session waits for both.
- The worker takes fiscal operations and outbox events by polling the tables.
  The same pass is started at boot, by a timer and by BullMQ, so passes overlap.
- Idempotency keys with unique indexes identify payments, items, fiscal
  operations and events across retries.
- An approval, a print job and a webhook are followed by a second and a third
  statement outside the first one's transaction.
- Tables, reservations and orders are joined by row locks in some handlers and
  by nothing in others; a service session ends with the order or the transfer
  of its table.
- Stock is a sum of movements. Sales, doses, transfers and counts take an
  advisory lock per item and place before they read it; returns, receipts and
  reversals add without it.
- The closing of a shift waits for settlements, ends the waiters' assignments
  and refuses while cash, prints or documents are open.

## 2. What is hard about it

`PROJECT.json` lists each hazard at its line. By kind:

- *Interleaving under READ COMMITTED.* Handlers read, compute in TypeScript,
  and write the result. Whether that is safe depends on who checks a version,
  holds a row lock or an advisory lock, and on who does not.
- *Late answers.* A terminal is asked outside any transaction. Its answer may
  come after a crash, a query, a cancellation or the closing of the order.
- *Leases and overlapping passes.* Two passes choose the same operation, a lease
  ends while its holder works, a webhook settles what a pass has in hand.
- *Crashes between statements* that ought to be one: claim and result, document
  and operation, decision and application.
- *Eventual settlement.* Retries, backoff and reconciliation keys must not leave
  an operation, a document or an event behind.

## 3. How a transaction is modelled

PostgreSQL runs the API's transactions at READ COMMITTED. A handler's
transaction is two steps.

1. *Read.* Queries, checks and early returns happen here, on what is committed
   at this moment, and the advisory locks are taken. A lock that is not free
   disables the step: the call waits.
2. *Commit.* The writes become visible at once. Whatever an `UPDATE ... WHERE`
   or a unique index decides (a version, a status, an existing key) is
   evaluated on what is committed *then*, because that is what an update that
   has waited for a row lock does at READ COMMITTED.

Between the two any other call may run. A handler that holds the row
`FOR UPDATE` from its first read is one step, since nobody else can write the
row in between. Statements outside a transaction are steps of their own. Where several
reads of one transaction could see different committed states, and a property
depends on it, the reads are steps of their own (`ReadSend` and `ReadPending`
of `Kitchen`, the totals and the hash of `Settlements`, the lines of a transfer
in `Stock`); otherwise the model reads at the point the code holds its lock.

A process that dies rolls its transaction back, releases its advisory locks and
keeps what it had committed. Amounts are integers of cents, as in the code;
32-bit overflow of a cent column is not reached by the flows modelled.

## 4. The modules

### `OrderLedger` and `MCOrderLedger`

An element of `Calls` is one request. `pc[c]` says where its handler is (`idle`,
`commit` between the two steps of a transaction, `terminal` while the executor
is asked, `answered`, `record`, `done`), `req[c]` what it asks, `snap[c]` what
it has read and `outcome[c]` what it answered.

| State | Code |
|---|---|
| `orders[o]` | row of `orders`: status, subtotalCents, discountCents, totalCents, version, closedAt as a Boolean |
| `items[i]`, `live[o]` | `order_items` by idempotency key, and the sum of the live ones |
| `payments[k]`, `paid[o]` | `payments` by idempotency key, and the net confirmed charges of the order |
| `sold[o]` | how often `closeOrder` deducted the order's stock |
| `advisory[o]`, `refundLock[k]` | the two advisory locks |

The code keeps no sums of live items and net charges: `payment-ledger.ts` and
the item sums recompute them from the rows each time. The model keeps them in
`live` and `paid`, step by step, because a sum over a set is slow to evaluate and
awkward to prove about. That they always equal the recomputation (`LedgerAgrees`) is
a lemma about the model, `SumsFollowRows`, and says nothing about the code.

| Action | Handler |
|---|---|
| `RegisterRead/Commit` | `PaymentsService.registerPayment` |
| `IntentRead/Commit`, `TerminalAnswers`, `ResultRead/Commit` | `createPaymentIntent`, the executor, `updatePaymentResult` |
| `QueryRead`, `CancelRead` | `queryPayment`, `cancelPayment` |
| `RefundRead/Commit` | `refundPayment` |
| `AddItemRead/Commit` | `OrdersService.addItem` |
| `DiscountNow`, `DiscountRead/Commit` | `applyDiscount` under `requestDiscount`'s row lock, or from an approval without it |
| `CancelItemNow`, `CancelItemRead/Commit` | `applyItemCancellation`, in the same two settings |
| `CloseRead/Commit`, `WriteOffRead/Commit` | `closeOrder`, `writeOffOrder` |
| `Crash` | the serving process dies |

The run `ledgerDesks` explores the calls of two desks with one instance: a behaviour's
requests are all of `ManualRequests` (charges by hand, refunds, items, discounts,
cancellations, closing, write-offs) or all of `TerminalRequests` (intents, queries,
cancellations, manual charges and closings beside them). The constraint `OneDesk` cuts
the mixtures, which are too many for four calls; the three calls of
`ledgerProgress` mix them. `ClosedWhenPaid` is stated for behaviours in which only
charges and endings were asked for (`OnlyCharged`: manual charges, intents, queries,
cancellations, closings, write-offs), because elsewhere an item is added, or a charge
refunded, after the order was paid, and the code then closes it (section 8).

Orders start `served` with the items already on them, the state in which
customers pay. Preparing and sending are in `Kitchen`, without amounts.

### `CashDrawer`

The sessions of one branch, numbered in the order they are opened; an order
stands for one cash charge of its full amount. A time (`openedAt`,
`confirmedAt`) is the number of sessions opened by then, which is all that the
closing's window compares. `call[x]` is a request between its read and its
commit and carries the amount it will write back.
`registerCashMovement` and `closeCashSession` hold the row; `RegisterCommit` and
`ReceiveCommit` do not and overwrite `expected`, as the code does.

`Strays` says whether a waiter may take cash while no session is open, and cash
be refunded before it is handed over. The code allows both. With `Strays = FALSE`
the closing's checks are enough; with `Strays = TRUE` they are not
(section 8).

`OpenOrder` is not possible while a closing is between its read and its commit:
an order would have to be opened, served and paid within one short transaction.

### `FiscalQueue` and `MCFiscalQueue`

Documents, the operations on them, overlapping passes of the worker, requests
of the API, webhook events. An operation is identified by what its
idempotency key contains: the document, who queued it, and, for
reconciliation and retry, the document's revision (the code uses `updatedAt`;
the model counts its values). A lease is `none`, `held` or `expired`;
`LeaseExpires` lets it end freely when nobody is at work on it, and within
`MaxFaults` when somebody is. `scenario` is the provider as the code has it: a
simulator steered by `payload.simulateFiscalScenario`, or not configured.
`Select` may choose any claimable operation, since which is due depends on the
backoff of the others. `Reconcile(ds)` is one run of the sixty-second poller: it
takes some `Batch` of the outstanding documents, or all when there are no
more, in no order, and inserts one query for each that has none yet at its revision; documents that fail
stay outstanding. The code inserts row by row; an insertion that
comes late adds an operation no later than somebody could have claimed it. Two
runs that overlap insert the same keys. A document without a branch, which the
code passes over though it counts towards the limit, is not modelled.

### `OutboxDelivery`

Events, passes and what the partner has received. A pass selects a batch and
takes its events one by one: claim, look up the account, POST, record. `Answers`
are what the POST may meet, including an answer that is lost after the event was
received, and an acknowledgement that cannot be recorded. `abandoned` and
`received` are history variables for the properties.

### `CommandEffect`, `CommandOutbox` and `MCCommandOutbox`

`CommandOutbox` is the browser's shared list of commands together with the
server's receipts. `entry[k]` is an entry of the list, `tab[t]` what a page is
doing, `request[i]` the i-th request sent and how far the server is with it,
`receipt` the reserved keys and `applied[k]` how often the command took effect.
Each operation on the list runs under the Web Lock and is one step (`Enqueue`,
`Retry`, `Reconcile`, `Mark`, `ResolveManually`, `Discard`, `Expire`); a request
is `Reserve` and `Commit` or `Rollback`, as `operation-receipts.ts` has it, and
its answer may be received, lost or never read because the tab was closed
(`Receive`, `Lose`, `CloseTab`). A tab that is closed may be opened again; its
request goes on.

`CommandEffect` is the abstract specification: a command is asked for, takes
effect at most once, and success is told only after the effect. The refinement
maps `asked` to the keys of the requests that were sent and `told` to those
whose success a tab has received; `ImplementsCommandEffect` is `Effect!Spec`.

### `RealtimeFeed`

`event[e]` is the number an event got and whether its transaction is running,
committed or rolled back; `cursor`, `loaded` and `delivered` are the shared
stream of a branch. The trigger takes a number from a sequence before the
commit, `Poll` reads what is committed above the cursor and moves it.

### `Approvals`

`approval[r]` is a request's row. `manager[c]` is a call of `approve` or `reject`,
which is a row of separate statements: `Find`, `Approve` or `Reject`,
`ReadTarget`, `WriteTarget`, `MarkApplied`; `Abandon` ends a call whose process
died. `item` and `discount` stand for the order that is changed, which a
manager may also do directly (`CancelNow`, `DiscountNow`).

### `DiningRoom` and `GuestAccess`

`DiningRoom` has `table`, `order`, `reservation`, `waiting`, `service` (the QR
service session of a table), `guest` and the calls `staff`. Handlers that lock
table rows keep them in `staff[c].tables` until they commit. `BookingNext` is
`floor.service.ts` on reservations and the waiting list, `TableNext` its tables
and those of `pos.repository.ts`, `OrderNext` the payments and endings of
orders, `ServiceNext` the staff's side of `qr.service.ts`. An order's `version`
is written the way each handler writes it.

`GuestAccess` extends it with the guests. `visit[v]` is a call of the public
controller: its checks (`ReadEntry`, `ReadClaim`, `ReadGuest`, `ReadBell`), then
the reservation of a key where there is one, then the writes. `placed[k]`
counts how often the items of a repeated order were added, `known` are the keys
with a receipt, `access` the requests to be let in and `bell` the calls of the
staff.

### `Kitchen`

The items of one order. `line[l]` is an item's status, `edits` the order's
version, `ticket[<<b, s>>]` the ticket of batch `b` at station `s` with what it
shows of each item and its notices of cancellation. Adding, sending, moving an
item, moving a ticket and canceling are conditional on a version or a status;
a review of guests' items writes without asking (`WriteReview`). `Routes`
stands for the categories' stations.

### `Printing`

`job[j]` is the row's status, `poll[p]` what a pass of the connector fetched and
where it is, `desk` a retry by the staff. Passes overlap because the connector's timer
does not wait for the one before. Every report may be lost (`CompleteLost`), the
connector may die (`Crash`), and a user who may operate printers starts, completes and fails
any job (`Operate`), since the API asks for nothing but that right. There is no variable for the
paper: the connector's default is a dry run that logs a job and reports it complete,
and a printer counts as having printed when its socket was closed. So `printed` means that
somebody reported it, and no property is stated of what came out.

### `Waiters`

`shift[s]`, `waiter[s][t]` (the active assignment), `help[h]` (the approvals of
help at a table), `helped[w]` (history: orders served by a grant) and the calls
`op`. `ReadShift` finds the open shift, the advisory lock of shift and table
follows, then `Claim`, `Enter`, `Replace` or `WriteHelp` under it. `Enter` is the
check that precedes every work on a table's order; `Commit` and `Rollback` end
that work. `Assign` stands for each table of a batch; `CopyPreviousShift` and
`Redistribute` for theirs.

### `MCService`

One run for the service of a branch: fifteen instances of the six modules above,
each large where its handlers meet (two reservations on two tables; a transfer
and an activation; two guests with one key; three calls that add and send; two
screens; and so on). They share no state except what `GuestAccess` extends of
`DiningRoom`, so a product of them would only multiply states. A variable
`focus`, chosen initially, says which instance a behaviour follows; the others rest.
The module extends `DiningRoom`, `Kitchen`, `Printing` and `Waiters`, so `NoDoubleBooking`,
`TicketsMatch` and `ServesOwnTable` are the components' own definitions; the
configuration gives the constants of these four instances (bookings, three calls that send, the connector,
the waiters). `EffectsOnce` joins `PlacedOnce`, `StockReturnedOnce`, `EachHelpGranted` and
`TicketsMatch` on the screens, `FinalStaysFinal` joins `EndedStays` and `ServedStays`. `TicketsMatch` and
`ServedStays` are not stated where a review takes part, because there the code does not keep them
(section 8); `EndedStays` is stated for the transfer of a table and for guests' ordering.

### `Stock`

A balance is a sum of movements, so a transaction's movements become visible
together. `stock` is the committed balance per item and place, `hand` the part
brought in or taken out by hand, `transfer`, `sale`, `dose` the documents,
`setting` and `archived` the configuration, `op[c]` a transaction: the cells it
still has to lock, those it holds and what it will write. `Take` locks the next
cell in the order the code locks them and checks the balance where the code
does; returns, receipts and reversed doses skip it, as they do in the code. The items of
`AllowNegative` were created with `allowNegative`, which nothing changes later, and
for them the check is passed whatever the balance is (`Available`). `Abort`
is an error or a crash. A location can be archived when its balances add up to zero over all items,
so that an item that is owed hides another that is there; nothing says otherwise, and no
property is about it.

### `Settlements`, `Commissions`, `Occurrences`

The three flows of `staff-finance.service.ts`. Each call reads with its row locks
and its early returns, and commits later (`Read...`, `Write...`, `Fail`).

- `Settlements`: `settlement[p]` is the sequence of revisions of a waiter or of
  the managerial bucket, each with the calculation's key, the ledger state its
  totals and its hash are of, its status, and the policy and the pool it was
  calculated with. A calculation writes a revision for the waiters that are or
  were assigned (`assigned`) and for whoever else the amounts give something, the managerial
  bucket among them only when there is something in it; which amounts give whom something is any
  choice here, since `Shares` is about the amounts. `ReadClosing` and `WriteClosing` are
  `closeShift`, as far as it waits for settlements: the attribution is that of a waiter's revision with
  the highest number (`Ruling`; any of them when several have it, as the query
  orders by nothing else), it says who had to settle (`Participants`: whom the items
  name, or the pools that revisions recorded), and each of those needs a closed newest
  revision, all of one hash, which is the ledger's now. Who has a revision but need not
  settle is not asked.
- `Commissions`: revisions of a policy, accruals per policy and period, and
  payment records. Nothing prevents the same period from being accrued again
  after a rejection or a full reversal, which is why `PeriodPaidOnce` says
  which accrual may have money.
- `Occurrences`: what an order still owes (`bill`), the occurrence (`loss`), its
  partial recoveries, and the drawer (`till`).

### `Intake`

Deliveries and the inbox of providers' events. `Accept` claims an event under a
lease in one transaction; `Apply`, `MarkProcessed` and `Fail` are the statements
after it; `LeaseEnds` and `Crash` are the faults. `ReadEntry` and `WriteEntry` enter an external order
with its correlation key; `UpdateDelivery`/`WriteUpdate` and
`CancelDelivery`/`WriteCancel` are the staff's changes, read and written without
a lock.

### `Shares`

How cents are divided: `staff-finance.calculations.ts`, `payment-ledger.ts` and
`splitAmount`, as operators. `served` is an order, with whoever served each
item, what was canceled, discount, suggested and charged service and a payment;
`result` is what was calculated of it. `Settle` is `calculateShiftSettlement` for the
order, `SplitBill` splits its total, `Accrue` takes a member's share as the base of
a commission in each of the five models. `CentsExact` compares with a reference: every amount is given out
in full and nobody is a cent or more off his exact proportion; service and
consumption add up to what was received, and a settled order has its whole service
charge; a progressive commission is the sum over single cents, but for the rounding
of each band.

### `Reconciliation`

Card statements. `ReadFile` and `WriteFile` are `importCanonicalCsv`: the charges that are
confirmed when the rows are matched, then one transaction in which the unique index on
the checksum decides who records the file. `entry[e]` is a row of the file with its
match, its version and whether it got an occurrence. `Match` and `Resolve` read an
entry without a lock and `ResolveEntry` writes it under the version of the list the
person saw. Charges are confirmed and refunded meanwhile.

### `Allocations`

Charges that name the items they pay for. `paid[n]` is what charge `n` gives to each
item. A charge holds the advisory lock of its order, here the one order there is, from
`ReadCharge` to `WriteCharge`, and is rolled back unless the order's `version` is the one it read;
items are added and canceled without the lock. Whether the allocations of an item fit its
price is asked of what was allocated before.

### `ClubEvents`

The partner's calls that only tell something. `Reserve` inserts the key, `Register` commits
it together with the queued event, `Repeat` meets a key that is there. The answer to `Register` may be lost,
so that the partner calls again.

### `MCOffice`

`CashDrawer` and nine instances of the modules above in one run (stock,
settlements, commissions, occurrences, dividing, reconciliation, allocations,
intake, club), with a focus variable as in `MCService`. Their constants are those of
`MCOffice`, which `Office.cfg` gives values, so that what is proved of the
composition is about every instance. `Stock` and `Intake` have two subjects each,
transfers and consumption, deliveries and billing; the constraint `OneSubject` of the run keeps a
behaviour to one of them. It also leaves out that more is taken out by hand than was
brought in (`Brought`: with it an item may still be owed to sales, doses and hands that come after them), doses
beside full returnables, a shift whose first event is not an item, and what happens to
settlements after the shift was closed (`Shifting`); the theorems have none of these limits.

### `Members`

The roles, invitations, users and `user_roles` rows of a tenant. Nothing locks what it
reads; the model states what the database refuses: a second user of one email, and the
removal of a role that a row names (`DeleteRole`, `CreateInvitation`,
`AssignUserRole`). An acceptance is one transaction of three steps:
`TakeInvitation` (the conditional update), `JoinUser` (the user, and which of his roles
is found), `AcceptInvitation`.

### `Tenancy`

The checkout of a subscription. `ReadTenant`, `CreateIntent`, `CreateCheckout`,
`WriteSettings`, `WriteIntent` and `WriteSubscription` are the statements of
`prepareAsaasCheckout`, each of which may be the last (`Stop`). The provider is external: a
key it has seen gets the checkout it got. `UpdateTenantSupport` and `UpdateBranding`
read `tenants.settings` and write the whole value.

### `Connectors`

The integration accounts of a tenant: its printers' connector, a WhatsApp connector per
branch and the club integration. `visit[c]` is a request. Configuring
(`ReadConfigure`, `WriteConfigure`) and heartbeats (`Authenticate`, `ReadHeartbeat`,
`WriteHeartbeat`) read the account and write it by a later statement;
`ReadTransition` and `WriteTransition` are an event of the club's lifecycle, under its
advisory lock. `retired` is a history variable: the keys an account had and lost.

### `BranchSetup`

Devices with the printers and routes that permit them, and the payment settings of a
branch. `ReadDevice` and `WriteDevice` are a request by a device's token, which notes that it was
seen. `LoadSettings` is a form that is opened, `ReadSettings` and `WriteSettings` its
saving under the version it was opened with.

### `GuestPages`

What a guest sees after scanning a code. `revision[v]` is a row of
`guest_experience_configs`, `page` the settings, `link[t]` the version of a table's token with its
hash and whether a service session runs on it. Nothing is read `FOR UPDATE`: a
transaction chooses rows when it starts and its conditions are looked at again when it
commits. `clock` is what a scheduled revision waits for; a guest's page activates what is due.

### `FiscalSetup`

The `fiscal_settings` row on its way to production and back. Some changes compare the version
(`UpdateCompany`, `WriteTaxProfile`, `EnableProduction`), some only count it, some do neither, and only `updateUsageSettings` holds the row while it
computes. `accepted` is a history variable: how many changes counted the version.

### `Handoffs`, `Onboarding`, `Backups`

- `Handoffs`: a handoff is consumed by a conditional update of its own and admits by a
  later statement, if the tenant is still entitled.
- `Onboarding`: steps are inserted by a read and an insert each, which a unique index
  decides, while a person sets them; what is shown joins them with counts of rows.
- `Backups`: commands on a dump and its metadata file, which nothing joins; any of them may
  fail or be the last. A dump is `partial` while it is written, and may be `damaged` later.

### `Reports`

The rows of orders and charges come to be one event at a time, with the guards of the
services that write them, and `Net` is the sum that `payment-ledger.ts` takes of payments
for reports, cash sessions and reconciliation. The reports themselves are not modelled
(section 9).

### `MCAdministration`

`FiscalQueue` and twelve instances of the modules above in one run (members, tenancy,
handoffs, onboarding, backups, connectors, devices, payments, pages, links,
fiscal settings, reports), with a focus variable as in `MCService`. The instances take the
module's own constants, which the configuration gives values and of which the assumptions
say only what is in section 6, so that the theorems about them are not about one size.

## 5. The runs, their bounds and fairness

| Run | Instance | Properties |
|---|---|---|
| `ledgerDesks` | 2 orders, 3 items, 3 keys, 4 calls, one may crash, all of one desk: every manual request; or intents, queries, cancellations, manual charges with and without override and closing, with the answers confirmed, unknown, not configured | `TypeOK`, `NoOverRefund`, `TotalsAgree`, `WrittenOffIsUnpaid`, `SoldOnce`, `ChargesFit`, `ClosedIsFinal`, `VersionNamesState`, `ClosedWhenPaid` |
| `ledgerProgress` | 3 calls, one may crash; requests of every kind that takes a lock, and approved edits; fair | `EveryCallEnds` |
| `ledgerApprovalClosesTwice` | approved discount, charge, two closings | `SoldOnce` **violated** |
| `fiscalProgress` | 1 document, 2 passes, 1 webhook; authorized with the webhook or with 1 fault, no answer, rejected or no provider with 2 requests; fair | `OperationsSettle`, `DocumentsSettleWhileUp` |
| `outboxDelivery` | 3 events (one without tenant), 2 passes, one may crash, batch of 2, 2 attempts, 1 replay; fair | `DeliveryTypeOK`, `OneDelivery`, `ProcessedWasReceived`, `EventsSettle` |
| `commandOutbox` | 2 keys, one that may be repeated without a check, 2 tabs, 3 requests, one active entry, 2 attempts | `TypeOK`, `ConfirmedTookEffect`, `ImplementsCommandEffect` |
| `realtimeSkips` | 4 events, pages of 2 | `RecoverableByCursor` **violated** |
| `service` | the fifteen instances of `MCService` | `BranchTypeOK`, `NoDoubleBooking`, `EffectsOnce`, `TicketsMatch`, `ServesOwnTable`, `FinalStaysFinal` |
| `office` | `CashDrawer` with 2 orders, 2 sessions, 3 calls, `Strays = FALSE`, and the nine instances of `MCOffice`, within `OneSubject` | `OfficeTypeOK`, `ClosedTally`, `ClosedIsFinal`, `StockAddsUp`, `DoneOnce`, `CentsExact`, `ActsOnNewest` |
| `settledTotals` | the same instance | `TotalsAreOfHash` **violated** |
| `administration` | the fiscal queue (1 document, 2 passes, 1 request, 1 webhook without a result, 1 fault) and the twelve instances of `MCAdministration` | `AdministrationTypeOK`, `DeadLetterExhausted`, `LeaseRespected`, `RecordsAgree`, `HistoryHolds` |
| `refundsCountTwice` | the same instance | `RefundsCompensate` **violated** |

A property of a composite run joins those of its instances; the comment above it names
them, and the instance's module states each. `PROJECT.json` has one mutant for a
property, so some operators commented `Mutant:` are not named there; they break the
other parts in the same way.

**Why these bounds are enough.** Each race in the ledger is between two or three
calls on one order; the fourth call sets the stage (a closing needs a charge
before it). The second order is there for a key used on two orders and for
seeing that locks are per order. Item prices are 2 and 1, so a sum names its items.
Two sessions are what it takes for a cash charge to be counted twice or fall
between two; three requests are two that interfere and one closing. Passes of
the worker are interchangeable, and two are enough to overlap. `MaxAttempts = 2` makes
a first failure retryable and a second one final. One fault is one expiry, one
thrown error or one restart; the crossed cases come from the freedom of
*when*. Three events with a batch of two leave one behind for another pass.

Three requests for two commands are one repetition by the other tab and one
command beside it; one active entry makes the list full while the second
command waits. In the service and the office almost every handler is a read and
a write, and a race is between two of them: two managers, two screens, two
polls, two guests or two members of staff are the pair, with a third where a
third one is needed for the effect (the kitchen: two calls that add, one that
sends). Where a handler touches several rows (a transfer between two tables, a
batch of items, a sale of two items) there are two of them. Two shifts are what
an assignment can be left behind in; two revisions of a policy or a settlement
are an old one and a new one; a waiter and the managerial bucket, with an item of the waiter and one of
nobody, are a party that is settled on each calculation and one that may not be; one of two items may
go below zero; two orders of the same recipe compete for one
unit of stock. Two calls that book, move and seat race for two tables at one
time, and for one table at three times of which neighbours overlap and the outer ones
touch (`Timing`), which is where the comparison of the times is at stake. In the administration two calls on one person, purchase, account,
device or form are again the pair; two keys are one that was replaced and its successor,
three versions of a lifecycle a reconfiguration and an event on each side of it.
Two items and three payments are two that fit alone and one more; two keys and three calls of the partner
a repetition beside another call. Two revisions of a page are the published one and its successor, and two
units of time a schedule and its postponement; three links are one that is replaced twice. One backup,
handled by two, meets its own cleanup. Five payments are charges of two orders and their refunds, in every order. Dividing needs no depth but variety: three items at two prices,
two members and nobody, each way of attributing with every combination of waiters it looks at,
and of canceled items, and payments that are full, partial or not handed over, so that remainders tie and amounts are smaller than the number of people.

In `fiscalProgress` everything at once is too much for liveness, so each of its initial states has used up a
part of the bounds (`ProgressInit`): the webhook comes between the steps of two passes that both want the
operation; or a pass is slow and the other takes over, an operation fails, or the worker restarts; or the
document is issued, canceled, queried and queued again. `administration` has the webhook and a fault together, for safety.

**The bounds by name.** `MaxSessions`, `MaxMoved` (CashDrawer); `MaxRequeue`,
`MaxAsks`, `MaxFaults` and `MaxRevision` (FiscalQueue, where `Batch` stands for the code's hundred; the last is larger
than the instance reaches); `MaxReplays` (OutboxDelivery); `MaxSends`
(CommandOutbox; `MaxActive` and `MaxAttempts` stand for the code's own limits, smaller here);
`MaxVersion` (DiningRoom), `MaxEdits` (Kitchen),
`MaxStock` (Stock), `MaxLedger` and `MaxRevisions` (Settlements, Commissions),
`MaxExpired` (Intake), `MaxEvents` (ClubEvents), `MaxVersion` (Reconciliation, Connectors, BranchSetup, FiscalSetup),
`MaxIssued` (FiscalSetup), `MaxRevisions`, `MaxLinks`, `MaxTime` (GuestPages),
`MaxSent` (Members), `MaxChanges` (Tenancy), `MaxKeys` (Connectors), `MaxPayments`
(Reports). Rows that can be inserted are bounded by their sets. `MaxRequeue`
matters: the code reconciles a document in error every minute without end, and
the bound stops that cycle after one round. `MaxExpired` also is part of what
`HoldersLeased` says: an event has no more holders than leases that ended, plus one.

**Symmetry** is declared over interchangeable calls, keys, people, tabs, events or
passes, and only in runs without liveness properties.

**Deadlock** is checked in the ledger runs: `AllServed` is the only accepted
end, so a lock that is never released shows. The other models stop when their
bounds are used up or there is nothing to do, and turn the check off. In `Stock`
a deadlock of two transactions, which PostgreSQL resolves by ending one, is left
through `Abort`.

**Fairness.** Three modules have liveness properties.

- `OrderLedger!FairSpec`: weak fairness of each call's own steps. Node's event
  loop takes a request it has received to its end, and PostgreSQL grants a lock
  that becomes free. Neither the choice of request nor a crash is fair.
- `FiscalQueue!Fairness`: the pollers start a pass again and again and a pass
  goes on; an API transaction or a webhook
  that has begun ends; sixty seconds pass. The reconciliation has a poller of its own,
  every minute, and is fair to all outstanding documents together, as long as they fit its
  batch: `WF(Reconcile(Outstanding))` is not enabled when there are more. With more
  than a hundred, the query has no order, failing documents stay in the set, and one may
  never be picked; `DocumentsSettleWhileUp` excuses that case explicitly. With the
  run's one document and `Batch = 1` it does not arise. Requests, faults and restarts are not
  fair.
- `OutboxDelivery!FairSpec`: a pass goes on (a POST is aborted after ten
  seconds) and a date comes. Crashes, configuration and replays are not fair.

The other modules are safety only. What they might promise eventually depends
on people (an approval is decided, a settlement confirmed) or is not promised by
the code: an abandoned print job, a claimed webhook and an approval whose call
died wait for somebody (section 8).

**What the passing runs show.**

- Charges, refunds and closings made by hand are kept consistent by the
  advisory locks and the version. Terminal answers, whenever they arrive, never
  make stock leave twice or close an order that is not covered. Every request
  ends and releases its locks though the server dies.
- A finished cash session keeps its amounts, and they are its own.
- A fiscal operation is not taken from a pass whose lease runs, is not given up
  early and always settles; no document stays pending that the reconciliation reaches. An event is delivered by one pass at a time and
  settles unless a process dies holding it.
- A command of the browser takes effect at most once, however tabs repeat it and
  answers get lost, and what is shown as confirmed took effect.
- Two expected reservations never share a table and time. A guest's order that
  is repeated with its key is placed once, and an ended table service does not
  come back. The stock of a canceled item returns once, whatever managers do.
- Items that are sent are on one ticket per station and served items stay
  served, as long as no review interferes.
- A waiter at work is not replaced at his table, and a grant of help serves one
  order.
- Stock is not spent twice unless an item may be owed, and balances are exactly what documents moved,
  however transactions fail and are retried. A shift closes on the newest calculation of
  everyone who had to settle, all of one state of the ledger. Shares and losses are paid and recovered once, external orders
  are entered once, and an event has one holder per lease. Divided amounts add up to
  the cent. A file of card payments is recorded once and completely, and its rows are
  settled as what they still are. No item is paid for beyond its price by charges that name it.
  What the club's partner was told is accepted has been queued, once.
- An invitation is accepted at most once each time it is sent, and no row names a
  role that is gone. A purchase has one checkout. A key, a device or an integration that was revoked
  stays revoked until it is configured again. A form of payment settings does
  not replace another that was saved meanwhile. A revision of the guests' pages never
  changes and is not shown before its time. A handoff admits once, a backup that broke off is not restored, and
  a step somebody set is not undone by a page that opens.

How far some of these reach: `ProcessedWasReceived` says that a delivered event was received, not that it was
received once: an answer that is lost makes the next pass deliver it again, and the partner tells
repetitions apart by the event's id. That a purchase has one checkout (`RecordsAgree`) rests on the provider
honouring its `Idempotency-Key`, which is how `Tenancy` has it. In `Waiters` the check of a table's access holds the
lock of shift and table until the work commits: every caller of
`assertOrderAccess` passes its transaction. Without one (`waiter-assignment.service.ts:465`) the check has a
transaction of its own, whose lock ends with it, and `ServesOwnTable` would not hold of such a call.

Every property has a mutant in `PROJECT.json`: a plausible bug in one mapped
definition under which the same run finds it violated. The mutated forms are the
operators commented `Mutant:` in the modules; no action uses them.

## 6. What is proved

All theorems hold for behaviours of any length and for every value of the
constants that meets the named assumptions of the modules. A hypothesis of a
theorem's own is in the last column.

| Theorem | Module | States | If |
|---|---|---|---|
| `TypeCorrect` | `OrderLedgerProofs` | `Spec => []TypeOK` | |
| `RefundsFitCharges` | `OrderLedgerProofs` | `Spec => []NoOverRefund` | |
| `TotalsFollowItems` | `OrderLedgerProofs` | `Spec => []TotalsAgree` | `NoApprovedEdit` |
| `StockLeavesOnce` | `OrderLedgerProofs` | `Spec => []SoldOnce` | `NoApprovedEdit` |
| `VersionsRise` | `OrderLedgerProofs` | `Spec => VersionNamesState` | `NoApprovedEdit` |
| `ManualChargesFit` | `OrderLedgerProofs` | `Spec => ChargesFit` | `NoApprovedEdit` |
| `ClosedOrdersStay` | `OrderLedgerProofs` | `Spec => ClosedIsFinal` | `NoApprovedEdit` |
| `WriteOffsAreUnpaid` | `OrderLedgerProofs` | `Spec => []WrittenOffIsUnpaid` | `NoApprovedEdit` |
| `ClosedOrdersArePaid` | `OrderLedgerProofs` | `Spec => ClosedWhenPaid` | `NoApprovedEdit` |
| `CashTypes` | `CashDrawerProofs` | `Spec => []TypeOK` | |
| `ClosedSessionsStay` | `CashDrawerProofs` | `Spec => ClosedIsFinal` | `Strays = FALSE` |
| `ClosedSessionsTally` | `CashDrawerProofs` | `Spec => []ClosedTally` | `Strays = FALSE` |
| `GivenUpLast` | `AdministrationProofs` | `Spec => []DeadLetterExhausted` | |
| `LeaseHolds` | `AdministrationProofs` | `Spec => LeaseRespected` | |
| `AttemptsBounded` | `OutboxProofs` | `DeliverySpec => []DeliveryTypeOK` | |
| `DeliveredByOne` | `OutboxProofs` | `DeliverySpec => []OneDelivery` | |
| `DeliveredWasReceived` | `OutboxProofs` | `DeliverySpec => []ProcessedWasReceived` | |
| `OutboxTypes` | `OutboxProofs` | `Spec => []TypeOK` | |
| `ConfirmedIsTrue` | `OutboxProofs` | `Spec => []ConfirmedTookEffect` | |
| `CommandsTakeEffectOnce` | `OutboxProofs` | `Spec => ImplementsCommandEffect` | |
| `NoTableBookedTwice` | `ServiceProofs` | `RoomSpec => []NoDoubleBooking` | |
| `EndedSessionsStay` | `ServiceProofs` | `EndedStays` is an action property of `RoomSpec` | sessions are numbers |
| `OrderPlacedOnce` | `ServiceProofs` | `GuestSpec => []PlacedOnce` | |
| `StockGoesBackOnce` | `ServiceProofs` | `Spec => []StockReturnedOnce` of `Approvals` | |
| `EachItemCookedOnce` | `ServiceProofs` | `KitchenSpec => []TicketsMatch` | no reviews, batches are numbers |
| `ServedItemsStay` | `ServiceProofs` | `ServedStays` is an action property of `KitchenSpec` | no reviews, batches are numbers |
| `WaitersServeTheirTables` | `ServiceProofs` | `ServesOwnTable` and `EachHelpGranted` are invariants of `WaiterSpec` | finitely many grants |
| `EffectsHold` | `BranchProofs` | `BranchSpec => []EffectsOnce` | |
| `FinalsHold` | `BranchProofs` | `BranchSpec => FinalStaysFinal` | |
| `BranchServes` | `BranchProofs` | `BranchSpec => []((OnlySent => TicketsMatch) /\ ServesOwnTable)` | |
| `FilesRecordedOnce` | `OfficeProofs` | `FilesAgree`, `PreviousIsTrue` of `Reconciliation` | |
| `BillPaidOnce` | `OfficeProofs` | `ItemsNotOverpaid`, `OnOpenItems` of `Allocations` | finitely many payments, amounts are natural numbers |
| `ShiftClosesOnNewest` | `OfficeProofs` | `Spec => [][ClosesOnNewest]_settlementVars` of `Settlements` | items name parties, the bucket is one |
| `ShareOfPeriodPaidOnce` | `OfficeProofs` | `Spec => []PeriodPaidOnce` of `Commissions` | finitely many records, amounts are natural numbers |
| `LossRecoveredOnce` | `OfficeProofs` | `Spec => []LossesFit` of `Occurrences` | finitely many recoveries, amounts are natural numbers |
| `EnteredUnderLease` | `OfficeProofs` | `Spec => [](EnteredOnce /\ HoldersLeased)` of `Intake` | finitely many calls |
| `ToldIsQueued` | `OfficeProofs` | `Spec => []AcceptedIsQueued` of `ClubEvents` | |
| `StockKept` | `OfficeProofs` | `Spec => [](StockNotNegative /\ StockAddsUp)` of `Stock` | `StockAssumed` |
| `CentsDivideExactly` | `OfficeProofs` | `Spec => []CentsExact` of `Shares` | `Divisible`, `Banded` |
| `OfficeIsDrawer` | `OfficeProofs` | `OfficeSpec => Spec` of `CashDrawer` | |
| `DrawerHolds` | `OfficeProofs` | `OfficeSpec => []ClosedTally /\ ClosedIsFinal` | `Strays = FALSE` |
| `StockHolds` | `OfficeProofs` | `OfficeSpec => []StockAddsUp` | |
| `DoneOnceHolds` | `OfficeProofs` | `OfficeSpec => []DoneOnce` | |
| `CentsHold` | `OfficeProofs` | `OfficeSpec => []CentsExact` | |
| `NewestHolds` | `OfficeProofs` | `OfficeSpec => ActsOnNewest` | |
| `InvitationsAcceptedOnce` | `AdministrationProofs` | `Spec => [](AcceptedOnce /\ RolesExist)` of `Members` | |
| `PurchaseHasOneCheckout` | `AdministrationProofs` | `Spec => []OneCheckout` of `Tenancy` | |
| `HandoffsAdmitOnce` | `AdministrationProofs` | `Spec => []AdmittedOnce` of `Handoffs` | |
| `StepsStayAndSetupHelps` | `AdministrationProofs` | `StepsKept` and `SetupHelps` are action properties of `Onboarding` | |
| `RestoredWasWhole` | `AdministrationProofs` | `Spec => []RestoredWasComplete` of `Backups` | |
| `RetiredKeysOpenNothing` | `AdministrationProofs` | `Spec => []KeysStayRetired` of `Connectors` | |
| `RevokedIsNotRevived` | `AdministrationProofs` | `RevokedIsConfiguredFirst` is an action property of `Connectors` | |
| `RevokedDevicesStay` | `AdministrationProofs` | `RevokedStays` is an action property of `BranchSetup` | |
| `EverySaveHasItsVersion` | `AdministrationProofs` | `Spec => []EachSaveCounts` of `BranchSetup` | |
| `RevisionsStayAndWait` | `AdministrationProofs` | `RevisionsKept` and `NotBeforeItsTime` are action properties of `GuestPages` | |
| `StoredHashOpensItsTable` | `AdministrationProofs` | `Spec => []HashIsCurrent` of `GuestPages` | |
| `FiscalSettingsAgree` | `AdministrationProofs` | the properties of `FiscalSetup` | |
| `AdministrationIsQueue` | `AdministrationProofs` | `AdministrationSpec => Spec` of `FiscalQueue` | |
| `QueueHolds` | `AdministrationProofs` | `AdministrationSpec => []DeadLetterExhausted /\ LeaseRespected` | |
| `RecordsKept` | `AdministrationProofs` | `AdministrationSpec => []RecordsAgree` | |
| `HistoryKept` | `AdministrationProofs` | `AdministrationSpec => HistoryHolds` | |

Where a component of `OfficeProofs` or `ServiceProofs` has no `ASSUME` of its own, its theorem also says that `None`
is no key, payload or other name of the component, and that
`MaxRevisions` is a natural number. `StockAssumed` says what the constants of
`Stock` are: finitely many items, transfers, orders and doses, quantities that are
natural numbers, lanes between places, and a transit among the places if there are
transfers. The instance of `MCOffice` is such. `Divisible` and `Banded` say the same
of `Shares`: finitely many members and goods, amounts that are natural numbers, and
bands as `assertCommissionRules` accepts them (`staff-finance.service.ts:3137`). The theorems about `OfficeSpec` have
the assumptions of `MCOffice` on its constants, which the run evaluates.

**Three hypotheses that cut the code.** `NoApprovedEdit` leaves out the
discounts and cancellations that are run from an approval, `Strays = FALSE`
the cash taken without an open session, and `Reviewers = {}` the review of
guests' items. With them the code does not keep these promises: they are the
disagreements of section 8, the first with its own run.

**Types of the ledger.** `TypeOK` is not inductive: a step that writes
`payments[req[c].key]` needs the row to exist and to belong to an order.
`TypeInv` adds that existing charges name an order (`RowsPlaced`), that a call in
progress carries a known request (`RequestsKnown`), and that the charge it waits
for or refunds exists (`ChargesExist`).

**Refunds.** `RefundInv` adds to `NoOverRefund` that a refund about to commit
holds the lock of its charge and still fits it. No other step changes a
charge's amount or what is refunded of it, and none takes the lock, so it still
fits when it commits. Without the lock the second conjunct fails for the other
refund in flight.

**Totals and stock.** `EditInv` says of every call between its read and its
versioned write that its snapshot is *fresh*: no newer than the row, and if the
versions are equal then the amounts are equal, and the order is not closed if it is
about to be. Every step either leaves an order row alone or raises its version
(`Grows`), so a fresh snapshot stays fresh or becomes recognisably old, and the
version check rejects it. The hypothesis `NoApprovedEdit` is needed
exactly here: an edit run from an approval writes a version computed from a
stale read, and `ledgerApprovalClosesTwice` is the counterexample without it.

**Sums.** `MapThenSumSet` is a recursive function on the subsets of a set that
takes away, one by one, an element `CHOOSE` picks. `FiniteSums` proves that it
exists, is unique, and that a sum changes by what one of its terms changes. The
induction goes by a minimal counterexample: the proper subsets of a finite set are
well-founded (`FS_StrictSubsetOrderingWellFounded`, `WFMin`), and this needs no
theorem with an operator parameter. `SumInv` then says that `paid`, `live` and
the refunds of a charge are the sums over the rows, that rows which are absent
add nothing, and that a refund or a cancellation in progress is about a row that
is there.

**Charges, closings, write-offs.** `FitInv` has four parts. `TerminalRows`: a
charge that waits for a terminal was not taken by hand. `PaidStatuses`: what a
charge is about to give its order is a status of payment. `PendingFits`: as long as
the order row is the one that was read, a manual charge about to commit fits the
total beside those already taken by hand, and a write-off about to commit finds
none. `UnpaidWhenWrittenOff` is what is wanted. The charge's version check
closes the gap between read and write; the sum of charges *by hand* (`HandSum`)
is what makes it inductive, since a terminal's answer adds to what is paid and
leaves the row as it is (section 8).

**What a closing relies on.** closeOrder reads the status of the order, not the
sum that was paid, and commits under the version of the order row. `CoverInv`
holds as long as only charges and endings were asked for, and has four parts. `PaidInFull`: an order
with the status of a paid one is paid. `ChargeCovers`: a charge by hand about
to write that status covers the order with its own amount; what was paid may
have grown since it read the sum, and only grows while nothing is refunded. `AnswerCovers`: the same for a
terminal's answer, which has no lock on the order: while the version of the charge is the one
it read, the charge still counts for nothing, so its amount is added to a sum no
smaller than the one it saw; when the version has moved on, the answer writes
nothing. `ClosesPaid`: a closing about to commit under the version it read is of
an order whose status is paid, because a step that changes the status raises the version.

**Closed sessions.** The session row is not locked by those who write it. The
invariant says why that is safe without strays: a request in flight writes the
open session and is about an order that is still open, or about a pending
handover; the closing waits for both (`Quiet` while it is between its steps), and
only one request at a time is about one order (`Alone`). For the amounts,
`TallyInv` says that no charge is dated in the future (`Dated`), that a session
whose cash has been added up, finished or about to be, has counted the charges
of its own window, and that those only shrink afterwards, by refunds
(`FinishedTally`, `PendingTally`).

**Fiscal queue.** Passes that lost their lease, webhooks and repeated inserts all
write operations. What survives them is that an operation, once there, does
not disappear and its attempts never decrease; a pass in progress has seen no
more attempts than there are. So one that gives up after `MaxAttempts` is right
even if its claim is no longer the last. `LeaseRespected` follows because the
claim is conditional on the lease it finds.

**Outbox.** An event is claimed only while pending, nobody holds a pending
event, and only its holder takes an event out of `processing`. A pending event
has attempts left, which bounds them.

**Commands of the browser.** `OutboxInv`: what was sent is a beginning of the
requests (`InOrder`), no entry counts more attempts than there are requests
(`AttemptsSent`), an effect has its receipt and a request that was answered with success has one too,
one request at a time has reserved a key, a tab waits for a request that was
sent, and a confirmed entry has its receipt. The refinement is proved step by
step: a `Commit` is the effect of `CommandEffect` for a key that had none, a
`Receive` of a success tells of an effect that is there, sending for the first
time asks, and every other step is a stutter.

**Service of a branch.** One invariant per component, of the same kind each time: what a call
holds between its read and its write, and that nobody else holds it.

- `RoomInv`: a booking holds the rows of its tables, fits beside every expected
  reservation, and two that share a table are not both between read and write.
- `SessionInv` gives the sessions' rows their shape; that an end is final follows from
  `Ending`, which takes active sessions only.
- `VisitInv`: an order about to be added has reserved its key, whose receipt is not
  there, and nobody else has reserved it.
- `DeskInv`: the stock came back once if the item is canceled and not at all before;
  a cancellation looks at the item it locks, whatever the approval said.
- `KitchenInv`: an item about to be sent or routed is as it was read while the order's version
  is, two screens do not write one ticket, and each item is on a ticket of each
  station exactly when it was sent.
- `TeamInv`: a call at work holds its shift and table, the assignment is the one it
  found or made, and the grants used by a waiter are at least as many as the
  orders served with help; that is a cardinality, so the grants are finite.

**The service of a branch.** `BranchProofs` is about the composition that the run
checks. The instances of `MCService` have constants of their own, and the prover takes
their definitions for others than those the proofs are about. So `BranchProofs` takes
instances of `ServiceProofs` itself, with the constants of `Ordering`, `Transfer`,
`Approving` and `Cooking`, and one with those of the module; that the definitions are
the same is shown by expanding both (`SameGuests`, `SameRooms`, and so on). `FocusInv`
then says that the component in focus has its invariant; the kitchen and
the waiters have theirs in every focus, as they rest outside their own. Printing has no invariant to keep. `EffectsHold` and
`FinalsHold` are the properties that the run checks, `BranchServes` joins the components'
own. `OnlySent` (no reviews, batches are numbers) is the hypothesis of
`EachItemCookedOnce`; the run's kitchen is such. The one assumption of `MCService` is
that requests for help are finitely many.

**The office.** `OfficeProofs` is about `MCOffice`, instance by instance; of
`CashDrawer` it uses what `CashDrawerProofs` proves.

- `CardInv`: a decision in flight has read the status of an entry, which is so as
  long as the version it expects is the entry's. Versions only grow, so a
  decision that is written names the status it found (`DecidingEntry`).
- `BillInv`: one charge at a time is between its read and its write, and while
  the bill's version is the one it read, it is for items on the bill and within
  what is left (`Charging`). Allocations are sums over the payments, by `FiniteSums`.
- `ShiftInv`: a revision without a key is a reopening and never closed
  (`ReopenedOnly`), so that a closed last revision is the newest calculated one. A
  closing in flight excludes calculations (`ShiftCallsApart`), transitions leave closed
  revisions closed but for a reopening, which is a row of its own, so what
  the closing found of its participants, closed and of one hash, is the newest when it
  closes (`ClosingShift`). Nothing is needed of the others, who may have no revision.
- `DuesInv`: every revision of a period but the newest is void, so nothing was
  paid of it, and a void one is never paid; what a payment in flight has added up
  is what the accrual will say (`PayingAccrual`), as it has locked the accrual.
- `LossInv`: recoveries are summed per loss and, if they are in cash and stand,
  for the drawer (`LossSums`); one in flight has locked its loss and
  fits it; two decisions that would write off one order are never both possible,
  since the first closes the order (`OneHouseLoss`).
- `EntryInv` and `LeaseInv`: a key that a call is about to enter has no
  delivery and no other call; of an event the calls at work are at most as many
  as the leases that ended, and one more while a lease runs.
- `ClubInv`: a key that was received has one event queued, of the payload
  received with it.
- `StockInv`: of a transaction in flight, what it takes of a place is covered by the
  balance it looked at, under a lock it still has (`Safe`), and its next lines take
  no more than they will look at, under a lock taken by then (`Covered`). Others may
  add to a place without its lock; they only take from it under the lock, so the
  balance stays enough until the commit. This is about the items that may not go below
  zero (`Ground`); that balances are what was moved is about all. What it has moved and has yet to move is
  what the row it has claimed will say less what the row says now (`Claims`, `Owes`);
  no two claim one row (`OpsApart`), so that at the commit the row and the balances
  change together (`Booked`). The transit is left out of the first claim, since
  a receipt empties it without looking. Sums over transfers go by `FiniteSums`, sales
  and doses by cardinalities.

- `DividingInv`: what was calculated is calculated of the order as it is, so the
  invariant is short and the work is in the calculation. `DistributeLargestRemainder` gives each
  weight its whole cents and one more to those of rank below what is left. The sum of
  the remainders is a multiple of the total weight and at most one remainder less per
  weight (`TotalScaled`, `TotalAdds`), so that what is left is less than the number of
  weights with a remainder; ranks are distinct (`RankCount`), so that many are
  reached, and no one gets more than one cent. A settlement is that distribution
  field by field over buckets whose weights add up to those of the goods
  (`SharesAre`); a progressive commission counts the cents of a base
  by band (`PortionIs`), each of which is in one band as the bands do not overlap.

**The composition of the office.** `FocusInv` joins these as that of the administration
does below: a step of `MCOffice` leaves the components that are not in focus as they
are. A behaviour of it is one of the drawer (`OfficeIsDrawer`), which
stutters outside its focus.

**The administration.** `AdministrationProofs` is about `MCAdministration`, instance by
instance. No handler here holds a row between its read and its write, so every
invariant says what a request still knows when it writes.

- `MemberInv`: of the requests that have taken an invitation and not answered yet, no two
  have the same (`HeldByOne`); the roles that are granted, or offered by an invitation, are live.
- `PurchaseInv`: the provider's answer to a key is one checkout, and every request that
  has passed it carries that one; an intent that has a checkout keeps it.
- `HandInv`: whoever has consumed a handoff is alone in it and has admitted nobody yet.
- `OpeningInv`: an update has seen the row it updates. That setting up the branch never
  takes readiness back (`SetupHelps`) needs no invariant, only that counts grow.
- `BackupInv`: what a job that read a dump needs of it (`JobInv`): that it was whole, and
  that it is there or among the old ones. One job makes a dump of a name.
- `ConnectorInv`: keys are numbered by their issue, one that waits to be written is new
  to its account (`KeysNew`), and one transition of the lifecycle at a time is between its
  steps and started from no revocation (`TransitionAlone`).
- `DeviceInv`, `SavesInv`, `LinkInv`, `DraftInv`: a row is written as a whole or by a
  conditional update, so the invariant is little more than its shape, and that a request
  which activates a revision looked for what was due by then.
- `FilingInv`: the version is the number of changes that counted, and a request
  that holds the row finds it as it was read. The alert is a comparison of products of
  natural numbers, which one more document only lets grow.

**The composition.** `FocusInv` is the conjunction of `focus = f => Inv` over these. A step
of `MCAdministration` either leaves all of its variables or is one of the component in
focus, and never changes the focus (`FocusStays`, `FocusMoves`), so each conjunct is kept by the
lemma of its component. `RecordsKept` and `HistoryKept` follow for the properties
that the run checks, and `AdministrationIsQueue` maps the behaviours of the composition to those of
`FiscalQueue`, which stutter outside its focus; `QueueHolds` is what that gives. The
instances take the module's constants unchanged: their assumptions are that `None` is no
token, dump or role, no row and no number, that the onboarding's steps are finitely many, and
that times, allowances, percentages and the numbers of documents are natural numbers.

## 7. What is only model-checked

- Liveness (`EveryCallEnds`, `OperationsSettle`, `DocumentsSettleWhileUp`,
  `EventsSettle`): out of the proof system's reach, as is anything about
  `ENABLED`.
- `FiscalQueue!TypeOK` documents the shape of its state; `MaxRevision` is a bound
  the instance respects, not a guard.
- `BranchTypeOK`: the shapes of six components in fifteen instances, printing among them, of which
  nothing else is stated.
- `NoDoubleBooking` in the composition: proved for `RoomSpec` with any constants, and
  so for each instance, but not restated for `BranchSpec`.
- `OfficeTypeOK`: the shapes of ten components; what their invariants need of it
  is proved with them.
- `AdministrationTypeOK`: the shapes of twelve instances, as above.
- The four violated properties: what the code does not keep cannot be proved.

## 8. Where the code disagrees with its documents or with itself

### Shown by a run

1. **Stock deducted twice.** `applyDiscount` run from an approval writes
   `version: order.version + 1` from a stale read (`pos.service.ts:1340`) and so
   can set the version back. A second `closeOrder` that read the order earlier
   then passes its version check. (`ledgerApprovalClosesTwice`)
2. **A feed that skips an event.** The trigger takes an event's number before
   its transaction commits, and `poll` moves the cursor past numbers that are
   not visible yet (`operational-realtime.service.ts:142`). The event that
   commits late is never sent and cannot be recovered by the cursor.
   (`realtimeSkips`)
3. **A settlement whose hash is of other data than its totals.**
   `calculateShift` reads orders and payments, and then the hash of the ledger by
   another statement (`staff-finance.service.ts:595`). What commits in between
   is in the hash only, so the settlement passes as up to date. (`settledTotals`)
4. **A refund counts twice.** `common/payment-ledger.ts:15` says that confirmed charges add
   value and refunds compensate it, and its test nets a charge and its refund to nothing
   (`payment-ledger.test.ts:5`), the charge still being confirmed. `refundPayment` takes
   that status away (`payments.service.ts:557`), so that a sum loses the charge and
   subtracts the refund. (`refundsCountTwice`)

### Met while modelling, without a run of their own

Orders and charges:

- A terminal charge exceeds the order beside another, or beside one taken by
  hand: `updatePaymentResult` takes no order lock, and ignores whether its
  versioned update of the order matched (`payments.service.ts:642`). A manual
  charge that read the order before then passes its own version check, and both
  are confirmed. `ChargesFit` is therefore stated for the charges taken by hand.
- A write-off counts `confirmed` charges only, so an order whose charge is partly
  refunded can be written off though the rest of the money is kept.
- The rest of a partly refunded charge cannot be refunded: a partial refund makes
  it `partially_refunded`, and only `confirmed` charges are refundable
  (`payments.service.ts:459`), though the amount still available is computed
  and a test counts on it. For the same reason a partial refund takes the whole
  charge out of the cash a session derives.
- An approved discount that races an added item loses the item's price
  (compare `docs/DATA_MODEL.md:23`).
- A late terminal query confirms a charge again that has been refunded
  (`packages/domain/src/state.ts:43`).
- A write-off sums the confirmed charges while a terminal charge is being
  confirmed, which need not move the version (`orders.service.ts:1229`).
- `addItem` looks at neither status nor `closedAt` (`orders.service.ts:956`):
  an order that is paid, gets another item and is closed leaves that item
  unpaid.
- `transferTable` writes a version computed from an unlocked read
  (`floor.service.ts:682`), so an order can be closed twice as in the first
  disagreement above; it locks tables before the order, and `closeOrder` the
  other way round (`floor.service.ts:640`), a deadlock that PostgreSQL ends.

Cash:

- A closed session is overwritten by a handover received while the session
  closes (`payments.service.ts:745`). `CashDrawer` has it with
  `Strays = TRUE`, and the theorem and the run assume `Strays = FALSE`.
- The running `expectedAmountCents` loses one of two concurrent charges
  (`payments.service.ts:213`); the closing recomputes it, but
  `reports.service.ts:171` shows it.
- Cash taken while no session is open, and paid orders that got another item,
  escape the closing's checks. The handover of a refunded charge can still be
  received.

Fiscal documents and events:

- With more than a hundred documents outstanding the reconciliation may never reach one:
  it takes a hundred in no order (`fiscal-operations.ts:116`), those that fail or have no branch
  stay in the set, and no one is told.
- A document stays pending for ever when the worker dies between the two
  statements of `failClosed` (`fiscal-operations.ts:320`). That is why
  `DocumentsSettleWhileUp` has its condition.
- Querying a rejected fiscal document authorizes it (`fiscal.service.ts:749`;
  compare `docs/FISCAL_BRASIL.md:49`). A stale candidate can claim an
  operation again that has succeeded. A webhook clears the lease while a pass
  works. A failed operation overwrites an authorized document's status.
  Documents in error are queued again every minute without end.
- Two orders can get one fiscal number (`fiscal.service.ts:495`, `:608`).
- An outbox event whose process died after the claim stays `processing`, and
  `retryEvent` does not accept it; events without a tenant end the same way. An
  event that was received is given up if the update that says so fails often
  enough.

Approvals, tables and guests:

- `approve()` applies a request another manager has just rejected, and never
  applies one whose first attempt crashed (`approvals.service.ts:259`).
- One approval can let two guests in (`qr.service.ts:1331`).
- A guest's order is added to an order that was closed after the check.
- Two activations of one table race, and the later one wins over a session
  the earlier one had just given out.
- Releasing or seating a table ignores a paid order that is not closed;
  `SeatEntry` seats a party again that is seated; archiving a table whose
  status is `blocked` skips the check for open orders
  (`pos.repository.ts:346`).

Kitchen, printing, waiters:

- The review of guests' items writes the version from an unlocked read
  (`pos.service.ts:538`). A batch that read the order before commits against
  it, so an item that was rejected is cooked.
- A notice of cancellation that is written into a ticket's payload is lost when
  a screen writes the payload it read before.
- A job is recorded as printed that never came out: the connector's default is a dry run
  that logs it and reports it complete (`local-connector/src/index.ts:19`, `:112`), a
  printer's socket that ends counts as printed (`:147`), and a user who operates printers completes
  any job (`printing.controller.ts:160`, `:220`). Overlapping polls print a job twice
  (`printing.service.ts:587`); a connector
  that dies leaves it `printing`, which nothing takes up again and which blocks
  the closing of the shift; a heartbeat writes the configuration it read before.
- An assignment, a request for help or an order is inserted into a shift that was
  closed meanwhile (`orders.service.ts:238`). A manager's
  `expectedVersion` may name an assignment of another shift.

Browser:

- An entry one tab has confirmed is set back to `requires_attention` by another
  tab whose answer was lost; the effect is not repeated. The branch for a
  receipt that is "still being processed" cannot be reached, because the
  reservation and the effect commit together.

Stock:

- A place that is being archived can receive stock or be made the place of
  consumption at the same time. Goods in transit may become negative, since
  receipts add without reading. A count may be off by what was added without
  the lock while it ran. Places are archived by the sum of their balances over
  all items, so an item that is owed (`allowNegative`) hides another that is there.

Staff finance:

- The revision that a reopening creates is not part of any calculation, so a
  shift with one cannot be closed before it is calculated again; a shift
  without orders has nothing to settle and cannot be closed.
- Two occurrences of different types on one order each recover the whole
  balance. An accrual is not invalidated when a settlement it counts is reopened.
- A charge that was partly refunded counts for nothing in a settlement: it is then
  `partially_refunded`, and `netChargeAllocations` takes confirmed charges only
  (`payment-ledger.ts:48`), while it subtracts refunds from them.
- Where a band without an end is followed by another, a progressive commission
  ends it at the next start and one by whole band does not
  (`staff-finance.calculations.ts:381`, `:388`); nothing refuses such bands.

Intake and publishing:

- An event that is sent again while it is claimed is acknowledged; if its holder
  then dies, no one sends it again. A holder whose lease ended and who fails
  sets the event back to failed after another has processed it. Events of one
  subscription are applied in the order they are handled.
- The staff's update of a delivery overwrites a status that arrived meanwhile
  (`delivery.service.ts:131`). Canceling replaces the notes that carry the
  correlation key, so that a canceled external order can be entered again
  (`delivery.service.ts:262`).
- Publishing and rolling back a guest page at the same time can leave two
  published revisions, and an activation beside another can archive the revision
  just published and leave none (`qr.service.ts:411`, `:2166`). `GuestPages` has the
  steps; `HistoryHolds` does not say that one is published.

People, purchases, integrations, settings:

- Two `assignUserRole` of a user without a role each insert a row. A role that any
  invitation names, even one long accepted, cannot be deleted.
- `tenants.settings` is read and written whole by several handlers
  (`platform.service.ts:929`, `tenants.service.ts`), so notes, branding or the
  checkout written in between are lost; the business hours are merged the same way. An
  event that was paid is set back to `checkout_ready` by a late `WriteIntent`.
- Configuring the club integration takes no lifecycle lock: a health check that read
  `active` before writes its older configuration and `active` over the
  homologation. A configuration that races a revocation can leave an active account without a
  key. A heartbeat writes back the configuration it read, so a printer's
  connector returns to its old branch.
- Before payment settings are first saved, `get` shows version 1, and the first save
  also gets version 1: a form opened before it overwrites it
  (`payment-settings.service.ts:77`).
- A handoff that is refused after it was consumed, because the entitlement was taken away
  meanwhile, is spent (`ecosystem.service.ts:326`).
- Two first openings of a branch's onboarding insert the same step, and the second fails on the
  unique index. The step offered next is never one in progress (`onboarding.service.ts:308`).
- A dump without metadata is listed as `completed` (`backup.service.ts:121`). A validation that
  ends after the cleanup writes the metadata of a dump that is gone.
- The allocations of a charge that was refunded still count against the items
  (`payments.service.ts`, `validatePaymentAllocations`), and after an approved cancellation set the version
  back a charge may stay for an item that is canceled.
- Two rows of a card statement may be matched with one payment. The status
  `provider_accepted` is declared and never written.

Reports (`reports.service.ts`):

- A report is several statements without a transaction (`:98` to `:229`). What is
  ordered or paid in between is in one part and not in another, and the parts look at different
  columns of time (`createdAt` at `:89`, `confirmedAt` at `:206`). A window is what its rows'
  clocks say, and a default of `now()` is the beginning of a transaction: a session that was being opened
  while the one before it closed may begin before that one's end, and a payment count for both. Where
  a statement fails, sales by period are empty instead (`:594`).
- Open cash sessions count as balanced. `canceledOrders` is always 0, since nothing gives an
  order that status. An order paid in two periods counts in both, and the average of
  a period is truncated. What open orders owe includes what is paid of them. Refunds
  count as payments. The totals of product sales are those of the thirty rows listed.

Pages:

- A second payment of the same amount and method gets the key of the first
  (`OrderStepper.tsx`: order, amount, method) and is answered as a repetition.
- The keys of a guest's requests for service are never removed from
  `sessionStorage`.

## 9. What is not modelled

- *Signing in, second factors, passwords, PINs, OAuth exchanges, sessions.*
  Sequential checks on rows of one account, around hashing, cookies and I/O.
- *Provisioning of tenants, campaigns, catalogue, customers.* Rows that one operator at a
  time creates, reads and writes whole.
- *The reports*, but for the sum of payments: financial, product sales by the thirty best
  (`reports.service.ts:463`), sales by period, performance, summaries. They only read, by several statements, and
  nothing in the repository says how what they show should agree (section 8). Audit and
  health append or read.
- *Of the fiscal part*: the numbering of documents, credentials, mappers; *the former
  fiscal worker*, which only its tests call.
- *Of the guests' pages*: artwork, themes, attribution, attempts at a table's code, feedback. *Of the tables*:
  seats, layout, areas. Independent rows.
- *Rendering, and the protocols of printers and of the fiscal and payment providers.*
- *Of the orders*: assigning a customer, and the service charge except as an
  amount in `Shares`; the
  kitchen's flow is in `Kitchen` without amounts, transfers in `DiningRoom`
  without amounts. Nothing composes them with the ledger's amounts.
- *Of staff finance*: disputes and manual adjustments. What a calculation adds up is opaque where it races; `Shares` computes it.
- *Of inventory*: purchases, lots and recipes' versions.
- *Of a shift's closing*: that it refuses while cash, prints, documents or
  events are open is a free refusal in `Waiters`. Its checks precede the closing
  without a lock (`shift.service.ts:112`), so new ones may arrive in between.
- *The backup script, deployment, the job runner, middleware.* Files, processes and
  timers; the runner shows as passes that start and die.
- *The web pages, the API client `giromesa-api.ts`, controllers, the database
  schema and its seeds*: about half of the implementation's lines. They render, forward or declare;
  keys, defaults and triggers of the schema are used where a model needs them.
- Permissions, tenant scoping, audit records and realtime events within a
  handler. They are written in the same transactions and decide nothing that is
  modelled here.
- Formats, texts and wire protocols. Overflow of cents is not reached.

The lines that remain in the services with concurrent state are mostly reads,
validation and the shaping of answers.

## 10. Plan

Models that could be added: the checks of a shift's closing composed with
printing, documents and cash; fiscal numbering; the ledger's amounts under
`transferTable` and the review of guests' items.

## 11. Running it

```
tlc -config LedgerDesks.cfg MCOrderLedger      # each run: see PROJECT.json
tlapm OrderLedgerProofs.tla                    # and the other modules of section 6
```

`CHECK_DEADLOCK` is set in the configurations, so no further options are needed.
The longest run takes a few minutes on two workers.
