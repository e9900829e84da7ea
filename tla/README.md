# Khanya POS: a verification project in TLA+

This directory models the parts of Khanya POS in which several actors share
state: the offline-first Flutter client (`apps/mobile`) and the FastAPI /
PostgreSQL service behind it (`services/api`). Every module is checked with TLC on
small instances; the most important invariants of the client and of the server are also
proved with TLAPS, for every value of the constants.

## 1. Inventory

| Component | State it keeps | Operations | What is hard | Module |
|---|---|---|---|---|
| **Offline outbox and sync pipeline** `core/sync`, `core/storage/app_database.dart`, the feature repositories | one row per user action with a client operation id and a status; a document's remote id | record an action; `flushAll` and the shorter flushes; clean up a receipt | several flushes over lists read earlier; lost answers, late requests, crashes; order of dependent work | `OfflineOutbox` |
| **Projected stock of the device** `app_database.dart` | `cached_products.on_hand_milli`, lines of pending rows | queue and apply, undo on conflict, replace the cache and re-apply pending work | refresh against flush, compensation applied twice | `StockProjection` |
| **Credit reservations** `features/customers/data` | outstanding and available credit per customer, reservations - in a second database | reserve, release, finalize, reconcile, replace | a saga over two databases without a common transaction | `CreditReservation` |
| **Server sales, payments, returns** `services/sales.py`, `customers.py`, `sales_returns.py`, `idempotency.py`, `routes/service_checkout.py` | sales, lines, stock, receivables, advances, journals | complete a sale or a service, take a payment, return goods, void, edit a customer's credit | duplicates, concurrent credit checks, lock orders, subledger against general ledger, rounding of parts | `SalesLedger` |
| **Till** `services/till.py` | shifts, cash movements | open, move cash, close with a count | what a drawer should hold is queried, not stored | `Till` |
| **Purchasing, expenses, inventory controls, receipts** `services/purchasing.py`, `inventory_controls.py`, `routes/inventory.py`, `products.py`, `documents.py` | purchases, payables, average cost, stock, movements, documents | buy, pay, spend, adjust, transfer, count, edit a card, upload | cost and stock read before they are changed by others; branches and products locked in different orders; two stores without a common transaction | `Goods` |
| **Accounting** `services/accounting.py`, `management_reports.py` | journals, the period lock | post, reverse, lock a period, draw up statements | checks without a lock; statements made of several SELECTs | `Books` |
| **Outbox worker and realtime** `workers/outbox.py`, `realtime/` | outbox events, subscriber, sockets | take a batch, publish, mark; broadcast | crash between publish and commit; sockets that break during a broadcast | `EventRelay` |
| **Workflows** `routes/workforce.py`, `appointments.py`, `services_catalog.py`, `service_materials.py`, `purchase_orders.py`, `growth.py` | shifts, punches, bookings, services, orders, points, quotations, alerts | check, then insert or update | two requests pass the same check; retries without an operation id | `Desk` |
| **Sessions and administration** `routes/auth.py`, `tenants.py`, `staff.py`, `devices.py`, `subscriptions.py`, `platform.py` | tenants, branches, members, sessions, devices, subscriptions | sign up, in, out, refresh; approve, suspend; edit | a session revoked while it is refreshed; a business suspended while somebody signs in | `Access` |
| **Tokens and drafts on the device**, **screens, reports, histories** | a token pair; a file of held sales; nothing | one shared refresh; edits by one screen; queries | - | none |

How they interact: repositories write the device's databases and start a flush;
the flush POSTs rows in dependency order with their operation id; the server runs
one database transaction per request, under an advisory lock on that id, and
writes business rows, journal, movements and outbox events together; the worker
hands the events to Redis and the API to the devices' sockets; a device that hears
of one refreshes its caches, over which it lays again what is still pending.

What the client and the server promise each other is written twice, once from each
side: `Delivery` is what a device takes for granted about an operation, and
`OperationServer` is what the server does with the copies of one. `OfflineOutbox`
implements the first, `SalesLedger` the second.

## 2. The modules and the plan

| Module | Extends | Says |
|---|---|---|
| `Delivery` | - | abstract: an operation takes effect at most once and is reported as done only if it did |
| `OfflineOutbox` | - | the outbox and its pipeline |
| `StockProjection` | `OfflineOutbox` | cached stock has every recorded operation once, and what a crossing refresh or an old list does to it |
| `CreditReservation` | - (its own, coarser flush) | credit is given back as often as it is taken and kept while the sale waits, but for two named ways; orphans are found |
| `OperationServer` | - | abstract: of the copies of an operation one takes effect and the others are told so |
| `RowLocks` | - | row and advisory locks, first come first served, and cycles of waiting |
| `Requests` | `RowLocks` | one HTTP request as one transaction: arrival, lookup under the operation's lock, work, answer, rollback, crash |
| `SalesLedger`, `Till`, `Goods`, `Books` | `Requests` | one service each, over the rows it shares |
| `Records` | `Requests` | a handler as a SQLAlchemy session: load, decide on what was loaded, write changed columns |
| `Access`, `Desk` | `Records` | the routes that work this way; `Desk` extends `Access` |
| `EventRelay` | - | at-least-once publication and the broadcast |
| `DeviceProofs` | `StockProjection`, `EventRelay` | theorems about the outbox, the projected stock and the events a device hears of |
| `Sums` | - | lemmas about a sum over a finite set: one term changes, terms are added, a sum is split or bounded |
| `RequestsProofs` | `Requests`, `Sums` | lemmas about locks, queues and copies of an operation, for the modules below |
| `SalesLedgerProofs`, `TillProofs`, `GoodsProofs` | the module, `RequestsProofs` | theorems about each service |
| `BackOfficeProofs` | `Books`, `Desk`, `RequestsProofs` | theorems about the books, and about the handlers of `Access` and `Desk` |
| `CreditReservationProofs` | `CreditReservation`, `Sums` | theorems about credit on the device |
| `MC...` | the module | constants and scenarios for TLC |

A **scenario** of a server run is a set of requests that are sent together; `Init`
chooses one, and only its requests ever arrive. Each puts three to six requests
over the same rows, so that TLC sees all their interleavings without the product of
all requests with each other.

What is left: the projection of queued customer payments in `CreditReservation`.

## 3. The outbox

`OfflineOutbox` models every table of pending work and every flush over them;
`Delivery` says what a device promises, without flushes, requests or failures.
`MCOfflineOutbox` gives the operations of each run their kinds, receipts and
dependencies.

| In the module | In the code |
|---|---|
| `row`, `createdAt`, `link`, `remote` | the pending tables: status, `createdAt` (the order of every list), `localDocumentId`, `remoteDocumentId` |
| `Queue` | `queueSaleAndApplyStock`, `queuePurchaseAndApplyStock`, `queueDocument`, `queueExpense`, `queuePayment` |
| one flow: `pc`, `stage`, `todo`, `cur`, `reply`, `seen` | one Dart task in `flushAll` or a shorter flush: its stage, the list it has read, the item it is sending and what it has learned |
| `StartFlow`, `ReadStage`, `TakeItem`, `EndStage` | the stages of `flushAll` and their loops over a list read once |
| `MarkInFlight`, `Mark`, `Reread`, `Rewrite` | `markPending*`: whatever status it is given, over whatever status the row has; for a document, a read and a write back in two statements |
| `ReceiptUnusable`, `ReceiptWaiting`, `Post` | what a purchase or an expense does about its receipt before it is sent |
| `ServerCommits`, `ServerRefuses`, `ServerDenies`, `ServerErrs`, `ConnectionLost` | the answer: accepted, a 4xx, a 401 or 5xx, or no answer before or after the commit |
| `StrayArrives`, `StrayVanishes` | a request the device has given up on reaches the server later, or never |
| `Settle*`, `CleanupDocument`, `CleanupThrows` | what each stage does with the answer, and `deletePendingDocumentIfUnreferenced` |
| `Crash` | the process is killed: every flow is gone, the databases stay |

Each `await` on a database or on the network ends a step, so other flows may act
there. Amounts are left out; a refusal for the content of an operation is a choice
fixed in `Rejectable`, because a copy of a request must be judged the same way.

**What the runs show.** `outbox_concurrent`: a complete flush overlaps with an
expense flush over a receipt that a purchase and an expense share, with one failure
of any kind: nothing is called done or dropped that the server does not have
(`DoneIsOnServer`), the receipt is on the server before what refers to it
(`ReceiptFirst`), and the outbox implements `Delivery`. `NoReceiptLeft` is about the
other end of a receipt's life: once the work it was attached to is gone, the receipt is
gone too, or a row still refers to it, or a flow is at its clean-up, or the app was
killed exactly there. The last case is real: nothing in the repository looks for such a
receipt again. The strengthened invariant of the proofs (`OutboxInv`) holds as well; it
says among other things that a document shown as uploaded has its remote id, although
`markPendingDocument` reads that id and writes it back in two statements and an id stored
in between is lost (the document is then pending again, and uploaded again).
`outbox_one_flush`: a receipt, three purchases that share it - the smallest number for
which `getSingleOrNull` finds two rows and throws out of the flush - a sale of their goods
and a payment for the sale. A clean-up that throws, an answered error, a lost answer or a
crash leaves nothing in the outbox for ever (`EventuallySettled`). `DependenciesFirst`
says exactly how far the order of the stages reaches: what a flow sends was preceded by
what it builds on, or that has been put aside as a conflict, or this very flow has
deferred it, because an answered error ended its stage (`SettleError`) or its receipt was
not up yet (`SettleWaiting`). No lost answer, crash or other flow can break the order.

**Fairness.** Tasks that are ready run (`WF` of each flow's steps) and the server
answers (`WF` of `ServerStep`): the event loop and HTTP timeouts give that. Nobody
is obliged to record anything, and failures are bounded by `MaxFaults`, which
stands for "failures do not go on for ever". `Retried` says of one complete flush
that it is started again and again - session start, connectivity, the Sync button
and every sale do that - and that from some time on it is alone: two flushes that
overlapped for ever could hand a document's remote id back and forth.

**Finding `payment_overtakes_sale`.** `flushAll` stops between stages only when the
network is unavailable. A 5xx or 401 ends the sales stage without that flag, and the
customer's payment is sent before its credit sale, against the comment at
`customer_repository.dart:217`. `SaleBeforePayment` is `DependenciesFirst` for payments
without the exception.

Overlapping flushes have a second way into that exception: with two flushes and no
failure, a remote id stored between another flow's read and write is lost, the purchase
waits for its receipt, and the sale of its goods goes first.

**Proved** (`DeviceProofs`, for any operations, receipts, pipelines, flows
and failures, overlapping or not): `TypeCorrect`, `OutboxInvariance`, `DoneCorrect`,
`ReceiptCorrect`, `ReceiptsCleared` (`NoReceiptLeft`), `InOrder` (`DependenciesFirst`),
and `Refinement`, that every step is a step of `Delivery` or a stutter. `DoneIsOnServer`
and `ReceiptFirst` are not inductive: a flow holds an answer it has not yet written down,
a remote id stands for an upload, and a request may still be travelling. `IInv` adds
exactly that: an accepting answer (`AcceptedIsOnServer`), a remote id
(`RemoteIsOnServer`) and a sent or stray request (`SentWithReceipt`) are never ahead of
the server's books; `TakenIsQueued` ties what a flow holds to rows that have existed, and
`LinkIsReceipt` says that the only link ever stored is the one of the recording.

`OutboxInv` adds what the order needs. `SweepInv`: of the rows a flow found when it
began, those whose stage is done have reached the server, been given up or been deferred
by it, and those of the present stage that have not are still in its hands. What makes it
inductive is that rows get their place in creation order once (`CreationInv`), that
statuses are earned (`RowInv`), and that a flow holds items of its stage only
(`WalkInv`); another flow can settle a row or put it back, which takes nothing from what
this flow has put away or holds. The proofs use no assumption beyond `OutboxAssumption`,
which types the constants and says that a receipt is a document and that what builds on
something is a sale on purchases or a payment on a sale. Liveness is model-checked only.

## 4. Projected stock

`StockProjection` extends `OfflineOutbox` with the cached quantity of one product.
The quantity is kept as what it is made of: `counted[o]` is how often operation
`o` is part of it, and `OnHand` is the number. `OutboxStep` is a step of the outbox
with what the same SQLite transaction does to the stock: recording applies the
lines, and fails if the cached stock does not cover a sale; a row that becomes a
conflict and is not one yet undoes them. `Fetch` is the GET of the products,
`Replace` is `replaceProducts`: delete, insert the answer, apply again what is
`Active`. Between the two, flushes and other refreshes go on.

Two things make the number wrong, and both are in the code:

- **A refresh crosses a settlement.** The server accepts a sale; before the flush has
  written "synced", a refresh fetches a number that contains the sale, and
  `replaceProducts` deducts it once more because its row is still "syncing". Or a refresh
  fetches a number without the sale and installs it after the row is settled: then it is
  not deducted at all. The next refresh that crosses nothing puts it right. `crossed`
  remembers such operations of the last refresh.
- **A second flow with an old list writes a settled row again.** Nothing keeps two flushes
  apart (`SyncBloc._running` guards the bloc alone, and `submitSale` and the purchase
  repository flush on their own), `markPendingSale` writes 'syncing' over a 'conflict' or
  a 'synced' it does not expect, and a refusal that follows undoes the lines a second
  time. `reopened` remembers such rows until the next refresh.

`ExactProjection` says that these two are all: for every other operation the cached number
has the lines exactly once from the moment it is recorded, whatever the server has of it,
and not at all once it is refused. An operation that a refresh has crossed is counted
twice as long as it is open, never lost (`PendingCounted`): the device then offers less
than there is. `Converges`: whatever happened in between, once the work is settled the
number becomes the server's for good.

`stock_overlap`: a purchase with its receipt and the sale of its goods, a complete flush
and a purchase flush that overlap, refreshes again and again, and two refusals or lost
answers. The run has one refresh under way at a time; a crash is left to the theorems,
since it ends flows and refreshes and changes no row. Fairness says that refreshes are
asked for again and again, which SyncBloc does after every flush that settled something,
realtime stock events do, and opening the catalogue does.

**Proved** (`DeviceProofs`): `StockInvariance`, `ProjectionExact` and `PendingIsCounted`,
for any operations, flushes, refreshes and failures, however they overlap.
`ExactProjection` becomes inductive with `AnswersCommitted`: an answer of the server names
committed operations only, those are queued ones, and what moves stock is never
"uploaded". `OutboxUnderneath` carries every theorem about the outbox over to the
composition. Convergence is model-checked only.

## 5. Credit reservations

The sale waits in one SQLite database, the credit it takes and the customer's
balance are in another, and no transaction spans the two. `CreditReservation`
makes every transaction a step: `Reserve`, `Queue` (or `QueueThrows` and `Undo`) of
`submitSale`; `TakeSale`, the answer, then `Finalize` and `Synced`, or
`MarkConflict` and `ReleaseRefused`, or `PutBack` of a flush; `ReadSales`,
`ReadReservations`, `ReleaseOrphan`, `Fetch` and `Replace` of a refresh. The balance
is a number, clamped as the code clamps it, and `counted` is what it is made of. The
flush here is coarser than the outbox's (no receipts, sales only), and the order in
which it takes its list is left open; payments are not modelled.

`credit_overlap`: two sales of which the limit covers one at a time, two flushes, one
refresh, and one failure: a `Queue` that throws, a denied request, a lost answer or a
crash.

- `ReservationsKept`: credit is given back at most once for each time it is taken,
  although four parties may try, and a sale that waits to be sent holds its credit until
  the server has it. There are two ways to lose it, and the property names both.
  `overlooked`: a reconciliation reads the queued sales, then the reservations, while
  `submitSale` reserves, then queues; a sale queued between the two reads is in the second
  list and not in the first, and its reservation is released while it waits
  (`customer_repository.dart:249`). `retaken`: a flush with an old list takes up a sale
  that another has refused and released. Either way the device may promise the same
  credit twice, and the server then refuses one of the sales.
- `OutstandingExact`: the balance shown is the sum of what it is made of, so the clamp at
  zero never hides anything. The credit offered is what the limit leaves of it, and more
  by `cut` at most: when a refresh finds more owed than the limit allows, it offers zero,
  and a release after it adds the full reservation to that zero
  (`customer_database.dart:159`).
- `OrphansReleased`: a reservation left without its sale by a crash or a throwing `Queue`
  is found and released. Liveness assumes that what has begun goes on and that flushes
  and refreshes are asked for again and again.

**Proved** (`CreditReservationProofs`, for any number of sales, flushes, refreshes,
failures and crashes): `TypeCorrect`, `CreditInvariance`, `CreditKept`
(`ReservationsKept`) and `OutstandingIsExact`. `CreditInv` ties each task's place to the
reservation it must have made (`TasksHold`), each flush's answer to what the row says and
the server has (`FlushesHold`), and whatever a reconciliation is about to release to a
reason: not found in the outbox, settled, refused or retaken (`RefreshesHold`).
`OutstandingExact` is a sum over a set that each step changes in one term (`Sums`).
`OrphansReleased` is liveness and model-checked only.

## 6. Requests, locks and scenarios of the server

`get_db` opens one READ COMMITTED transaction per request. `Requests` is that
request: it arrives, takes the advisory lock of its client operation
(`services/idempotency.py`), looks the operation up, works, and commits with an answer,
rolls back to be sent again, or dies. `RowLocks` grants a row to whoever asked first
and keeps it until the end of the transaction; a request that waits in a cycle is
`Deadlocked` and the database aborts one of them. What a handler reads from rows it
has locked, and what it writes, is one step with its commit: nobody can see the
difference. What it reads **without** a lock is a step of its own, at the place of the
code's SELECT, and used later as it was read. `Mortal` names the requests that may
lose their process before the commit.

Fairness (`FairSpec` of `SalesLedger` and `Goods`): a request that the server is working
on goes on when it is not blocked; a cycle is found within `deadlock_timeout`; crashes
end. Whether a request that was rolled back comes again depends on who sends it
(`Resent`). What the device's outbox holds - sales, customer payments, purchases, expenses
and receipts - is sent again under its operation id. A return, a void, a service checkout,
an adjustment, a transfer, a stocktake, a supplier payment and the edit of a card are
POSTed once (`sales_repository.dart:303`, `inventory_control_repository.dart:73`); if the
user tries again it is a new operation, and nothing obliges anybody to, so the model
allows it and does not assume it. `EventuallyAnswered` promises accordingly: again and
again there is a moment at which everything from the outbox that was sent is answered and
no other request is at work or waits for a lock. The first two conditions are weak
fairness of the handlers, written out as "infinitely often not enabled, or infinitely
often taken", so that TLC need not evaluate whole handlers to see whether they are
enabled. `Till`, `Books` and `Desk` claim no liveness and have none.

**Proved** (`RequestsProofs`, lemmas for every module that extends `Requests`): a row has
one holder, the head of its queue; asking for a row leaves every holder where it is, and
leaving gives the row to the next; queues stay free of repetitions and of requests that
have ended; a request at work holds its operation's advisory lock, so no other copy is at
work on it. These are facts about steps that the four services share, cited from
their invariants.

## 7. Sales, payments and returns

| `SalesLedger` | Code |
|---|---|
| `sale`, `payment`, `return` | rows of `sales` (balance due, when it was completed and when it is due), `customer_payments` with their allocations, `sale_returns` with their lines |
| `onHand`, `card`, `journal` | `branch_product_stock`, the credit limit, status and payment terms of `customers`, the journal each operation posted |
| `ToLock`, `Lock` | products in product order for a sale (`sales.py:110`), the customer and then its open sales for a payment (`customers.py:230`), the sale and its products in line order for a return (`sales_returns.py:344`), the customer for a credit sale |
| `CompleteSale`, `CompleteServiceCheckout`, `RecordCustomerPayment`, `ProcessSaleReturn`, `Refuse` | everything the handler writes, or its refusal |
| `UpdateCustomer` | the PATCH of a customer's limit and status, at any moment |
| `DbAbort`, `Crash` | a cycle or a dead process: nothing is written; what the outbox holds is sent again |

`sales_ledger` sends copies of a credit sale, a sale at another branch, payments with
and without named allocations, two partial returns and a void of one earlier sale, a
void of a service, which has no lines to return and is refused, and a service checkout on
the same credit, in four scenarios. It checks that the server
implements `OperationServer`; that stock is what completed sales and returns leave of
it; that every sale owes what its total less payments and returns comes to and the
receivables reconciliation of `services/receivables.py` answers healthy at every
moment (`ReceivablesHealthy`); that no line is returned twice; that what a customer
owes only grows within the limit then in force, though two branches sell at once and
the limit is lowered meanwhile; that a sale which has come back in parts leaves nothing
in revenue, inventory and cost of goods (`NothingStranded`: the last part takes what
rounding left); and that what the outbox sends is answered and nothing else
hangs, though sales, returns and payments lock in three different orders. A payment that
names no sales goes to the one due first, then to the one completed first (`DueOrder`);
time is counted in sales, and the terms of a customer move a sale in that order. All
products are on sale here; withdrawn ones are in `Goods`.

Two things the model found that no property of a run forbids:

- A return posts the cost of every line it takes back (`sales_returns.py:406`), a
  sale only that of products whose stock is tracked (`sales.py:214`). When an untracked
  product comes back, its cost stays in inventory and cost of goods, though the comment at
  `sales_returns.py:393` says that the last return leaves nothing there
  (`ReturnLeavesNoTrace` says what the comment says; the sales of the run have tracked
  products only). `NothingStranded` states, and the theorem proves, exactly what remains.
- Each part of a line but the last is rounded half up, and the last takes what is left:
  after enough parts of a cheap line that is less than nothing, the table's check refuses
  the row, and the last part can never be returned (`Unstorable`): an error 500 however often
  it is sent. The run's quantities are too small to reach it; the theorems cover it.

**Proved** (`SalesLedgerProofs`, for any requests, branches, customers, products, prices
and limits): the six safety properties of the run, and `LedgerImplementsServer`. The
invariant is `LedgerInv`: types; balances, and that what is not sold yet has no payment or
return (`BalanceInv`); stock; that the parts of a line given back never exceed it, in
quantity, and end on its amount when nothing is left (`ReturnsInv`); that each journal is
the one its operation posts (`JournalsMatch`); and that the receivables, advances and
returns of a branch add up account by account (`AccountsInv`). Only the last is a
sum that all handlers change; the lemmas of `Sums` reduce each step to the one term
it changes. The refinement adds `ServerInv`: a request at work holds the lock of its
operation and the operation has no row. `CreditStaysWithinLimit` is an action
property: the handlers that raise a balance compare it with the limit they have locked.

## 8. The till

`shift`, `moved`, `soldAt` and `refunded` are the rows of `till_shifts`,
`till_cash_movements`, cash sales and cash refunds. The cash a drawer should hold is
not stored while it is open: `Counted(s)` is the set of operations that `till.py` sums
over at that moment. `PrepareShift`/`InsertShift` is an opening (the index on open
shifts decides), `LockShift` and `ComputeCash` what movements, refunds and closes do
under the shift's row lock, `TimeSale`/`CommitSale` a cash sale, which takes no such
lock and fixes `completed_at` before it commits.

`till` lets two openings, a paid-in, two paid-outs, a refund, a cash sale, a close sent
twice and the close of another shift meet. One shift is open at a time, no paid-out
overdraws the drawer, a closed shift stays as it was counted, and a refund is always
part of the shift it was paid from. What a close can miss is only a cash sale on its
way (`OnlySalesMissed`): the stored expected cash and variance may then differ from
what the same query says a moment later. The model also shows that an opening which
stalls between its clock and its insert has a window that overlaps the next shift's;
no property forbids it, because nothing in the repository does.

**Proved** (`TillProofs`, for any requests, shifts, cashiers and amounts): all four
properties and the types. `OnlySalesMissed` is the deep one. Its invariant ties clocks to
locks: nothing is dated after now (`ClockInv`); a request that has computed the cash of
a drawer still holds the shift, so that only cash sales, which do not lock it, can have
come since (`DrawerInv`); a refund is counted in the shift it was paid from (`RefundInv`);
and so what a close did not count is sales (`CloseInv`). `CopyInv` says that a request
at work is the only copy of its operation.

## 9. Goods

`Goods` puts purchasing, expenses, inventory controls, the product card and receipts
over the same rows: `due` (what a purchase owes), `moves` (`stock_movements`),
`onHand`, `card` (average cost), `journal`, `stored` (the object store) and
`document` (its rows). `Lock` takes the rows in the code's order - branches before
products for transfers and stocktakes, products alone for the others - `Read` keeps
what was found, and one action per handler writes: `CompletePurchase`,
`RecordSupplierPayment`, `RecordExpense`, `AdjustStock`, `CompleteStockTransfer`,
`PostStocktake`, `CompleteSale` (as far as it moves stock), `UpdateProduct`.
`WaitToWrite` is the foreign key of a new row to a branch that somebody else has
locked. `FindDocument`, `PutObject`, `RecordDocument` are the three steps of an upload.

`goods` checks that stock is the sum of its movements although all of them write
`on_hand` from what they read; that payables and supplier advances agree with the
ledger and no purchase is paid twice; that the inventory account stays within a cent
per movement of the stock valued at average cost, where a product is held at one branch
and nobody edits its cost (`ValuationTracked`; the average is taken over one branch's
stock, so with two it does not, and a PUT of a card writes back the average it was
loaded with); that a recorded document has its bytes; and that no request
hangs in a deadlock between branch and product rows, and what the outbox sends is
answered. Suppliers are active: no route of the repository switches one off
(`routes/suppliers.py` has a GET and a POST).

Known behaviour no property covers: a purchase of no value is an error 500 however often
the outbox sends it; a receipt first uploaded at one branch answers "duplicate" at
another, which may then not name it; `unit_cost` of a line is stored with two decimals;
a sale between a count and its posting is counted twice. Copies of an operation carry
the same payload here, so the refusals of a reused id with another payload
(`inventory_controls.py:52`) do not come up.

**Proved** (`GoodsProofs`, for any branches, products and requests): `StockIsMovements`,
`PayablesHealthy`, `DocumentsStored` and the types. A handler writes `on_hand` and the
balance of a purchase from what it has read, so the invariant says that what it has read is
still there: it holds the rows it had to lock until it ends (`HeldInv`), so nobody has
changed them (`SeenInv`). One exception is true of the code and part of the invariant: a
payment that looked for its purchase before it was there has seen no balance, and is
refused. Every posted journal carries to payables and advances what its operation owes
or pays (`JournalInv`), and the two sums follow.

`ValuationTracked` is proved as far as it is true. The average cost is rounded, and what
that loses is multiplied by the stock: with enough of a product it is more than the cent
per movement that the property allows. `ValuationWithin` states the bound for every
quantity: as long as no branch has held more than k of a product, the valuation of the
stock and account 1200 are at most (`CostScale` + k) / 2 units of cost per movement
apart, half a cent for the line that is posted and half a unit of cost for each item
held. `ValuationStaysTracked` is its case k = `CostScale`, where it is the property
that `goods` checks. The argument goes step by step: the cost a handler computes with is
the one that is stored, since it holds the card (`CardsInv`); where a product is held at
one branch, the stock it averages over is all there is; and the sum over the products
changes only in those that the operation moves. It needs that a transfer goes to another
branch of the business, which `complete_stock_transfer` checks before it writes.

## 10. The books

`entry` is `journal_entries` with their lines, `lockedThrough` the period lock.
`CheckJournal` is what `post_journal` and `reverse_journal` look up without a lock,
`CommitJournal` the insert some time later, where a unique constraint decides between
two of one source (the loser's IntegrityError is caught nowhere and answered 500; the
model counts it as refused, since nothing is written and nothing is locked); `LockSettings`, `ReadSettings`, `AdvancePeriodLock` the move of the
lock under its row lock; `Select` one SELECT of a statement, which remembers in `reads`
the entries it has seen.

`books` checks that nothing is reversed twice and a reversal cancels its journal
(`ReversedOnce`); that the lock never moves back and a locked day settles once the
journals checked before are through (`PeriodSettles`); and that the difference a
balance sheet or a cash flow statement shows is exactly what was committed between its
SELECTs, and drawings (`StatementsExplained`). A stronger closed period - nothing is
posted to a locked day, as `docs/accounting-engine.md:19` has it - does not hold: a
journal that was checked before the lock may commit after it.

**Proved** (`BackOfficeProofs`, for any postings, reversals, locks, statements and dates): all
three properties, and that every journal balances. The invariant `BooksInv` says that what
was checked stays true until it is used (`CheckedInv`: a journal never changes once it is
there), that a reversal names the manual journal it cancels and shares it with no other
(`ReversalInv`, which the unique constraint keeps), that whoever has read the settings
holds their lock (`LockInv`), and that each SELECT has seen journals of its range and
all those an earlier one saw (`ReadsInv`). The statements then differ from the books by a
sum over the journals between two sets, which the lemmas of `Sums` split.

**Finding `books_sheet_drawings`.** `balance_sheet` (`accounting.py:554`) adds the
balances of all equity accounts, each on its normal side. Owner Drawings (3100,
`accounting.py:46`) is an equity account with a debit balance, so drawings are added to
equity instead of taken from it: one manual journal, with nobody else at work, puts the
sheet out by twice its amount, and the screen stops saying "Balanced".

## 11. Events

`CommitEvent` is the row an operation commits with its other rows; `Claim`, `Publish`,
`PublishFails`, `CommitBatch` and `CrashWorker` are `workers/outbox.py` with
`FOR UPDATE SKIP LOCKED` and one commit per batch; `StartBroadcast`, `Send`,
`FinishBroadcast` and `StopListening` are the subscriber and `manager.broadcast`, one
`await` per socket; `LoseRedis` a Redis error that ends the subscriber as it
waits; `Admit`, `Connect`, `Break`, `Disconnect` a device's connection.

`event_relay` (two events, two workers, batches of two, two sockets, one fault) checks
that an event is given to Redis twice only after a fault, that every committed event is
published in the end, and that a broadcast during which no socket came or went reaches
every socket that works, whichever others are broken. `FairSpec` is weak fairness of
the workers alone; a run may stop when everything is published, so deadlock is not
checked. When sockets do come or go, Python's "Set changed size during iteration" ends
the subscriber and nobody hears anything until the API is started again
(`StopListening`, `RestartApi`). When the last socket leaves, its empty set is dropped
and whoever connects next is in another one, so the broadcast under way fails even if
the number is the same again (`popped`). So publication is guaranteed, delivery is not,
and devices make up for it with their own refreshes. A socket is admitted once; that of a revoked
session or a suspended business keeps receiving.

**Proved** (`DeviceProofs`, for any number of workers, events, sockets and faults and any
batch size): `RepeatsNeedFaults` and `EveryoneIsTold`. A row is in one worker's hands at a
time and is not published while it is there (`HandsInv`), so the times Redis was given an
event are at most the faults, and one more once it is settled or handled (`RepeatInv`). A
broadcast's snapshot is the set of connected sockets as long as nothing has disturbed it,
and whoever was visited has the event or was found broken (`BroadcastInv`).

## 12. The back office

The remaining writing routes share one shape, which `Records` models: the request loads
the rows that say who sends it (`Enter`), then what it decides on (`Load`, with row
locks where the code has them), and commits the columns it has changed and no others
over whatever the row has become (`Save`, `Dirty`); an insert whose unique key is taken
fails. A SQLAlchemy object keeps the values of its first load, the `COUNT`s and
conditions of a later query see what is committed; the model keeps the two apart
(`held`, `found`). `rivals` records which requests had loaded and not committed while
another loaded: "they decided together".

`Load` is one snapshot of all SELECTs of a handler. A commit between two of them is by a
request that decided together with the handler, which is the case the properties about
unlocked checks exempt; the other two rest on row locks and on which columns are written,
not on what a SELECT sees. The bulk UPDATE that clears `is_main` on the other branches
(`tenants.py:135`, `223`) takes effect with the commit, while the code runs it earlier and
holds those rows until then, which rules out some of the model's interleavings. Refusals
that depend on the input alone are left out: an order for a supplier or products that are
not active (`purchase_orders.py:95`), a promotion of an unknown kind, over a hundred per
cent, or ending before it starts (`growth.py:120`).

`Access` has sign-up, bootstrap, login, refresh and logout, the platform's approve,
reject, suspend and reactivate, platform roles, subscriptions, and the branches, staff
and devices of a business; `Desk` adds staff shifts, punches, appointments, the service
catalogue, purchase orders, promotions, points, quotations and alerts, one action per
handler. `back_office` runs 32 scenarios of two to four requests and checks

- `RevokedForGood`: a revoked session stays revoked, whatever refresh was on its way;
- `ShutMeansOut`: after a suspension or rejection nobody of the business is signed in,
  except by a session, or a membership of it, that was being made at that moment;
- `BusinessWhole`: an owner and at most one main branch, `OneThingAtATime`: no two
  bookings or clock-ins of one person - each unless two requests of that business, or
  about those rows, decided together, which the code does not exclude (`staff.py:212`, `tenants.py:134`,
  `appointments.py:100`, `workforce.py:199`);
- `TalliesExact`: points and received quantities, which are counted up under a row lock,
  are exact.

The exceptions are the point: they are exactly the check-then-write races of these
routes. Others that no property speaks of: an order cancelled while it is being
received; the role of a target read before it changes (`staff.py:190`); a cancelled
shift set back over another (`workforce.py:156`); approve and reject together
(`platform.py:505`), and an approval that re-activates removed staff (`platform.py:88`);
a refresh whose answer is lost, or two with one token, which end the session; a promotion
code that two requests insert, an error 500; duplicate alerts; plan limits, which nothing
enforces; two edits of one member, which leave the union of their branches; a points
transaction or a receipt sent again, which counts twice since these routes take no
operation id.

**Proved** (`BackOfficeProofs`, for any users, businesses, rows, calls and locks, and any
number of requests that meet): all five properties, and `DeskTypes`, that whatever the
handlers write keeps every row's type, so that no points, quantity or total goes below
zero. The proofs are about each of the 38 handlers and what its commit makes of the rows
that are there by then, which is more than the rows the handler has read:

- `DeskInv` says what a request may rely on while others commit: what it has loaded is of
  the right type and is still there, unless its table is one whose rows are deleted; the
  columns that no handler changes (`Lasting`: whose a session is, which business a branch
  belongs to, when a booking is) have the value it found; two requests that are undecided
  at once are each other's rivals. `RevokedForGood` follows from it and from `Dirty`.
- `ShutInv`: a request that shuts a business has found every session that is not revoked
  and every membership, but for those made by its rivals, so it signs everybody else out.
- `OneThingInv`: a booking or a punch that a request has not found was written by a rival,
  and an appointment that is standing was standing when it looked; and the stamps of
  one person's punches differ.
- `LockedInv`: whoever counts up a row holds its lock, and what it has found is what is
  stored; then `LoyaltyInv` and `OrderInv` relate the stored number to a sum over the
  transactions or receipts, which each step changes by one term (`Sums`). `OrderInv`
  also follows the requests about an order's status, since one of those may overwrite
  "received".
- `OwnerInv` and `MainInv`, business by business: what a request that changes the staff
  has found of the roles still holds, and one that chooses a main branch has found all
  branches, unless two did so at once. A business whose approval is pending has no active
  owner; `Fresh` says that its owner is then waiting with it and that no request of the
  business can be on its way, so that the approval switches on an owner.

The assumptions are about the constants alone: the types of the arguments that a
handler's schema asks for (`AccessArguments`, `DeskArguments`), and that the rows at the
start are such as the tables' keys and these handlers leave behind (`AccessAtStart`,
`DeskAtStart`). TLC evaluates them on the run. The books share the module because they share the
requests: each theorem cites only the assumptions of its own part.

## 13. Bounds

Client: operation sets of two to six, one or two flushes, one refresh at a time. Every property
relates at most two operations and a receipt, or one operation and the flows that
hold it, and the races found need two flows. `MaxFaults` bounds failures: one is
enough for each hazard of its own, two reach a failure during the recovery from
another. No other counter is bounded: creation order and `counted` stay finite
because every operation is recorded once. The theorems carry the safety results
past these bounds, under the assumptions named with them.

Server: `Scenarios` bounds which requests meet, `Mortal` which may crash, `Faults` how
often Redis or a worker fails. Two copies of one operation and one rival, or three
requests over a cycle of rows, are what each race needs; the scenarios with more let a
third party in between the two. Amounts are chosen so that limits and stock cover some
of the requests and not all, and so that halves of a cent appear. Clocks and dates grow
only with requests. Every scenario of `MCDesk` is a pair of routes that touch the same
rows and at most two more that move the rows underneath.

## 14. What is proved and what is only model-checked

Proved with TLAPS, for every value of the constants that the named assumptions of the
modules allow (they type the constants, and say that sets of operations are finite):

| Module | Theorems | Properties of the runs they state |
|---|---|---|
| `DeviceProofs` | `TypeCorrect`, `OutboxInvariance`, `DoneCorrect`, `ReceiptCorrect`, `ReceiptsCleared`, `Refinement`, `InOrder` | `OutboxInv`, `DoneIsOnServer`, `ReceiptFirst`, `NoReceiptLeft`, `ImplementsDelivery`, `DependenciesFirst` |
| | `StockInvariance`, `ProjectionExact`, `PendingIsCounted` | `ExactProjection`, `PendingCounted` |
| | `RelayTypes`, `RepeatsNeedFaults`, `EveryoneIsTold` | `RepeatedOnlyAfterFault`, `EveryoneHears` |
| `CreditReservationProofs` | `TypeCorrect`, `CreditInvariance`, `CreditKept`, `OutstandingIsExact` | `ReservationsKept`, `OutstandingExact` |
| `SalesLedgerProofs` | `LedgerTypes`, `StockIsExact`, `ReturnsStayWithinSold`, `ReceivablesStayHealthy`, `NothingStaysStranded`, `CreditStaysWithinLimit`, `LedgerImplementsServer` | `StockExact`, `ReturnedWithinSold`, `ReceivablesHealthy`, `NothingStranded`, `CreditWithinLimit`, `ImplementsServer` |
| `TillProofs` | `TillTypes`, `OneShiftOpen`, `OnlySalesAreMissed`, `PaidOutIsCovered`, `ShiftsCloseForGood` | `OneOpen`, `OnlySalesMissed`, `PaidOutCovered`, `ClosedForGood` |
| `GoodsProofs` | `GoodsTypes`, `StockStaysMovements`, `PayablesStayHealthy`, `DocumentsStayStored`, `ValuationWithin`, `ValuationStaysTracked` | `StockIsMovements`, `PayablesHealthy`, `DocumentsStored`, `ValuationTracked` |
| `BackOfficeProofs` | `BooksAlways`, `BooksTypes`, `ReversedOnlyOnce`, `PeriodsSettle`, `StatementsAreExplained` | `ReversedOnce`, `PeriodSettles`, `StatementsExplained` |
| | `DeskAlways`, `DeskTypes`, `RevokedStays`, `ShutKnown`, `ShutOut`, `OneThing`, `Tallies`, `WholeBusiness` | `RevokedForGood`, `ShutMeansOut`, `OneThingAtATime`, `TalliesExact`, `BusinessWhole` |

The two about the valuation assume a bound on what one branch holds (section 9); the
others assume nothing more. Where the code has exceptions - an answered error, a crossing
refresh, an old list, a reconciliation that lists too early - they are in the property and
not in an assumption.

A sum over a finite set is a fold of the community modules, and the library's induction
theorems cannot be instantiated here. `Sums` proves its laws all the same: a sum is a
function of the subsets of its domain that the definition of the fold determines, and a
law that failed would fail on a smallest subset, which is a contradiction. All the
server's sums are reasoned about with those few lemmas.

Model-checked only: liveness (`EventuallySettled`, `Converges`, `OrphansReleased`,
`EventuallyAnswered`, `EventuallyPublished`), since the prover has no rules for fairness
and `ENABLED`.

## 15. What is not modelled

The creation of customers, suppliers, products, categories and units, and the first use
of a business's books (its settings and chart of accounts): single inserts that come
before the models start. The projection of queued customer payments on the device.
Tokens on the device: one refresh shared by concurrent requests, which the outbox sees
as an answered 401. Held sales and drafts: one file edited by one screen. Passwords,
expiry of tokens, audit rows, numbers, notes and wording. Screens, reports, histories
and the other routes that only read. Money and quantities appear only where a property
is about them.
