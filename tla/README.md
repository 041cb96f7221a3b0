# Formal model of the e-commerce saga

TLA+ models of the services of this repository, TLC configurations that check them on small
instances, and TLAPS proofs that hold for every value of the constants. Paths below are relative
to `src/`.

To check a run: `tlc -config X.cfg M` with `X` and `M` from `PROJECT.json` (or from the table in
"Runs"). To check the proofs: `tlapm StockLedgerProofs.tla`, then `OrderSagaProofs.tla`,
`CatalogPostgresProofs.tla`, `CatalogMemoryProofs.tla`, `PaymentServiceProofs.tla`,
`NotificationProofs.tla`, `CustomersProofs.tla` and `ApiGatewayProofs.tla`.

## 1. The system

A GraphQL gateway calls five gRPC services, each with its own PostgreSQL database. The order
service orchestrates the purchase: it calls catalog and payment over gRPC, compensates when one of
them fails, and publishes the outcome to Kafka, where the notification service picks it up.

    apigateway --gRPC--> auth, account, catalog, order
    order      --gRPC--> catalog (ReserveStock, ReleaseStock)
               --gRPC--> payment (ProcessPayment, CancelPayment)
               --gRPC--> account (GetProfile, for the mail address)
               --Kafka-> events.order.completed / events.order.failed --> notification

| component | state | operations | what is hard | what makes it correct |
|---|---|---|---|---|
| order (`order/internals`) | `orders(status, notes)`, `order_items` | `CreateOrder` (the saga), `GetOrder`, `UpdateOrderStatus` | the answer of a call may be lost although the call was or will be executed; results of compensations, of status writes and of publishing are ignored; one request context for everything; no recovery of half-done orders | COMPLETED only with stock and payment; FAILED only when compensated; a final status stays; events tell the truth; stock is neither created nor lost; the caller is answered |
| catalog, Postgres (`catalog/internal/repository/postgres`) | `products.stock`, `stock_reservations(order, product, quantity)` | `ReserveStock`, `ReleaseStock` (transactions), `GetProduct`, `ListProducts` | idempotency checks before any lock; `FOR UPDATE` in the order of the request's lines (deadlocks); release uses quantities it read unlocked; lost acknowledgement of COMMIT | all or nothing; conservation of stock; idempotent per order; every call answered |
| catalog, in memory (`.../repository/memory`) | the same in maps, under a mutex | the same | no rollback; lines are verified one by one | as above |
| payment (`payment/internal`) | `payments(order_id unique, status)` | `ProcessPayment`, `CancelPayment` | lookup and insert are separate statements; the refund is written unconditionally with a status read earlier | one payment and one decision per order; refund only of an authorized payment; a cancel that says success left no money taken |
| notification (`notification/internals`) | `notifications(idempotency_key, status, retry_count)`, Kafka offsets, templates | `SendEmail`, `SendSMS`, `GetNotificationStatus`, retry worker, two consumer loops | redelivery; a worker that races with the first delivery and writes back old copies; offsets that pass a failed message | no event lost; no duplicate mail; not given up early, closed in the end; SENT stays SENT |
| account (`account/internal`) | `profiles`, `addresses(is_default)` | `GetProfile`, `UpdateProfile`, `CreateAddress`, `ListAddresses`, `DeleteAddress`, `SetDefaultAddress` | two writes whose second may fail unseen; concurrent defaults | at most one default address; no default lost |
| auth (`auth/internal`) | `users(email unique, password_hash)` | `Register`, `Login`, `ValidateToken` | check, then insert | one user per email |
| apigateway (`apigateway`) | none (JWT in the request) | resolvers | registration over two services; an order without prices | a registered user can log in and has a profile |

### Decisions about faults

The model has the faults that the code can meet: an RPC that fails while its request is lost,
executed, or still to be executed; a handler whose database fails with or without effect; a status
write refused, or done with its acknowledgement lost; a failed publish; a cancelled request
context; a crash of the order service between any two steps. It has no retries, no deadlines and
no recovery of PENDING orders, because the code has none.

The notification service has retries, and it has restarts. Its faults are a delivery that went out
and is reported as an error, a database statement that fails with or without its effect, an ignored
error of a write or of an offset's commit, and the death of the process, after which the readers
start again at the committed offsets. A delivery that is simply refused is no fault: any delivery
may be refused, any number of times.

For customers any call or statement may fail, and a call may break off anywhere, its transaction
rolled back. A register call that breaks off leaves the user without a profile. A write that took
effect and was not acknowledged is a call that breaks off after it; only after the last write of a
call does the model give the answer that was lost, and no property relies on it.

## 2. Modules

| module | models | kind |
|---|---|---|
| `Sums` | finite sums, written as a function so that they can be proved about | helper |
| `StockLedger` | what `ReserveStock` and `ReleaseStock` promise to the saga | abstract specification |
| `PaymentLedger` | what `ProcessPayment` and `CancelPayment` promise to the saga | abstract specification |
| `OrderBook` | what the order service promises to its customers: orders are decided once, and stock is not oversold | abstract specification |
| `OrderSaga` | `order/internals/service/ordersrv.go` with `repo/Repo.go` and `publisher/kafka.go`, composed with both ledgers over a network | detailed, implements `OrderBook` |
| `CatalogPostgres` | `catalog/internal/repository/postgres/catalog_repository.go`, statement by statement | detailed, implements `StockLedger` |
| `CatalogMemory` | `catalog/internal/repository/memory/catalog_repository.go` | detailed, implements `StockLedger` |
| `PaymentService` | `payment/internal/service/payment_service.go` with its repository, statement by statement | detailed, implements `PaymentLedger` |
| `MailBook` | what the notification service promises for the mail of each key | abstract specification |
| `NotificationService` | `notification/internals/service/notification_service.go` with its Postgres repository: `SendEmail` and the retry worker | detailed, implements `MailBook` |
| `NotificationConsumer` | `notification/internals/event/consumer.go` and the gRPC requests, composed with the service over the Kafka logs | detailed, composition |
| `AddressBook` | addresses of `account/internal/repository/postgres/account_repository.go` under `account_service.go`, statement by statement | detailed |
| `Customers` | `Register` and `UpdateProfile` of `apigateway/graph/schema.resolvers.go` over `auth/internal` and `account/internal`, composed with `AddressBook` | detailed, composition |
| `ProductPages` | `ListProducts` of both catalog repositories and the gateway's `Products`, walked page by page | algorithm |
| `MemoryAddresses` | addresses of `account/internal/repository/memory/account_repository.go` under `account_service.go` | detailed |
| `ApiGateway` | `Customers`, `MemoryAddresses` and `ProductPages` side by side | composition |
| `MC*` | the instances that TLC checks | |
| `*Proofs` | theorems and proofs | |

So the saga is checked against atomic services, and the services are shown to be as good as
atomic: `OrderSaga` uses a ledger exactly where it talks to a service, and `ImplementsLedger` says of
each service that its interleaved statements are steps of that ledger or change nothing. One level
up, `ImplementsBook` says that the saga with all its messages and compensations amounts to
`OrderBook`, in which there is nothing but the outcome of each order (mapped from `orders.status`).
Likewise `ImplementsMailBook` says that senders, consumers, worker and restarts amount to `MailBook`:
the mail of a key is logged, goes out at most once, and is recorded as sent if it did and as given
up if it did not. `MailBook` promises nothing for the doubtful keys described below.

### OrderSaga

`pc[o]` is the statement at which the goroutine of order `o` stands.

| `pc` | code in `ordersrv.go` | actions |
|---|---|---|
| `new` | insert of the row (57) | `SavePending`, `SaveFails` |
| `reserve` | step 1, ReserveStock | `StockReserved`, `ReservationFailed` |
| `unreserve`, `failStock` | ReleaseStock after a failed step 1, then status FAILED | `Unreserved`, `MarkFailed` |
| `charge` | step 2, ProcessPayment | `PaymentAuthorized`, `PaymentFailed` |
| `rollback`, `refund`, `failPayment` | ReleaseStock, CancelPayment after a failed step 2, then status FAILED | `RolledBack`, `Refunded`, `MarkFailed` |
| `lookupFailed`, `publishFailed` | GetProfile for the mail address (79, 129), then the order-failed event | `EmailKnown`, `PublishFailed` |
| `complete` | status COMPLETED (139) | `MarkCompleted`, `CompletionFails` |
| `lookupCompleted`, `publishCompleted` | GetProfile (145), then the order-completed event (147) | `EmailKnown`, `PublishCompleted` |
| `ok`, `error`, `crashed` | returned, or died | |

A call is a member of `requests` until the server executes it (`ReserveStock`, `ReleaseStock`,
`ProcessPayment`, `CancelPayment`, `GetProfile`) and leaves a member of `replies`. `CallFails` is everything the
caller sees as an error: a reply without success, a dead context, or a transport error, which may
take the request out of the network or leave it there to be executed later. `dead` is the set of
orders whose request context is cancelled: gRPC and pgx refuse everything on it, so it needs no
further fault for their calls to fail. `hit` is a history variable: the orders that some fault has
touched (a crash touches all that are under way). No action reads it; `FaultsAreContained` speaks of
the orders outside of it.

The amounts of money, the user's mail address and the JSON of the events are abstracted. The lookup
of the address is a call like the others, on the request's context and without a deadline, between the
status write and the event; what it returns is not looked at, because an error yields a default address.
`Verdict[o]` stands for what the simulated gateway makes of the order's token and amount.

### CatalogPostgres

`stock` and `held` are the committed rows. `locks[c]` are the product rows that the transaction of
call `c` holds, `plan[c]` and `next[c]` its loop over the lines, `read[c]` what a release read from
`stock_reservations`. Only a transaction with the row's lock changes the row, so its uncommitted
changes are known from its locks; the `SELECT ... FOR UPDATE`, check, `UPDATE` and `INSERT` of one
line are one action, since no other transaction can act on that product or on that reservation row
in between. Two statements that can be separated are separated: the idempotency check, the
unlocked read of a release, every line, and COMMIT.

PostgreSQL itself is external and modelled from how the repository uses it: READ COMMITTED, row
locks until the end of the transaction, the primary key of `stock_reservations`, and an aborted
transaction on every cycle of waiting ones.

### CatalogMemory

Each operation runs under the mutex and is one action. What distinguishes it from the database is
that all lines are verified before any is deducted, and that nothing undoes a partial deduction.

### PaymentService

One action per database statement; `seen[c]` is the status of the call's last lookup. `Duplicate`
and `Reread` are the path on which the insert meets the unique key and the winner's row is returned.
A database error may hit any statement, with or without its effect.

### NotificationService and NotificationConsumer

`pc[s]` is where a sender stands in `SendEmail`: `lookup` (the key), `create` (the PENDING row),
`reread` (after a duplicate key), `deliver`, then `sent` or `refused` while the outcome is only in
memory, and `ok`, `error` or `dbError` as returned. The last is what the consumer recognises by the
text of the error. `SendSMS` has the same control. The worker first copies all open rows (`batch`),
tries each, and writes the changed copy back (`writing`) whatever the row has become; its writes
have no condition, so a copy can be outdated in both directions. That is why the copies are state
of the model. A backoff that has not passed is the freedom of `ListDue` to leave rows out.

Ghost variables say what the table cannot: `delivered` and `refused` count what the provider did, up
to the number a property asks for; `doubtful` collects the keys of which nothing better can be
promised, because the table never learned of a delivery or the worker worked from an outdated copy;
`unlogged` are the offsets whose call met a database error. Every exception in a property is one of
them, so the properties say exactly when a mail goes out twice.

Kafka is external: a log, the committed offset and the position of each reader, which moves forward
on every fetch. The commit of an offset passes all the earlier ones.

### AddressBook and Customers

`SetDefaultAddress` is a transaction of two statements under READ COMMITTED. `todo[c]` is the
snapshot of the first, whose rows it locks one by one (`held[c]`) in any order; nothing shows before
`Commit`, which is when the rows change. A circle of waiting transactions is broken by `Abort`.
Inserts and deletes are statements of their own. An insert needs the row of the profile (foreign
key), hence `NoProfile`. An address is named after the call that creates it, which stands for its
fresh UUID, and a user after the call that registers it.

The ghosts are `overlapped`, the addresses inserted while another `SetDefaultAddress` was past its
snapshot and could not see them (the phantom of READ COMMITTED), `unsettled`, those whose own
`SetDefaultAddress` is to come or failed unseen (`account_service.go:80`), and `careless`, the users
whose profile was written by two calls at once or after a failed read.

`WriteProfile` is one step although the service looks the profile up and then inserts or updates:
both statements write every field, so nothing depends on which one it is. `careless` is about the
read of the gateway (`fetch`), which does matter.

### MemoryAddresses

The same calls over the repository that `main.go` falls back to without a database. Each operation
holds the mutex and is one step; `CreateAddress` of the service is two of them, the insert and its
`SetDefaultAddress`. The contexts of the calls are ignored, so a call that was taken up ends. A
restart empties the map, which is the initial state again. In place of a rollback there is `Choose`,
which resets the other addresses before it is known whether the target is there.

### ProductPages and ApiGateway

`walk` is a client, a repository and a page size. A product is its place in the order of the ids, so
a page is a set of numbers, and `shown` keeps with each page the cursor that it came after. A client of the gateway follows the cursor of the
last edge while `hasNextPage` holds; a client of the catalog follows `next_page_token`. The two
repositories compute that token differently, and `EveryProductOnce` names the two combinations in
which products are left out (`Skips`, `Stops`) and says exactly which ones.

`ApiGateway` puts the three side by side. They share no state, so a behaviour is about one of them:
the mutations over PostgreSQL, the addresses in memory, or a walk through the products.

## 3. Runs

| run | module, cfg | what it shows |
|---|---|---|
| `saga_faulty` | `MCOrderSaga`, `SagaFaulty.cfg` | under any two faults: `TypeOK`, `StockConserved`, `CompletedIsBacked`, `RollbackFreesStock`, `EventsTruthful`, `FaultsAreContained`, `EveryOrderAnswered`, and `ImplementsBook`: seen from its rows, the saga is `OrderBook` |
| `saga_reliable` | `MCOrderSaga`, `SagaReliable.cfg` | without faults: `FailedIsCompensated`, and `EveryOrderSettles`: every order is decided, consistent and announced |
| `saga_failed_leak` | `MCOrderSaga`, `SagaFailedLeak.cfg` | `FailedHasReleased` is violated with one fault: after a declined payment the ReleaseStock fails, the order becomes FAILED and keeps its stock |
| `saga_cancelled` | `MCOrderSaga`, `SagaCancelled.cfg` | violated: after the client has gone the compensation is not sent |
| `catalog_postgres` | `MCCatalogPostgres`, `CatalogPostgres.cfg` | `TypeOK`, `AnswersHonest`, `SomeCallMoves`, `ImplementsLedger`, `EveryCallAnswered` |
| `catalog_double_release` | `MCCatalogPostgres`, `CatalogDoubleRelease.cfg` | violated: two concurrent releases create stock |
| `catalog_memory` | `MCCatalogMemory`, `CatalogMemory.cfg` | `ImplementsLedger` when no order lists a product twice |
| `catalog_memory_twice` | `MCCatalogMemory`, `CatalogMemoryTwice.cfg` | violated: two lines of one product drive the stock below zero |
| `payment_service` | `MCPaymentService`, `PaymentService.cfg` | `TypeOK`, `CancelHonest`, `OneDecision`, `ImplementsLedger` |
| `notification` | `MCNotification`, `Notification.cfg` | `TypeOK`, `OneMail`, `GivenUpInTime`, `EventKept`, `SentIsFinal`, `ImplementsMailBook`, `EverythingSettles` under redelivery, the racing worker, and one error or crash |
| `notification_lost_event` | `MCNotification`, `NotificationLostEvent.cfg` | violated: one database error loses an event without a restart |
| `api_gateway` | `MCApiGateway`, `ApiGateway.cfg` | `TypeOK`, `OwnAccount`, `OneDefault`, `FieldsKept`, `EveryProductOnce`, `DefaultKept`, `OneChosen`, `ChosenKept`, `SomeCallMoves`, `EveryCallAnswered` |

`CHECK_DEADLOCK FALSE` is set in all of them, because every model ends: all orders or calls are
answered and nothing is left to do. That nobody waits forever is what the liveness properties say.

### Bounds, and why they are enough

* `saga_faulty` (65,007 states): two orders, one product, two units, demands of 2 and 1: either order excludes the
  other, so both the winner and the loser of the race occur. `MaxFaults = 2` is the least number
  that allows a fault and a second one on the path that handles the first (a lost reservation and
  its lost compensation, a cancellation and a crash). The proofs remove both bounds.
* `saga_reliable` (55,696 states): four orders over two products, one per verdict of the gateway and one that
  competes, so that all ends of the saga occur at once.
* `saga_failed_leak`: as `saga_faulty`, but the payment of the first order is declined, so that its
  compensation is reached without a fault and the one fault there is falls on it.
* `catalog_postgres`: six calls: an order reserved twice, another one that lists the same products
  in the opposite order, an order that lists one product twice, and a release of each of the first
  two. `MaxFaults = 1` (one database error or lost COMMIT). The stock (3 and 2) serves either of
  the two large orders but not both.
* `payment_service`: three charges of one order, one with a token that is declined, two cancels, and
  an invalid amount for another order; `MaxFaults = 2` lets the same call sequence be hit in a charge
  and in a cancel.
* `catalog_memory`: four orders over two products, released and reserved again without bound.
* `notification` (97,108 states): three workloads. One event is in the log twice between unsendable
  ones, in both topics; two orders follow each other in one topic, so that one loop delivers while
  the worker retries the other's row; two gRPC requests fall on one key and meet at the unique
  index. `MaxRetries = 3` is the code's number: with fewer, early and late giving up look alike.
  `MaxFaults = 1` (one database error, unclear delivery or crash); refused deliveries are unbounded.
  `delivered` counts to 2 and `refused` to `MaxRetries`, which is what the properties ask about.
* `api_gateway` (84,740 states): four groups of calls that arrive together, `MaxFaults = 1`. Two
  registrations of one email with two updates of other fields of the profile; one user's default
  set by three calls (one of them inside a create, one inside an update) while the address is deleted;
  an address that is not the default and becomes it; and none, for the walk. Three transactions on the
  rows of one user are enough for waiting in a circle. The catalogue has five products, page sizes are 1,
  2 and 5 (a remainder, no remainder, all at once) and 0, and `DefaultSize = 3` stands for the code's
  10, so that the catalogue is longer than the default page.

### Fairness

`OrderSaga`: weak fairness of each order's goroutine and of the servers' handlers. The Go runtime
schedules goroutines, and gRPC hands a request that arrived to a handler or breaks the connection.
Nothing is assumed of faults, cancellations and crashes. `CatalogPostgres`: weak fairness of each
call's steps: handlers are scheduled, PostgreSQL grants a free lock and detects a deadlock that
persists (`deadlock_timeout`). `Customers`: the same, for each call that has arrived.

`NotificationConsumer`: weak fairness of each loop, each sender and the worker's own steps, and
strong fairness of `Polled(k)`, which lists the open row `k` as due. A row's backoff is at most 20
seconds and the worker ticks every ten, so an open row is listed as due again and again until it is
closed; the action is not continuously enabled, because the worker is busy with other rows in
between. That every mail in the end is sent or given up rests on it, and not on any kindness of the
provider: if all deliveries are refused, the retry count runs out.

### Findings

1. `saga_failed_leak`. `order.proto:38` says of FAILED that "compensation was successfully
   executed". The code ignores the result of ReleaseStock (`ordersrv.go:111`, likewise 68 and 117):
   the payment is declined, the release fails, and the order is FAILED with its stock reserved while no
   ReleaseStock was acknowledged or is under way.
2. `saga_cancelled`. `artifacts/grpc_service_communication.md:227` asks for a background context in
   compensating code. The code passes the request's.
3. `catalog_double_release`. `catalog.proto:30` demands that ReleaseStock be idempotent by order id.
   Two concurrent calls both restore the stock, because the rows are read without a lock
   (`catalog_repository.go:184`) and the number of deleted rows is not looked at. The saga sends one
   ReleaseStock per order, so it needs a duplicated delivery to happen.
4. `catalog_memory_twice`. The in-memory repository lets the stock become negative, which
   the products table forbids by `CHECK (stock >= 0)`.
5. `notification_lost_event`. The comments at `consumer.go:144` and `:148` say that the offset is not
   committed after a database error and that the same message is fetched again. The code
   (`consumer.go:149`) waits and calls `FetchMessage`, which hands out the next message, and the
   commit of that one passes the failed event.

What else was met on the way, and has no run of its own:

* A FAILED order can hold stock although its compensation was acknowledged: ReserveStock is given up
  by the caller while it is still in flight, ReleaseStock overtakes it and finds nothing, and the late
  reservation follows (`ordersrv.go:61`; `FailedIsCompensated` is violated in this way with one
  fault). After a failed payment it cannot happen, which is `RollbackFreesStock`.
* A notification that was given up can be reopened: while a sender's first delivery hangs, the worker
  is refused three times and writes FAILED; then the first delivery returns, and its record
  overwrites the row with RETRYING 1 or SENT (`notification_service.go:78-90`, unconditional). The key
  is doubtful by then, since the worker delivered beside the sender. `GivenUpInTime` therefore only
  says that nothing is given up early.
* `SetDefaultAddress` of one call and an insert of another commit two defaults
  (`account_repository.go:189`), as `OneDefault` admits for `overlapped`.
* The in-memory `SetDefaultAddress` resets the other addresses and then reports that the target is
  missing (`memory/account_repository.go:111`). An address that is created as the default and deleted
  before its own `SetDefaultAddress` takes the default of another one with it. The Postgres repository
  rolls that back; `DefaultKept` and `ChosenKept` differ by this case.
* The in-memory catalog's `next_page_token` names the first product that did not fit, and the next
  page starts after it: one product is skipped per page boundary (`catalog_repository.go:106`).
* With `first <= 0` the catalog sends ten products and the gateway compares their number with `first`
  (`schema.resolvers.go:286`), so there is never a next page.
* A mail goes out twice when the worker polls a PENDING row while its first delivery is under way
  (`notification_service.go:191`). `notification/service.md:231` has the worker poll RETRYING rows
  only; but then a row whose sender died would stay PENDING, which is how the mutant of `Due` breaks
  `EverythingSettles`.
* The gateway's `UpdateProfile` sends no avatar, and the account service writes all fields.

## 4. Proofs

All theorems hold for any number of orders, products, calls and faults. They assume only the
`ASSUME`s on the constants (`LedgerAssumption`, `SagaAssumption`, `CatalogAssumption`,
`MemoryAssumption`, `PaymentAssumption`, `NotificationAssumption`, `ConsumerAssumption`,
`CallsAssumption`, `CustomersAssumption`, `PagesAssumption`), which give the constants their types and say that an
order's demand is positive exactly for the products it lists (`order_items` has
`CHECK (quantity > 0)`), and that a notification is allowed more than one attempt. Where a theorem
needs more, the condition is its hypothesis (`OneRelease`, `OneReservation`, `OncePerOrder`,
`MaxFaults = 0`, `IsFiniteSet(Calls)`).

* **StockLedgerProofs**: `LedgerCorrect`, `LedgerConservesStock`. Conservation sums over the orders;
  the first part shows that the sum exists, changes by the difference when one entry does, and is
  monotone. Those lemmas, and the one about the units held, are what the next three modules use.
* **OrderSagaProofs**: `SagaTypeOK`, `SagaConservesStock` (from `LedgerConservesStock`, because the
  servers of `OrderSaga` are written with the steps of the ledger and nothing else touches the stock:
  the lemma `SagaImplementsLedger`), `SagaCompletedIsBacked`, `SagaRollbackFreesStock`,
  `SagaEventsTruthful`, `SagaStatusFinal`, `SagaImplementsBook`. None of the last five is inductive. The invariant
  `SagaInv` adds, per order: an RPC that the program point has not reached has left no request and
  no reply, and what has a reply is not in flight any more (`SentOnce`); the row follows the program
  point (`StatusAtPoint`); from step 2 on the stock is held, and before COMPLETED the payment is
  authorized, with no compensation ever sent (`Backed`); past a failed payment no reservation is in
  flight, so an acknowledged release is final (`RolledBackInv`); events agree with program point and
  row (`Announced`). The proof has one step per action and, by `OtherOrders`, looks at one order at
  a time. `SagaImplementsBook` adds conservation to it: what is sold is held by its order (`Backed`),
  what is held was there, so a completion fits into what is not sold yet (`CompletionFits`).
  `SagaNeverOversells` carries this back through the refinement: what the COMPLETED orders bought is
  at most the initial stock (`OrderBook`'s `NeverOversold`).
  `SagaContainsFaults` says that an order which no fault touched is FAILED only when compensated,
  whatever happens to the orders it competes with. Its invariant `CalmInv` is stated per order: while
  the order is not in `hit`, nothing of it is cancelled and a call without a positive answer has had
  no effect (`Calm`), and each point of the failure path has undone what it says (`CompensatedInv`).
  That it is inductive is the point: a step with a fault is one of an order that is hit from then on
  (`FaultOfStep`), and no step of one order touches the calls, holdings or payment of another.
  `SagaFailedIsCompensated` (`MaxFaults = 0`) is its corollary, since then nothing is ever hit; for
  an order that was hit it can be false, by a failed compensation (`saga_failed_leak`) or by a late
  reservation.
* **CatalogPostgresProofs**: `CatalogLocking`, `CatalogTypeOK`, `CatalogAnswersHonest` hold for any
  calls, duplicates included. `LockInv` is the argument of two-phase locking: rows before the cursor
  are locked, by one transaction only, and what a reserve has locked is sufficient and unreserved
  until it ends. `CatalogImplementsLedger` needs `OneRelease` (no order is released by two calls),
  which is what `Releasing` is for: what a release read is still there when it commits. Without
  `OneRelease` the statement is false, as `catalog_double_release` shows. `CatalogLosesNoStock` says
  how false: as long as no order is reserved by two calls (`OneReservation`), a second release can
  only give back too much, and stock on the shelf and in reservations never falls below the initial
  stock. A release begins after the order's only reserve has ended (`AfterReserve`), so the
  reservation can only disappear while it runs, and as long as it is there the release knows all of
  it (`Recalling`). Without `OneReservation` stock can be lost too: a release that read the rows after
  another one had deleted them deletes, without restoring it, what a second reserve inserted since.
  `CatalogNeverHalts` is the half of `EveryCallAnswered` that needs no fairness: as long as calls are
  under way, one of them waits for nobody or is on a cycle that PostgreSQL breaks (`SomeCallMoves`).
  A row is locked only by a call that has not ended (`CursorInv`); so if all of them wait, each waits
  for one of them, and of a finite set with this property a least one is made of cycles
  (`WaitingCircle`, by the well-founded order of finite subsets). It needs finitely many calls.
* **CatalogMemoryProofs**: `MemoryImplementsLedger`, `MemoryStockNotNegative`, both under
  `OncePerOrder` (no order lists a product twice). A line that was verified alone then is the whole
  demand of its product (`DemandOfLine`), so what the loop deducts was sufficient for all of it.
  Without `OncePerOrder` both are false, as `catalog_memory_twice` shows. `MemoryConservesStock` needs
  no such hypothesis: the units on the shelf, a negative number perhaps, and those that orders hold
  always add up, and an order holds all it asked for or nothing.
* **PaymentServiceProofs**: `PaymentTypeOK`, `PaymentCancelHonest`, `PaymentOneDecision`,
  `PaymentImplementsLedger`. The unconditional refund is safe because a row, of which a call has seen
  AUTHORIZED, can only have become REFUNDED since (`CallInv`, `RowFollows`).
* **NotificationProofs**: `TypeCorrect`, `MailsOnce`, `GivesUpInTime`, `EventsKept`, `SentStays`,
  `KeepsMailBook`, from the inductive `Invariant`, for any events, senders, restarts and faults. `Tries`: a retry count,
  also one in an old copy, is at most the number of refused deliveries, which is why an outdated copy
  cannot give up early. `Creators`: a sender between insert and record is the only one for its key,
  by the unique index. `Sound`: of a key that is not doubtful, exactly one of the creator, the
  worker's copy and the table has the say about it, and no mail went out that it does not know of.
  `Logging`: what a loop has fetched and not yet committed has a row or will be reported.
  `RowsAreTruthful` follows from `KeepsMailBook` and an invariant of `MailBook` itself (`Truthful`): of
  a key that is not doubtful, SENT says that the mail is out and FAILED that none is.
* **CustomersProofs**: `TypeCorrect`, `Accounts`, `Defaults`, `ProfilesKept`, `DefaultsKept`, from the
  inductive `Invariant`, and for the in-memory repository `ChosenOnce` and `ChosenStays`, from
  `StoreInvariant`. `Snapshot`: every address of its user and type that a transaction past its
  snapshot does not hold is still to be taken or was inserted since; `Paths`: which calls stand where; `Drafts`: what is
  about to be written contains what updates have set. A default address is not lost
  because the target is locked from `Mark` to `Commit` (`DefaultsStep`). `CustomersNeverHalt` says of
  the address rows what `CatalogNeverHalts` says of the product rows, with the same argument; a call
  that has taken any row is in its transaction, by `TypeOK`.
* **ApiGatewayProofs**: `PagesShowEveryProduct`, for any number of products, page sizes and default
  size. A page is the interval from the cursor to the limit or the last product (`PageIs`), it is full
  exactly when the catalogue reaches that far (`FullPage`), and so both clients go on where the page
  ended, or one product later (`NextCursor`); what was seen is all up to the cursor but the tokens
  that are skipped (`SoFar`). `GatewaySafe`, `GatewayKeepsDefaults` and `GatewayNeverHalts` say of the composition that `api_gateway`
  runs what the other theorems say of its parts, because each of its behaviours is one
  of `Customers` (its fairness included), of `MemoryAddresses` and of `ProductPages`.

Only model-checked: what is temporal under fairness (`EveryOrderAnswered`, `EveryOrderSettles`,
`EveryCallAnswered`, `EverythingSettles`); the provers do not reach it. The invariants and action
properties of the passing runs are all proved. The two statements without a run of their own,
`CatalogLosesNoStock` and `MemoryConservesStock`, were checked with TLC on the constants of
`CatalogDoubleRelease.cfg` and `CatalogMemoryTwice.cfg`; `SagaNeverOversells` and `RowsAreTruthful`
follow from `ImplementsBook` and `ImplementsMailBook`, which have runs.

## 5. Not modelled

* order: the `UpdateOrderStatus` RPC (an unconditional overwrite; nobody in the repository calls it),
  `GetOrder`, and the int64 arithmetic of the total (`order/internals/grpc/grpc.go:34`).
* catalog: `GetProduct`, which only reads; the in-memory repository loses its contents at a restart,
  as everything in memory does.
* payment: `CancelPayment` by payment id; the saga always sends the order id. The in-memory
  repository has the same operations behind a mutex.
* notification: `SendSMS` on its own (the same control, and no caller), the in-memory repository, the
  templates (bodies that cannot be rendered are `Unsendable`), the 30-second context of
  `processRetries` other than as a failed write, the server's five-second stop.
* account: `ListAddresses` only reads (over the in-memory repository it reads what it shares with a
  later `SetDefaultAddress`, without the mutex: its answer may mix old and new). Profiles over the
  in-memory repository, where the same fields are written as by `WriteProfile`.
* apigateway: the queries `me` and `order`, and the prices of `createOrder`. It sends none, so the
  total is 0 and the payment of an order from the gateway is always refused; the saga is modelled
  for every verdict, this one among them.
* auth: a `Login` by itself and `ValidateToken`, which change no state; password hashing and tokens.
* generated code (`shared/pb`, `apigateway/graph/generated.go`: most of the repository's lines),
  deployment files, wiring in the `main` packages, and the integration test, which is a client script.

## 6. Plan

Done: the saga with its two ledgers, both catalog repositories, payments, notifications with their
consumers, customers with their addresses and profiles, the product pages, and the proofs of
section 4. Runs stay few: one per component and one per finding. What is left:

1. The in-memory notification repository, with a restart that empties it.
2. The price computation of an order with its integer width, from `createOrder` to the verdict.
