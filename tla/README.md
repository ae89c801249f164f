# Verification of the e-commerce API

TLA+ models of the NestJS API under `apps/api`, TLC configurations that check them on
small instances, and TLAPS proofs for every instance. Paths below are relative to
`apps/api/src/` of the repository.

## 1. Inventory

| Component | State | Operations | What must hold |
|---|---|---|---|
| Order service, `order/order.service.ts` | Order, OrderItem, Payment, InventoryStock, StockMovement, Cart | createOrder, createPayment, confirm, process, ship, cancel, deliver, return | one order per cart; reservations equal what open orders hold; goods settled once; the payment columns agree with the ledger |
| Order controller, access rules | none (reads roles and assignments) | who may call the above | a customer acts on own orders only |
| Inventory service, `inventory/inventory.service.ts` | InventoryStock, StockMovement | stockIn, stockOut, adjustStock, transferStock | quantity equals its movements; never below the reservation |
| Cart service, `cart/cart.service.ts` | Cart, CartItem | create or get, add, update, remove, clear | a cart is ordered once; after its checkout a cart changes only by removeItem and by calls the checkout overtook |
| Online payments, `payment-gateway/` | PaymentIntent row, Redis slot and locks | initiate, callback, webhook, verify and finalize, reconcile, expire | a verified payment is recorded once; a completed intent stays completed; a crash loses no payment |
| bKash and Nagad gateways | the access token, in memory | create, execute, query | external |
| Invoices, `invoice/` | Invoice | generateForOrder | one invoice per order |
| RBAC cache, `rbac/rbac.service.ts` | in-memory map, loads in flight, generation | getAccess, invalidate | no stale permissions after an invalidation |
| OTP, `otp/otp.service.ts` | Redis hash, cooldown | generate, verify | no wrong guess goes uncounted, attempts are limited |
| Sessions, `auth/` | one Redis hash per session | save, validate, consume, refresh, revoke | one successor per refresh token |
| OAuth registration, `auth/oauth.service.ts` | OAuthIdentity, pending token | login, complete registration | one account per identity |
| Cashier assignments, `cashier/` | CashierAssignment | start, end | one active customer per cashier |
| Rate limiter, `rate-limit/` | Redis counter | count, refuse | a window always ends |
| Catalogue, `product/` | Product, Category, Redis list | create, list | the cached list is not older than its invalidation |
| AI agent, `ai-agent/` | pending action in Redis | propose, confirm | an action is executed once |
| Risk, `risk/` | none | assessOrderRisk | thresholds |
| Customers, organizations, branches | their rows | create, list | unique constraints |
| Labels, PDFs, security, bootstrap, web | none | layout, configuration | - |

The API is several Node.js processes over one Postgres and one Redis. Two calls meet
between any two statements (`await`s). Postgres runs at READ COMMITTED (`prisma/db.ts`
sets nothing else): the code defends itself with conditional updates, that repeat in
WHERE what was read, and with retries. The hard behaviours are therefore: state read
before a transaction and used in it, updates whose WHERE repeats too little, rollback
and retry, row locks taken in different orders, a crash between two commits, and in
the Redis parts keys that expire under their holder. `PROJECT.json` lists them as
hazards, each at its line.

How the components meet: the controllers call the services; createOrder reads the
cart and the catalogue, asks the risk service, reserves InventoryStock, closes the
Cart and calls the invoice service after its commit; online payments and the AI agent
call createPayment and the status operations like any client; the inventory
operations write the rows the orders reserve from.

## 2. Plan

Written, in this order:

1. `OrderService` - the core: eight operations, statement by statement.
2. `OrderLifecycle` - what they promise: one atomic step per operation.
3. `MCOrderService` and its configurations; `OrderServiceProofs`; `OrderStockProofs`,
   over the facts on sums in `SumTheorems`.
4. `OnlinePayments`, with the provider, Redis and crashes as its environment;
   `PaymentSettlement` - what it promises; `MCOnlinePayments`; `OnlinePaymentsProofs`.
5. `InventoryService`, `CartService`, `RbacCache`, `AuthSession`, `OtpLogin`,
   `AccountLinking`, `CashierAccess`, `RateLimit`, one module per component;
   `BackendServices` and `MCBackendServices`, which check them together; proofs of
   related components in one module each, and `BackendServicesProofs` about the whole.

| Module | Proofs | Code |
|---|---|---|
| `OrderService` | `OrderServiceProofs`, `OrderStockProofs` | `order/order.service.ts` |
| `OnlinePayments` | `OnlinePaymentsProofs` | `payment-gateway/` |
| `InventoryService` | `InventoryCartProofs` | `inventory/inventory.service.ts` |
| `CartService` | `InventoryCartProofs` | `cart/cart.service.ts` |
| `RbacCache` | `RequestChecksProofs` | `rbac/rbac.service.ts` |
| `OtpLogin`, `RateLimit` | `RequestChecksProofs` | `otp/otp.service.ts`, `rate-limit/rate-limit.guard.ts` |
| `AuthSession` | `AccountProofs` | `auth/auth-session.service.ts`, `auth/auth.service.ts` |
| `AccountLinking` | `AccountProofs` | `auth/oauth.service.ts` |
| `CashierAccess` | `AccountProofs` | `cashier/`, the access services of `order/`, `cart/`, `invoice/`, confirmations of `ai-agent/` |
| `BackendServices` | `BackendServicesProofs` | all of these but orders and payments |

To come, most important first: the category cache; pure operators for shipping,
discounts and totals in units of 0.01 and for the risk levels, against reference
definitions.

## 3. OrderService

Each API call being served is a request `p`: `pc[p]` is the statement it executes
next, `call[p]` what the client asked (and the number of the attempt), `seen[p]` what
it read and still relies on, `tx[p]` its uncommitted work. The other variables are
committed columns and aggregates:

| Variable | Code |
|---|---|
| `status`, `paymentStatus` | `Order.status`, `Order.paymentStatus` |
| `source` | the cart the order was made from |
| `paid`, `refunded` | sums of the order's PAID and REFUNDED `Payment` rows |
| `txns` | number of `Payment` rows per `transactionId` |
| `stock` | `InventoryStock.quantity`, `.reservedQuantity` |
| `moved` | `StockMovement` quantities per referenceType, order and row, without sign |
| `cartStatus` | `Cart.status` |
| `invoices` | orders with an `Invoice` |

Statements that only touch the request's own uncommitted rows are one action with the
statement before or after them; a statement that reads committed data, takes a lock or
commits is an action of its own. The last statements of a settlement (the ledger read,
the Payment row, the paymentStatus update) are one action with the commit: the Order
row has been locked since the status update, and every payment has to update it.

Row locks are not variables. A request holds the lock of a stock row exactly when
`tx[p].stock` has an uncommitted version of it, and of the Order row exactly between
the statement that writes it and the commit (`HoldsOrder`). An update that meets a
lock waits (it is disabled); when the committed row no longer matches its WHERE clause
it finds no row. `Fail` ends a call anywhere and rolls its transaction back: a crash, a
lost connection, a deadlock victim, an invoice that cannot be written.

Left out: organizations (every query is scoped to one), names, addresses, prices
(the total and the shipping charge of a cart are constants), risk annotations, reads
that return to the client, the random pause before a retry. The order number counts up
within one day. `Order.paymentStatus` takes only the three values the code writes.
Cart contents do not change during a checkout here; in `CartService` they do.

### Properties

| Property | Kind | Run |
|---|---|---|
| TypeOK: types; no quantity, reservation or sum below zero | invariant | OrderStock |
| SettledOnce: reservation, sale, release, return happen once, along the status | invariant | OrderStock |
| OneOrderPerCart: a cart becomes one order, and is closed exactly then | invariant | OrderStock |
| QuantityMatchesMovements: no delivery or return is lost | invariant | OrderStock |
| LinesReserved: an order holds all its lines, retries leave nothing | invariant | OrderReservations |
| ReservedMatchesOrders: reservations are what open orders hold | invariant | OrderReservations (broken with cancellations: LostRelease) |
| NoOversell: reservations never exceed the quantity | invariant | OrderReservations |
| PaidIsBacked: PAID and REFUNDED orders are paid in full | invariant | OrderPayments |
| RefundIsExact: a refund is what was paid, once | invariant | OrderPayments |
| CashOrdersSettled: advance before confirmation, paid at delivery, refunded at return | invariant | OrderPayments |
| PaidIsFinal: nothing is added to a paid order | action | OrderPayments |
| ImplementsLifecycle: every commit is one atomic step of OrderLifecycle | refinement | OrderPayments |
| EveryCallReturns | liveness | OrderProgress |

### Runs and bounds

Two requests at a time in every run: each race in this code is between two
transactions on one row, and a third would only repeat one of the two. Requests end and
begin again, so sequences of calls are not bounded. `MaxAttempts` is 2 where the code
says 5: one retry, and one attempt that is the last.

- **OrderPayments**: one cart, cash on delivery, total 3, shipping 1, payments of 1, 2
  and 3 with or without a transaction id: below, at and above the balance. One stock
  row. All operations.
- **OrderStock**: two carts, one cash and one online, on one stock row of 2 units. All
  operations. The only run where one order is settled while another reserves, delivers
  or returns on the same row with cancellations.
- **OrderReservations**: two carts with two lines in opposite orders, three rows (one
  variant in two branches), no payments and no cancellations: rollback after a first
  line is reserved, the choice among branches, crosswise locks. All orders end, so the
  run stops without deadlock checking.
- **OrderProgress**: the same carts, checkouts and cancellations, under `FairSpec`.
  Deadlocks are reached: without the fairness of `DeadlockVictim` the property fails.
  When the carts are used up the system rests, so deadlock is not checked.

Symmetry permutes the requests in the runs without liveness; the carts, rows and
orders are told apart by the constants.

### Fairness

`FairSpec` asks strong fairness of each request's statements and weak fairness of the
breaking of deadlocks. A Node.js process resumes every `await` whose statement has
finished; Postgres queues the waiters of a row lock, so a statement that is enabled
again and again (the lock is released again and again) gets its turn; its deadlock
detector aborts one transaction of every cycle. No client is assumed to call, and
`Fail` is never required except in a deadlock.

### Where the code and its words differ

Four runs check one property each, stated by a comment or an error message, that the
code breaks:

- **Overpayment**. The comment at `order/order.service.ts:526-530` says no overpayment
  persists. Two partial payments each verify the ledger before the other commits, and
  both updates match `paymentStatus = PENDING`. The same interleaving leaves an order
  that is paid in full PENDING when the two parts only reach the total together.
- **DuplicateTransaction**. The check at `:580-594` sees committed rows only;
  `Payment.transactionId` is not unique.
- **PaidWhileCancelled**. The status is checked at `:566`, and not repeated in the
  update at `:677-684`.
- **LostRelease**. The release at `:900-912` is not conditional, unlike the other
  stock updates: it overwrites a reservation or delivery that commits between its read
  and its write.

They bound the properties that do hold: PaidIsBacked says a sum at least the total, not
equal to it; ReservedMatchesOrders and NoOversell are checked without cancellations.

## 4. OrderLifecycle

Place, Pay, Confirm, Advance (process, ship, cancel), Deliver and Return as atomic
steps on the order columns. The mapping is the identity on `status`, `paymentStatus`,
`source`, `paid`, `refunded`; stock, carts and the requests are hidden. Two of its
steps are weaker than one would like, because the code is: `Pay` does not look at the
status, and `Return` may take back an order paid online without a refund (its payment
arrived after returnOrder had read the order).

## 5. OnlinePayments

A worker `p` serves one HTTP call (initiate, callback or webhook), a reconciler one
run of the timer job. `pc[p]` is the next command against Postgres, Redis or the
provider, `job[p]` the attempt and what the call relies on: the status it read
(`seen`, the condition of `setStatus`), the holder of the slot, the payment status
createPayment read and whether the sum covers the total.

| Variable | Code |
|---|---|
| `status` | `PaymentIntent.status`, NONE before the row |
| `rows`, `paid`, `payStatus` | the `Payment` rows with the attempt's transaction id; the sum and `Order.paymentStatus` |
| `foreign` | attempts whose transaction id staff entered on another order |
| `slot`, `lock`, `reconciling` | Redis keys `pay:order-active`, `pay:finalize`, `pay:reconcile:lock` |
| `gateway` | the payment at the provider: open, approved by the customer, captured, declined |
| `todo` | what a reconciler has left of its list |

initiate is Initiate, TakeSlot, ReadHolder, ReadExisting, DropSlot, ReadHolderAgain,
CreateAtGateway, InsertIntent, UndoSlot; verifyAndFinalize is Notify (or Reconcile),
Execute, Query, FailStatus, FailSlot, Mismatch, AcquireFinalizeLock, ReadFresh,
ReadAlready, then createPayment as CheckPayment, VerifySum and CommitPayment, and
Review, Complete, ReleaseSlot, Unlock; the timer job is AcquireReconcileLock,
ListStale, Reconcile, EndRun. createPayment is here as its caller needs it; its races
are those of `OrderService`.

The environment: a process dies anywhere (`Crash`), a command throws (`Throw`), a
provider's call is lost, staff take a payment at the counter, cancel the order or
enter the transaction id on a wrong order, each bounded by `MaxEvents`; Redis keys
expire at any time, but for the assumption `LocksOutlive`: the finalize lock (120
seconds, taken after the provider has answered) does not expire while its holder is in
the critical section. Ages are left out: an attempt may be listed as soon as it
exists (the code waits 3 minutes) and is given up at any time if `MayExpire` (the code:
after 24 hours).

`PaymentSettlement` is the promise, whoever learns of a payment and in whatever order:
Capture, Record, Complete, Review. The mapping reads the money from the provider, the
rows from the ledger, and takes INITIATED and FAILED as the same open verdict: a
FAILED attempt may still be completed.

| Property | Kind | Run |
|---|---|---|
| TypeOK | invariant | OnlineFinalize |
| RecordedOnce: one Payment row per attempt | invariant | OnlineFinalize |
| ImplementsSettlement | refinement | OnlineFinalize |
| CapturedIsSettled: captured money is recorded or left to a person in the end | liveness | OnlineFinalize (broken by error answers: CapturedButFailed) |
| RecordedIsCaptured: a row means money taken and records that agree | invariant | OnlineAttempts |
| VerdictIsBacked: COMPLETED is in the ledger, NEEDS_REVIEW was paid | invariant | OnlineAttempts |
| VerdictIsFinal: a settled attempt stays as it is | action | OnlineAttempts |

**OnlineFinalize**: one attempt of 1 for an order of 2, two workers and the
reconciler, two events, `FairSpec`. Three processes are needed: the holder of the
lock, one that meets it and one that comes after. Two events let a crash follow a
failure, or another crash. **OnlineAttempts**: two attempts for one order, one of
amount 2 whose provider record disagrees, error answers, attempts given up and no
other events; workers are symmetric. Both attempts are open at once when the slot was
dropped or expired. An unused process may rest, so deadlock is not checked.

Fairness: a live process takes its next command (a crashed one is idle), the timer of
a server fires again and again, Redis keys with a time to live expire. Nobody is
assumed to send a callback. The provider must answer in the end: unreachable answers
are events, and bounded.

**CapturedButFailed** (one worker, one reconciler): the provider has the money, the
query is answered with an error body, which has no `transactionStatus` and counts as
FAILED (`bkash.gateway.ts:255`). The reconciler lists INITIATED attempts only, so that
only another callback would repair it; the comment at
`payment-reconciliation.service.ts:19-21` says that the job handles payments taken
while the order is not paid.

What the runs reach and no property forbids: two open attempts for one order (the slot
is deleted by name and expires after 15 minutes); an attempt that is recorded and
stays FAILED, because the compare-and-set of the finalizer met the FAILED of another
process; an attempt left to a person though it is recorded, after an error between the
commit and its answer. Without `LocksOutlive` RecordedOnce fails: `Payment.transactionId`
is not unique, and the lock is the only guard.

## 6. BackendServices

The other components share no table, key or memory with each other: their steps
commute, and interleaving two of them adds nothing to the behaviours of either. So one
run checks them all: `focus` names the component that acts, the others rest in an
initial state (`AtRest` fixes it for the components with several).

In each module a call is one action per statement or Redis command, the record of the
call keeps where it stands and what it read, and a call may die between two steps
(`StaffDies`, `CartCallFails`, `FailLoad`, `AuthCallFails`, ...). Ids are drawn in
order where only their being new matters. Two calls at a time: each race here is
between two calls on one row or key. Calls end and begin again, except in
`InventoryService`, where each of the two is made once.

| Module | State and code | Properties |
|---|---|---|
| `InventoryService` | `stock` rows of one variant, `netMoved` the movements; stockIn, stockOut, adjustStock as StaffRead, StaffWrite, StaffLog, transferStock as TransferHold, TransferRead, TransferDeliver in a transaction; orders reserve, deliver, return | LedgerMatches, ReservationsCovered, ReservationsKept |
| `CartService` | `cartStatus`, `cartItem`; createOrGetCart, addItem, updateItem, removeItem, clearCart, the checkout of createOrder | OrderedIsAdded, ClosedCartKept |
| `RbacCache` | `accessCache` and its insertion order, `loading`, `generation`; getAccess as ServeCached, JoinLoad, StartLoad and the callbacks ReadRoles, StoreLoaded, SettleLoad, FailLoad; Invalidate; the roles change in the database | FreshAfterInvalidate, OneLoadAtATime, CacheBounded |
| `AuthSession` | `session` keys; createSession, refreshSession (validate, consume, save, expire, hand), logout, expiry | OneSuccessor, LogoutIsFinal, UsedSessionsExpire |
| `OtpLogin` | the three keys of a phone; generate and verify by Redis command, expiry | WrongGuessesCounted, RequestWindowEnds |
| `AccountLinking` | User, Customer, OAuthIdentity rows; loginWithGoogle, completeRegistration | SignsInAsLinked |
| `CashierAccess` | assignments, pending actions, roles; start and end of a session, propose and confirm, the access rules as operators | AccessAgrees, OneSession, EndedSessionActsNoMore, ActionRunsOnce |
| `RateLimit` | the key of one rule and identity; count, expire, refuse | RefusalEnds |

TypesOK joins the type invariants of all eight. ClosedCartKept is an action property,
the others are invariants. No deadlock is checked: a call that is not made again leaves
nothing to do. No fairness is assumed and no liveness claimed here.

Several properties exempt what the code really breaks, by a history variable that
names it exactly:

- `raced`: a staff call wrote over a row that changed after it was read (its update
  repeats the id only). Elsewhere rows equal their movements and cover the reservations;
  ReservationsKept, that no reservation is brought back or lost, holds without exemption.
- `unlogged`: written to the row, the movement not inserted, or lost in a crash.
- `caught`: addItem, updateItem and clearCart check that the cart is ACTIVE and write later,
  by the id of the row or of the cart. A checkout in between does not stop them: what they
  write is in a closed cart, and in no order. ClosedCartKept says how far this goes: only
  calls on that very cart that were under way when it closed, one write each, and
  removeItem, which does not look at the status. A call that begins later, or on the
  customer's other cart, reaches none of its rows.
- `unlimited`: a generate died between incr and expire; its count never ends. (The rate
  limiter repairs such a key at the next request, so RefusalEnds has no exemption.)
- `uncounted`: a call with a wrong code died before it counted it.
- `oneSession`: overlapping starts of one cashier leave two active sessions, against the
  comment at `cashier/cashier-assignment.service.ts:10-13`; the property says that
  the next start that meets no other repairs it.
- `alone`, `barred`: a confirmation is barred when a call of end that overlapped no start
  had returned before it.

Also reached, and forbidden by no property: two ACTIVE carts of one customer, an
addition to a cart lost to another, two verifications with the same right code both
succeeding, a User without a Customer after a failure between their inserts (the next
registration links that user and creates none), guests' orders that a cashier may open
but no list of a cashier shows.

Bounds (`BackendServices.cfg`): two branches and one order line of one unit, rows of 0 or
2, amounts -1 and 1; two carts, three items, one variant, at most three units put; two
users with a cache of one entry, three checks, one change of roles per user and one
invalidation, so that a load meets an invalidation, a reload and an eviction; four
sessions, a login and its refreshes by two calls; two codes, two attempts, two requests
an hour, three wrong codes; one account, two users, two phones, one e-mail; one staff
member with every set of roles, one customer, three assignments, so that two overlapping
starts and a third happen, one pending action; a limit of 1, four requests in each of
three windows.

## 7. Proofs

`OrderServiceProofs` proves, for any number of requests, carts, orders and rows, any
amounts and any `MaxAttempts`, from the ASSUMEs of `OrderService` (order numbers are
positive, a cart has lines of distinct variants and positive quantities, totals are positive
integers, amounts are positive) which TLC evaluates in every run:

| Theorem | States |
|---|---|
| InvariantHolds | `Spec => []Invariant` |
| TypeCorrect | `Spec => []TypeOK` |
| CartsOrderedOnce | `Spec => []OneOrderPerCart` |
| PaidOrdersBacked | `Spec => []PaidIsBacked` |
| RefundsExact | `Spec => []RefundIsExact` |
| CashSettled | `Spec => []CashOrdersSettled` |
| LifecycleImplemented | `Spec => ImplementsLifecycle` |
| PaymentsFinal | `Spec => PaidIsFinal` |

The argument. The properties are not inductive: whether a commit is right depends on
what its request read earlier. `Invariant` adds, for every request and statement, what
it still knows (`RequestInv`): before its last update a payment has seen PENDING, and
the sum it has seen is not more than the ledger holds with its own row; a settlement
that has marked the order knows its status cannot change; a checkout knows that all
smaller numbers exist. This knowledge survives the steps of others for two reasons.
Some of it is monotone (`OrdersKeep`: orders stay, payments only add up, PENDING is not
restored), the rest is protected by the lock of the Order row (`LocksKeep`, `OneHolder`).
Lemma OthersInvariant says this once; LocalStep and CommitStep reduce every action to
what it does to its own request and, for the eight commits, to the ledger
(`LedgerInv`). The refinement and PaidIsFinal follow from the same invariant, one lemma
for each commit.

`OrderStockProofs` proves what the order service keeps true of the stock, from two more
ASSUMEs of `OrderService`: the sets of orders and of stock rows are finite, so that there
are sums over them, and `Clean`, which stands for a row a transaction has not written, is
not a row.

| Theorem | States |
|---|---|
| StockInvHolds | `Spec => []StockInv` |
| OrdersSettledOnce | `Spec => []SettledOnce` |
| QuantitiesAccounted | `Spec => []QuantityMatchesMovements` |
| LinesFullyReserved | `Spec => []LinesReserved` |
| ReservationsMatch | `"cancel" \notin Ops /\ Spec => []ReservedMatchesOrders` |
| NothingOversold | `"cancel" \notin Ops /\ Spec => []NoOversell` |

ReservedMatchesOrders is false with cancelOrder (LostRelease, section 3), and the
argument for NoOversell rests on it, so both theorems are about the operations of the run
OrderReservations: any but that one. The argument: a stock row changes only when a request commits its own version of it. `StockInv` says how that
version differs from the committed row (`VersionInv`): by exactly the units the request
has noted to move, and nobody else has a version of the row. It says which rows a
settlement has written and which it has still to write (`TodoInv`: its moves are the
movements of its order on the rows it is past, and nothing on the others) and which
lines a checkout has reserved (`LineInv`). At a commit `todo` is empty, or the checkout is past its last
line; row and movements then change by the same amount, and the sums by one term.
OthersStock says that a step leaves this to the others, LocalStock and the lemmas on
the commits what a step does for its own request.

### Sums

The amounts over orders, lines and carts are `SumFunctionOnSet`, which the library
defines as a fold: a recursive function on the subsets of the set. `SumTheorems` proves
first that this function exists and satisfies its equation, and then by induction what
the other proofs cite: a sum is an integer, loses what an element that is removed had,
changes by what one term changes, and grows with the set. A principle of induction that
takes an operator cannot be instantiated here, so induction runs over a set: the
subsets for which the fact holds are a set that has each subset whose strict subsets it
has (SubsetInduction, from the well-foundedness of strict inclusion on finite sets).
`RequestChecksProofs` treats `Without` of `RbacCache` in the same way, by NaturalsInSet.

### The other modules

`OnlinePaymentsProofs`, for any number of processes, attempts, orders and events, from
the ASSUMEs of `OnlinePayments` (workers are not reconcilers, amounts and totals are
positive integers) and `LocksOutlive`, which each theorem names:

| Theorem | States |
|---|---|
| Invariant | `Spec => []IInv` |
| TypeCorrect, RecordedOnceHolds, RecordedIsCapturedHolds, VerdictIsBackedHolds | the invariants |
| VerdictIsFinalHolds | `Spec => VerdictIsFinal` |
| Refinement | `Spec => ImplementsSettlement` |

The argument: `IInv` says that a process between the lock's acquisition and its release
holds the lock alone, and only it may insert the row; so what it has read about the row
stays true until its commit. Money once captured stays captured, which makes the other
reads stable. The status a call has read is either still there or has moved on, and then
its compare-and-set changes nothing.

The components, each with an inductive invariant of the same kind (what a call in
progress relies on), for any number of calls and rows:

| Module | Theorems |
|---|---|
| `InventoryCartProofs` | InventoryInvariant, LedgerMatchesHolds, ReservationsCoveredHolds, ReservationsKeptHolds |
| `InventoryCartProofs` | CartInvariant, OrderedIsAddedHolds, ClosedCartKeptHolds |
| `RequestChecksProofs` | RbacInvariant, FreshAfterInvalidateHolds, OneLoadAtATimeHolds, CacheBoundedHolds |
| `RequestChecksProofs` | OtpInvariant, WrongGuessesCountedHolds, RequestWindowEndsHolds, RateInvariant, RefusalEndsHolds |
| `AccountProofs` | AuthInvariant, OneSuccessorHolds, LogoutIsFinalHolds, UsedSessionsExpireHolds |
| `AccountProofs` | LinkInvariant, SignsInAsLinkedHolds |
| `AccountProofs` | DeskInvariant, OneSessionHolds, EndedSessionActsNoMoreHolds, ActionRunsOnceHolds, AccessAgreesHolds |
| `BackendServicesProofs` | ComponentsBehave, TypesHold |

- A staff call that will write knows what its check found in the row it read; a row that
  has not been raced is still that row when it writes, or the write makes it raced. A
  transfer's row is held, so it cannot change under it. No staff call writes the reserved
  quantity, so it follows the open lines whatever was raced (the lines are finitely many).
- OrderedIsAdded is about totals, but what a call relies on is about one cart. The model
  does not record what was put into which cart, so `CartInv` says that amounts exist,
  per cart and variant, that account for everything: their sum is not more than `put`;
  over the closed carts it is not less than `ordered`; and each row, each quantity read
  for an update and each line of a checkout under way is not more than its cart's amount.
  A step that puts something adds it to one amount; a checkout closes its cart and orders
  not more than that cart's amount, which was not counted before. Carts and items are
  finitely many.
- Who may write to a closed cart (`CaughtIInv`): a call that has passed the check of the
  status and whose cart is closed now was caught by the checkout, since its cart was ACTIVE
  when it began; and the item that updateItem or removeItem has found is in the cart of
  the call as long as the row lives, since no row changes its cart.
- A load of roles that may be stored has the current generation, so nothing was invalidated
  since it read; a load registered for a user has the user's current epoch, and two
  unfinished loads of one epoch would both be registered.
- The eviction order lists exactly the cached users, each once; what is left of it after a
  removal keeps its order and is shorter if any user in it was removed, and a store to a
  full cache removes the first user or the one it stores.
- Each consumed token has at most one call or one session that descends from it: the del
  that found the key is the only one.
- Wrong codes are counted by induction on the calls under way, which the ASSUME of
  `OtpLogin` takes to be finitely many (so does `RateLimit`): one call that counts leaves
  the set and adds one to the attempts.
- A pending action is in Redis, or with one call, or run.

A step of `BackendServices` is one of a single component, so `BackendSpec` implies the
specification of each (ComponentsBehave) and every theorem about one of them holds of it;
TypesHold collects their type invariants.

Only model-checked: EveryCallReturns and CapturedIsSettled (liveness under fairness is
outside the prover, and so is ENABLED). ReservedMatchesOrders and NoOversell are proved
where OrderReservations checks them, without cancelOrder, and not beyond: with it the
first is false, and whether the second survives is not settled here.

## Not modelled

The category list cached by the product service and the code of a branch made from a
count (a category list read before an insert is cached after it, for its TTL; a concurrent
branch code meets a unique constraint); the risk assessment, whose result no operation reads;
customers, organizations, branches and products (single-row inserts under unique
constraints); the bKash access token and signatures, the conversation with the language
model and its history, PDF layout, request validation, configuration, the web
application. Migrations and schema snapshots are generated.

## 8. Running

`tlc -config OrderStock.cfg MCOrderService` and likewise for each configuration: Online* and
CapturedButFailed with `MCOnlinePayments`, BackendServices with `MCBackendServices`;
`tlapm OrderServiceProofs.tla`, and each other `*Proofs.tla`, for the proofs.
