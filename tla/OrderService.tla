---------------------------- MODULE OrderService ----------------------------
(***************************************************************************)
(* The order, stock-reservation and payment operations of                  *)
(* apps/api/src/order/order.service.ts, interleaved one SQL statement at a *)
(* time.                                                                   *)
(*                                                                         *)
(* Every API call being served is a request p: pc[p] is the statement it   *)
(* executes next, call[p] what the client asked, seen[p] what it has read  *)
(* and still relies on, tx[p] its uncommitted work.  The database is       *)
(* Postgres at READ COMMITTED: a SELECT sees committed rows and the        *)
(* request's own writes; an UPDATE waits for the row's lock and evaluates  *)
(* its WHERE clause again on the version it then finds; locks last until   *)
(* the transaction ends.  A request has written a row without committing   *)
(* exactly when it holds that row's lock, so the locks are read off pc and *)
(* tx instead of being kept.                                               *)
(*                                                                         *)
(* Amounts of money are integers, in units of 0.01.  An order is known by  *)
(* its order number, which is unique and counts up from 1 within a day.    *)
(***************************************************************************)
EXTENDS Integers, Sequences, FiniteSetsExt

CONSTANTS
  Requests,     \* the API calls the server can be serving at once
  OrderIds,     \* the order numbers of the day, 1..n
  Carts,        \* the carts customers check out
  Lines,        \* Lines[c]: the cart items of c, a sequence of variant and qty
  Method,       \* Method[c]: the payment method chosen for c, COD or ONLINE
  Total,        \* Total[c]: the grandTotal computed for c
  Shipping,     \* Shipping[c]: the shippingTotal computed for c
  Stocks,       \* the InventoryStock rows, one per branch and variant
  VariantOf,    \* VariantOf[s]: the product variant row s keeps
  InitialQty,   \* InitialQty[s]: the physical quantity of s at the start
  Amounts,      \* the amounts clients pay
  TxnIds,       \* the transaction ids payments may carry
  MaxAttempts,  \* how often a handler tries its transaction (5 in the code)
  Ops,          \* the operations clients may call
  NoCart, NoStock, NoTxn, Clean

Line == [variant : {VariantOf[s] : s \in Stocks}, qty : Nat \ {0}]

ASSUME OrderIdsAssumption == OrderIds \subseteq Nat \ {0}
ASSUME FiniteAssumption == IsFiniteSet(OrderIds) /\ IsFiniteSet(Stocks)
ASSUME CartAssumption ==
  /\ Lines \in [Carts -> Seq(Line)]
  /\ \A c \in Carts : Lines[c] # << >>
  /\ \A c \in Carts : \A i, j \in DOMAIN Lines[c] :
       Lines[c][i].variant = Lines[c][j].variant => i = j
  /\ Method \in [Carts -> {"COD", "ONLINE"}]
  /\ Total \in [Carts -> Nat \ {0}]
  /\ Shipping \in [Carts -> Nat]
  /\ NoCart \notin Carts
ASSUME StockAssumption ==
  /\ InitialQty \in [Stocks -> Nat]
  /\ NoStock \notin Stocks
ASSUME PaymentAssumption ==
  /\ Amounts \subseteq Nat \ {0}
  /\ NoTxn \notin TxnIds
  /\ MaxAttempts \in Nat \ {0}

VARIABLES
  status,         \* Order.status, NONE before the order exists
  paymentStatus,  \* Order.paymentStatus
  source,         \* the cart an order was made from
  paid,           \* sum of the order's PAID Payment rows
  refunded,       \* sum, without its sign, of its REFUNDED Payment rows
  txns,           \* number of Payment rows carrying a transaction id
  stock,          \* InventoryStock: quantity and reservedQuantity
  moved,          \* StockMovement: quantity by referenceType, order and row
  cartStatus,     \* Cart.status
  invoices,       \* the orders that have an Invoice row
  pc, call, seen, tx

tables == <<status, paymentStatus, source, paid, refunded, txns, stock, moved,
            cartStatus, invoices>>
vars == <<status, paymentStatus, source, paid, refunded, txns, stock, moved,
          cartStatus, invoices, pc, call, seen, tx>>

-----------------------------------------------------------------------------
(* Rows and request-local state.                                           *)

Status == {"PENDING", "CONFIRMED", "PROCESSING", "SHIPPED", "DELIVERED",
           "RETURNED", "CANCELLED"}
PaymentStatus == {"PENDING", "PAID", "REFUNDED"}
Reference == {"ORDER", "ORDER_CANCEL", "ORDER_DELIVERY", "ORDER_RETURN"}
StockRow == [qty : Nat, reserved : Nat]
ASSUME CleanAssumption == Clean \notin StockRow

NoCall == [order |-> 0, cart |-> NoCart, amount |-> 0, txn |-> NoTxn, try |-> 0]
NothingSeen == [status |-> "NONE", pay |-> "PENDING", paid |-> 0,
                stock |-> NoStock, row |-> [qty |-> 0, reserved |-> 0]]
NoTx == [line |-> 1, todo |-> {}, stock |-> [s \in Stocks |-> Clean],
         moves |-> [s \in Stocks |-> 0]]

Exists(o) == status[o] # "NONE"
TotalOf(o) == Total[source[o]]
IsCOD(o) == Method[source[o]] = "COD"
Larger(a, b) == IF a >= b THEN a ELSE b

(* What p's own SELECT returns for stock row s.                            *)
View(p, s) == IF tx[p].stock[s] = Clean THEN stock[s] ELSE tx[p].stock[s]
AvailableUnreserved(row) == row.qty                        \* faulty variant
Available(row) == row.qty - row.reserved

(* The statements that follow an uncommitted write of the Order row.       *)
HoldsOrder == {"create.close", "cancel.stock", "cancel.write", "deliver.stock",
               "deliver.write", "return.stock", "return.write"}

(* The conditional and unconditional updates of a stock row.                *)
WriteLabels == {"create.reserve", "cancel.write", "deliver.write", "return.write"}

StockLocked(p, s) == \E q \in Requests \ {p} : tx[q].stock[s] # Clean
OrderLocked(p, o) ==
  \E q \in Requests \ {p} : call[q].order = o /\ pc[q] \in HoldsOrder

Goto(p, l) == pc' = [pc EXCEPT ![p] = l]

(* The call returns or throws; whatever it had not committed is undone.    *)
Done(p) ==
  /\ Goto(p, "idle")
  /\ call' = [call EXCEPT ![p] = NoCall]
  /\ seen' = [seen EXCEPT ![p] = NothingSeen]
  /\ tx' = [tx EXCEPT ![p] = NoTx]

(* Faulty variants of Retry: reservations collected by an attempt survive   *)
(* its rollback; the number of attempts is not limited.                     *)
RetryKeepsMoves(p, l, again) ==
  IF call[p].try < MaxAttempts
  THEN /\ Goto(p, l)
       /\ call' = [call EXCEPT ![p] = [again EXCEPT !.try = call[p].try + 1]]
       /\ seen' = [seen EXCEPT ![p] = NothingSeen]
       /\ tx' = [tx EXCEPT ![p] = [NoTx EXCEPT !.moves = tx[p].moves]]
  ELSE Done(p)
RetryForever(p, l, again) ==
  /\ Goto(p, l)
  /\ call' = [call EXCEPT ![p] = again]
  /\ seen' = [seen EXCEPT ![p] = NothingSeen]
  /\ tx' = [tx EXCEPT ![p] = NoTx]

(* A ConflictException: roll back and start the transaction again at l,    *)
(* unless this was the last attempt.                                       *)
Retry(p, l, again) ==
  IF call[p].try < MaxAttempts
  THEN /\ Goto(p, l)
       /\ call' = [call EXCEPT ![p] = [again EXCEPT !.try = call[p].try + 1]]
       /\ seen' = [seen EXCEPT ![p] = NothingSeen]
       /\ tx' = [tx EXCEPT ![p] = NoTx]
  ELSE Done(p)

(* UPDATE of stock row s in p's transaction, and the StockMovement of q    *)
(* units it inserts with it.                                               *)
WriteStock(p, s, row, q) ==
  tx' = [tx EXCEPT ![p].stock[s] = row,
                   ![p].moves[s] = tx[p].moves[s] + q,
                   ![p].todo = tx[p].todo \ {s}]

(* The stock side of a COMMIT.                                             *)
CommitStock(p, ref, o) ==
  /\ stock' = [s \in Stocks |-> View(p, s)]
  /\ moved' = [moved EXCEPT ![ref][o] =
                 [s \in Stocks |-> moved[ref][o][s] + tx[p].moves[s]]]

(* The rows the order's movements of this referenceType name.              *)
RowsOf(ref, o) == {s \in Stocks : moved[ref][o][s] > 0}

(* The statements of each operation, in their order.                        *)
CreateLabels == {"create.number", "create.pick", "create.reserve", "create.insert",
                 "create.close", "create.invoice"}
PayLabels == {"pay.read", "pay.txn", "pay.insert", "pay.verify", "pay.update"}
AdvanceLabels == {"confirm.advance", "confirm.update", "process.update", "ship.update"}
CancelLabels == {"cancel.mark", "cancel.stock", "cancel.write"}
DeliverLabels == {"deliver.mark", "deliver.stock", "deliver.write"}
ReturnLabels == {"return.mark", "return.stock", "return.write"}
Labels == {"idle"} \cup CreateLabels \cup PayLabels \cup AdvanceLabels
            \cup CancelLabels \cup DeliverLabels \cup ReturnLabels

CallType == [order : OrderIds \cup {0}, cart : Carts \cup {NoCart}, amount : Nat,
             txn : TxnIds \cup {NoTxn}, try : Nat]
SeenType == [status : Status \cup {"NONE"}, pay : PaymentStatus, paid : Nat,
             stock : Stocks \cup {NoStock}, row : StockRow]
TxType == [line : Nat \ {0}, todo : SUBSET Stocks,
           stock : [Stocks -> StockRow \cup {Clean}], moves : [Stocks -> Nat]]

(* The columns hold what the schema declares; in particular no quantity,    *)
(* reservation or sum of money goes below zero.                             *)
TypeOK ==
  /\ status \in [OrderIds -> Status \cup {"NONE"}]
  /\ paymentStatus \in [OrderIds -> PaymentStatus]
  /\ source \in [OrderIds -> Carts \cup {NoCart}]
  /\ paid \in [OrderIds -> Nat]
  /\ refunded \in [OrderIds -> Nat]
  /\ txns \in [TxnIds -> Nat]
  /\ stock \in [Stocks -> StockRow]
  /\ moved \in [Reference -> [OrderIds -> [Stocks -> Nat]]]
  /\ cartStatus \in [Carts -> {"ACTIVE", "CHECKED_OUT"}]
  /\ invoices \in SUBSET OrderIds
  /\ pc \in [Requests -> Labels]
  /\ call \in [Requests -> CallType]
  /\ seen \in [Requests -> SeenType]
  /\ tx \in [Requests -> TxType]

Init ==
  /\ status = [o \in OrderIds |-> "NONE"]
  /\ paymentStatus = [o \in OrderIds |-> "PENDING"]
  /\ source = [o \in OrderIds |-> NoCart]
  /\ paid = [o \in OrderIds |-> 0]
  /\ refunded = [o \in OrderIds |-> 0]
  /\ txns = [t \in TxnIds |-> 0]
  /\ stock = [s \in Stocks |-> [qty |-> InitialQty[s], reserved |-> 0]]
  /\ moved = [r \in Reference |-> [o \in OrderIds |-> [s \in Stocks |-> 0]]]
  /\ cartStatus = [c \in Carts |-> "ACTIVE"]
  /\ invoices = {}
  /\ pc = [p \in Requests |-> "idle"]
  /\ call = [p \in Requests |-> NoCall]
  /\ seen = [p \in Requests |-> NothingSeen]
  /\ tx = [p \in Requests |-> NoTx]

(* Client p calls operation op on order o.                                 *)
Begin(p, op, o) == pc[p] = "idle" /\ op \in Ops /\ Exists(o)

-----------------------------------------------------------------------------
(* createOrder.  The cart, its items and their prices are read once, before *)
(* the retry loop.                                                          *)

NextNumber(n) ==
  /\ \A m \in OrderIds : Exists(m) => m < n
  /\ \A m \in OrderIds : m < n => Exists(m)

CreateStart(p, c) ==
  /\ pc[p] = "idle" /\ "create" \in Ops
  /\ cartStatus[c] = "ACTIVE"
  /\ Goto(p, "create.number")
  /\ call' = [call EXCEPT ![p] = [NoCall EXCEPT !.cart = c, !.try = 1]]
  /\ UNCHANGED <<seen, tx, tables>>

(* generateOrderNumber reads the latest committed number of the day.        *)
CreateNumber(p) ==
  /\ pc[p] = "create.number"
  /\ \E n \in OrderIds :
       /\ NextNumber(n)
       /\ call' = [call EXCEPT ![p].order = n]
  /\ Goto(p, "create.pick")
  /\ UNCHANGED <<seen, tx, tables>>

CreateRetry(p) ==
  Retry(p, "create.number", [NoCall EXCEPT !.cart = call[p].cart])

CurrentLine(p) == Lines[call[p].cart][tx[p].line]
Fitting(p) ==
  {s \in Stocks : /\ VariantOf[s] = CurrentLine(p).variant
                  /\ Available(View(p, s)) >= CurrentLine(p).qty}

(* The best-stocked row of the variant, among those that hold enough.       *)
CreatePick(p) ==
  /\ pc[p] = "create.pick"
  /\ \E s \in Fitting(p) :
       /\ \A t \in Fitting(p) : Available(View(p, t)) <= Available(View(p, s))
       /\ seen' = [seen EXCEPT ![p].stock = s, ![p].row = View(p, s)]
  /\ Goto(p, "create.reserve")
  /\ UNCHANGED <<call, tx, tables>>

(* Insufficient stock: BadRequestException, never retried.                  *)
CreateOutOfStock(p) ==
  /\ pc[p] = "create.pick"
  /\ Fitting(p) = {}
  /\ Done(p)
  /\ UNCHANGED tables

(* The WHERE clause of the conditional stock updates: the row is as read.   *)
RowAnything(p, row) == TRUE                                \* faulty variant
RowAsSeen(p, row) == row = seen[p].row

CreateReserve(p) ==
  LET s == seen[p].stock
      row == seen[p].row
      qty == CurrentLine(p).qty
      more == tx[p].line < Len(Lines[call[p].cart])
  IN /\ pc[p] = "create.reserve"
     /\ ~StockLocked(p, s)
     /\ RowAsSeen(p, View(p, s))
     /\ tx' = [tx EXCEPT
          ![p].stock[s] = [View(p, s) EXCEPT !.reserved = row.reserved + qty],
          ![p].moves[s] = tx[p].moves[s] + qty,
          ![p].line = IF more THEN tx[p].line + 1 ELSE tx[p].line]
     /\ Goto(p, IF more THEN "create.pick" ELSE "create.insert")
     /\ UNCHANGED <<call, seen, tables>>

CreateReserveConflict(p) ==
  /\ pc[p] = "create.reserve"
  /\ ~RowAsSeen(p, View(p, seen[p].stock))
  /\ CreateRetry(p)
  /\ UNCHANGED tables

(* INSERT of the Order: orderNumber is unique, so it waits for a request    *)
(* that has inserted the same number, and fails once that one commits.      *)
CreateInsert(p) ==
  /\ pc[p] = "create.insert"
  /\ ~Exists(call[p].order)
  /\ ~OrderLocked(p, call[p].order)
  /\ Goto(p, "create.close")
  /\ UNCHANGED <<call, seen, tx, tables>>

CreateNumberClash(p) ==
  /\ pc[p] = "create.insert"
  /\ Exists(call[p].order)
  /\ CreateRetry(p)
  /\ UNCHANGED tables

CartAnything(c) == TRUE                                    \* faulty variant
CartStillActive(c) == cartStatus[c] = "ACTIVE"

(* Close the cart and commit order, items, movements and reservations.      *)
CreateClose(p) ==
  LET o == call[p].order
      c == call[p].cart
  IN /\ pc[p] = "create.close"
     /\ CartStillActive(c)
     /\ status' = [status EXCEPT ![o] = "PENDING"]
     /\ paymentStatus' = [paymentStatus EXCEPT ![o] = "PENDING"]
     /\ source' = [source EXCEPT ![o] = c]
     /\ cartStatus' = [cartStatus EXCEPT ![c] = "CHECKED_OUT"]
     /\ CommitStock(p, "ORDER", o)
     /\ Goto(p, "create.invoice")
     /\ tx' = [tx EXCEPT ![p] = NoTx]
     /\ seen' = [seen EXCEPT ![p] = NothingSeen]
     /\ UNCHANGED <<call, paid, refunded, txns, invoices>>

CreateCartConflict(p) ==
  /\ pc[p] = "create.close"
  /\ ~CartStillActive(call[p].cart)
  /\ CreateRetry(p)
  /\ UNCHANGED tables

(* invoiceService.generateForOrder runs after the commit; a failure is only *)
(* logged (Fail covers it).                                                 *)
CreateInvoice(p) ==
  /\ pc[p] = "create.invoice"
  /\ invoices' = invoices \cup {call[p].order}
  /\ Done(p)
  /\ UNCHANGED <<status, paymentStatus, source, paid, refunded, txns, stock,
                 moved, cartStatus>>

-----------------------------------------------------------------------------
(* createPayment.                                                           *)

PayStart(p, o, amount, txn) ==
  /\ Begin(p, "pay", o)
  /\ Goto(p, "pay.read")
  /\ call' = [call EXCEPT ![p] = [NoCall EXCEPT !.order = o, !.amount = amount,
                                                !.txn = txn, !.try = 1]]
  /\ UNCHANGED <<seen, tx, tables>>

PayRetry(p) == Retry(p, "pay.read", call[p])

PayRead(p) ==
  /\ pc[p] = "pay.read"
  /\ IF status[call[p].order] = "CANCELLED"
     THEN Done(p)
     ELSE /\ seen' = [seen EXCEPT ![p].pay = paymentStatus[call[p].order]]
          /\ Goto(p, "pay.txn")
          /\ UNCHANGED <<call, tx>>
  /\ UNCHANGED tables

TxnRecorded(t) == t # NoTxn /\ txns[t] > 0

(* A transaction id that is already recorded is a ConflictException, which  *)
(* the loop retries like any other.                                         *)
PayTxn(p) ==
  /\ pc[p] = "pay.txn"
  /\ IF TxnRecorded(call[p].txn)
     THEN PayRetry(p)
     ELSE Goto(p, "pay.insert") /\ UNCHANGED <<call, seen, tx>>
  /\ UNCHANGED tables

ExceedsNothing(p) == FALSE                                 \* faulty variant
ExceedsRemaining(p) == call[p].amount > TotalOf(call[p].order) - paid[call[p].order]

(* Read the ledger, refuse an amount beyond the balance, insert the row.    *)
PayInsert(p) ==
  /\ pc[p] = "pay.insert"
  /\ IF ExceedsRemaining(p)
     THEN Done(p)
     ELSE Goto(p, "pay.verify") /\ UNCHANGED <<call, seen, tx>>
  /\ UNCHANGED tables

(* Read the ledger again, the request's own row included; 0.01 is one unit. *)
PayVerify(p) ==
  LET sum == paid[call[p].order] + call[p].amount
  IN /\ pc[p] = "pay.verify"
     /\ IF sum > TotalOf(call[p].order) + 1
        THEN PayRetry(p)
        ELSE /\ seen' = [seen EXCEPT ![p].paid = sum]
             /\ Goto(p, "pay.update")
             /\ UNCHANGED <<call, tx>>
     /\ UNCHANGED tables

PayStatusAnything(p) == TRUE                               \* faulty variant
PayStatusAsSeen(p) == paymentStatus[call[p].order] = seen[p].pay

CoversWithinTolerance(p) ==                                \* faulty variant
  seen[p].paid + 1 >= TotalOf(call[p].order)
CoversTotal(p) == seen[p].paid >= TotalOf(call[p].order)

(* UPDATE the Order where paymentStatus is as read, and commit.             *)
PayUpdate(p) ==
  LET o == call[p].order
      t == call[p].txn
  IN /\ pc[p] = "pay.update"
     /\ PayStatusAsSeen(p)
     /\ ~OrderLocked(p, o)
     /\ paymentStatus' = [paymentStatus EXCEPT ![o] =
          IF CoversTotal(p) THEN "PAID" ELSE "PENDING"]
     /\ paid' = [paid EXCEPT ![o] = paid[o] + call[p].amount]
     /\ txns' = IF t = NoTxn THEN txns ELSE [txns EXCEPT ![t] = txns[t] + 1]
     /\ Done(p)
     /\ UNCHANGED <<status, source, refunded, stock, moved, cartStatus, invoices>>

PayConflict(p) ==
  /\ pc[p] = "pay.update"
  /\ ~PayStatusAsSeen(p)
  /\ PayRetry(p)
  /\ UNCHANGED tables

-----------------------------------------------------------------------------
(* confirmOrder, processOrder and shipOrder: read the order, then a         *)
(* conditional UPDATE outside any transaction.                              *)

AdvanceStart(p, o, op, from, l) ==
  /\ Begin(p, op, o)
  /\ status[o] = from
  /\ Goto(p, l)
  /\ call' = [call EXCEPT ![p] = [NoCall EXCEPT !.order = o]]
  /\ UNCHANGED <<seen, tx, tables>>

AdvanceUpdate(p, l, from, to) ==
  LET o == call[p].order
  IN /\ pc[p] = l
     /\ IF status[o] = from
        THEN ~OrderLocked(p, o) /\ status' = [status EXCEPT ![o] = to]
        ELSE status' = status
     /\ Done(p)
     /\ UNCHANGED <<paymentStatus, source, paid, refunded, txns, stock, moved,
                    cartStatus, invoices>>

ConfirmStart(p, o) ==
  AdvanceStart(p, o, "confirm", "PENDING",
               IF IsCOD(o) THEN "confirm.advance" ELSE "confirm.update")

AdvanceNeverMissing(o) == FALSE                            \* faulty variant
AdvanceMissing(o) == paid[o] < Shipping[source[o]]

(* A cash-on-delivery order needs its shipping charge paid in advance.      *)
ConfirmAdvance(p) ==
  LET o == call[p].order
  IN /\ pc[p] = "confirm.advance"
     /\ IF AdvanceMissing(o)
        THEN Done(p)
        ELSE Goto(p, "confirm.update") /\ UNCHANGED <<call, seen, tx>>
     /\ UNCHANGED tables

ConfirmUpdate(p) == AdvanceUpdate(p, "confirm.update", "PENDING", "CONFIRMED")
ProcessStart(p, o) == AdvanceStart(p, o, "process", "CONFIRMED", "process.update")
ProcessUpdate(p) == AdvanceUpdate(p, "process.update", "CONFIRMED", "PROCESSING")
ShipStart(p, o) == AdvanceStart(p, o, "ship", "PROCESSING", "ship.update")
ShipUpdate(p) == AdvanceUpdate(p, "ship.update", "PROCESSING", "SHIPPED")

-----------------------------------------------------------------------------
(* cancelOrder, deliverOrder and returnOrder read the order first; then, in *)
(* a transaction, they UPDATE its status where it is still the one read,    *)
(* and settle the stock rows its movements name, one after the other.       *)

SettleStart(p, o, op, from, l) ==
  /\ Begin(p, op, o)
  /\ status[o] \in from
  /\ Goto(p, l)
  /\ call' = [call EXCEPT ![p] = [NoCall EXCEPT !.order = o]]
  /\ seen' = [seen EXCEPT ![p].status = status[o], ![p].pay = paymentStatus[o]]
  /\ UNCHANGED <<tx, tables>>

StatusAnything(p) == TRUE                                  \* faulty variant
StatusAsSeen(p) == status[call[p].order] = seen[p].status

SettleMark(p, l, ref, next) ==
  LET o == call[p].order
  IN /\ pc[p] = l
     /\ IF StatusAsSeen(p)
        THEN /\ ~OrderLocked(p, o)
             /\ tx' = [tx EXCEPT ![p].todo = RowsOf(ref, o)]
             /\ Goto(p, next)
             /\ UNCHANGED <<call, seen>>
        ELSE Done(p)
     /\ UNCHANGED tables

SettleRead(p, s, next) ==
  /\ seen' = [seen EXCEPT ![p].stock = s, ![p].row = View(p, s)]
  /\ Goto(p, next)
  /\ UNCHANGED <<call, tx, tables>>

CancelStart(p, o) ==
  SettleStart(p, o, "cancel", {"PENDING", "CONFIRMED", "PROCESSING"}, "cancel.mark")
CancelMark(p) == SettleMark(p, "cancel.mark", "ORDER", "cancel.stock")
CancelRead(p) ==
  pc[p] = "cancel.stock" /\ \E s \in tx[p].todo : SettleRead(p, s, "cancel.write")

ReleasedUnclamped(row, q) == row.reserved - q              \* faulty variant
Released(row, q) == Larger(0, row.reserved - q)

(* The release is not conditional: it stores the value read less the        *)
(* reservation, whatever the row holds by then.                             *)
CancelWrite(p) ==
  LET s == seen[p].stock
      q == moved["ORDER"][call[p].order][s]
  IN /\ pc[p] = "cancel.write"
     /\ ~StockLocked(p, s)
     /\ WriteStock(p, s, [View(p, s) EXCEPT !.reserved = Released(seen[p].row, q)], q)
     /\ Goto(p, "cancel.stock")
     /\ UNCHANGED <<call, seen, tables>>

CancelCommit(p) ==
  LET o == call[p].order
  IN /\ pc[p] = "cancel.stock" /\ tx[p].todo = {}
     /\ status' = [status EXCEPT ![o] = "CANCELLED"]
     /\ CommitStock(p, "ORDER_CANCEL", o)
     /\ Done(p)
     /\ UNCHANGED <<paymentStatus, source, paid, refunded, txns, cartStatus, invoices>>

DeliverStart(p, o) == SettleStart(p, o, "deliver", {"SHIPPED"}, "deliver.mark")
DeliverMark(p) == SettleMark(p, "deliver.mark", "ORDER", "deliver.stock")

(* An order item and its reservation have the same quantity, both written   *)
(* by createOrder, so the reservation is settled whole.                     *)
DeliverRead(p) ==
  /\ pc[p] = "deliver.stock"
  /\ \E s \in tx[p].todo :
       LET q == moved["ORDER"][call[p].order][s]
       IN IF View(p, s).reserved < q \/ View(p, s).qty < q
          THEN Done(p) /\ UNCHANGED tables
          ELSE SettleRead(p, s, "deliver.write")

DeliverWrite(p) ==
  LET s == seen[p].stock
      row == seen[p].row
      q == moved["ORDER"][call[p].order][s]
  IN /\ pc[p] = "deliver.write"
     /\ ~StockLocked(p, s)
     /\ RowAsSeen(p, View(p, s))
     /\ WriteStock(p, s, [qty |-> row.qty - q, reserved |-> row.reserved - q], q)
     /\ Goto(p, "deliver.stock")
     /\ UNCHANGED <<call, seen, tables>>

DeliverConflict(p) ==
  /\ pc[p] = "deliver.write"
  /\ ~RowAsSeen(p, View(p, seen[p].stock))
  /\ Done(p)
  /\ UNCHANGED tables

(* The paymentStatus the handler looks at is the one read before its        *)
(* transaction.                                                             *)
CollectsCash(p) == IsCOD(call[p].order) /\ seen[p].pay # "PAID"

DeliverCommit(p) ==
  LET o == call[p].order
  IN /\ pc[p] = "deliver.stock" /\ tx[p].todo = {}
     /\ ~CollectsCash(p)
     /\ status' = [status EXCEPT ![o] = "DELIVERED"]
     /\ CommitStock(p, "ORDER_DELIVERY", o)
     /\ Done(p)
     /\ UNCHANGED <<paymentStatus, source, paid, refunded, txns, cartStatus, invoices>>

(* The courier collects the balance: a PAID row for what is not yet paid.   *)
DeliverCollect(p) ==
  LET o == call[p].order
  IN /\ pc[p] = "deliver.stock" /\ tx[p].todo = {}
     /\ CollectsCash(p) /\ PayStatusAsSeen(p)
     /\ status' = [status EXCEPT ![o] = "DELIVERED"]
     /\ paid' = [paid EXCEPT ![o] = paid[o] + Larger(0, TotalOf(o) - paid[o])]
     /\ paymentStatus' = [paymentStatus EXCEPT ![o] = "PAID"]
     /\ CommitStock(p, "ORDER_DELIVERY", o)
     /\ Done(p)
     /\ UNCHANGED <<source, refunded, txns, cartStatus, invoices>>

DeliverPaidMeanwhile(p) ==
  /\ pc[p] = "deliver.stock" /\ tx[p].todo = {}
  /\ CollectsCash(p) /\ ~PayStatusAsSeen(p)
  /\ Done(p)
  /\ UNCHANGED tables

ReturnStart(p, o) == SettleStart(p, o, "return", {"DELIVERED"}, "return.mark")
ReturnMark(p) == SettleMark(p, "return.mark", "ORDER_DELIVERY", "return.stock")
ReturnRead(p) ==
  pc[p] = "return.stock" /\ \E s \in tx[p].todo : SettleRead(p, s, "return.write")

QtyAnything(p, row) == TRUE                                \* faulty variant
QtyAsSeen(p, row) == row.qty = seen[p].row.qty

ReturnWrite(p) ==
  LET s == seen[p].stock
      q == moved["ORDER_DELIVERY"][call[p].order][s]
  IN /\ pc[p] = "return.write"
     /\ ~StockLocked(p, s)
     /\ QtyAsSeen(p, View(p, s))
     /\ WriteStock(p, s, [View(p, s) EXCEPT !.qty = seen[p].row.qty + q], q)
     /\ Goto(p, "return.stock")
     /\ UNCHANGED <<call, seen, tables>>

ReturnConflict(p) ==
  /\ pc[p] = "return.write"
  /\ ~QtyAsSeen(p, View(p, seen[p].stock))
  /\ Done(p)
  /\ UNCHANGED tables

(* Refund what was paid, if the order was PAID when it was read.            *)
Refunds(p) == seen[p].pay = "PAID"

ReturnCommit(p) ==
  LET o == call[p].order
  IN /\ pc[p] = "return.stock" /\ tx[p].todo = {}
     /\ IF Refunds(p) /\ ~PayStatusAsSeen(p)
        THEN UNCHANGED tables
        ELSE /\ status' = [status EXCEPT ![o] = "RETURNED"]
             /\ paymentStatus' = IF Refunds(p)
                                 THEN [paymentStatus EXCEPT ![o] = "REFUNDED"]
                                 ELSE paymentStatus
             /\ refunded' = IF Refunds(p)
                            THEN [refunded EXCEPT ![o] = refunded[o] + paid[o]]
                            ELSE refunded
             /\ CommitStock(p, "ORDER_RETURN", o)
             /\ UNCHANGED <<source, paid, txns, cartStatus, invoices>>
     /\ Done(p)

-----------------------------------------------------------------------------
(* The call dies before its next statement: the process crashes, the        *)
(* connection drops, the database picks it as a deadlock victim, or the     *)
(* invoice cannot be written.  An open transaction is rolled back.          *)
Fail(p) ==
  /\ pc[p] # "idle"
  /\ Done(p)
  /\ UNCHANGED tables

Starting(p) ==
  \/ \E c \in Carts : CreateStart(p, c)
  \/ \E o \in OrderIds, a \in Amounts, t \in TxnIds \cup {NoTxn} : PayStart(p, o, a, t)
  \/ \E o \in OrderIds : ConfirmStart(p, o) \/ ProcessStart(p, o) \/ ShipStart(p, o)
  \/ \E o \in OrderIds : CancelStart(p, o) \/ DeliverStart(p, o) \/ ReturnStart(p, o)

Creating(p) ==
  \/ CreateNumber(p) \/ CreatePick(p) \/ CreateOutOfStock(p)
  \/ CreateReserve(p) \/ CreateReserveConflict(p)
  \/ CreateInsert(p) \/ CreateNumberClash(p)
  \/ CreateClose(p) \/ CreateCartConflict(p) \/ CreateInvoice(p)

Paying(p) ==
  \/ PayRead(p) \/ PayTxn(p) \/ PayInsert(p) \/ PayVerify(p)
  \/ PayUpdate(p) \/ PayConflict(p)

Advancing(p) ==
  ConfirmAdvance(p) \/ ConfirmUpdate(p) \/ ProcessUpdate(p) \/ ShipUpdate(p)

Settling(p) ==
  \/ CancelMark(p) \/ CancelRead(p) \/ CancelWrite(p) \/ CancelCommit(p)
  \/ DeliverMark(p) \/ DeliverRead(p) \/ DeliverWrite(p) \/ DeliverConflict(p)
  \/ DeliverCommit(p) \/ DeliverCollect(p) \/ DeliverPaidMeanwhile(p)
  \/ ReturnMark(p) \/ ReturnRead(p) \/ ReturnWrite(p) \/ ReturnConflict(p)
  \/ ReturnCommit(p)

Statement(p) == Creating(p) \/ Paying(p) \/ Advancing(p) \/ Settling(p)

Next == \E p \in Requests : Starting(p) \/ Statement(p) \/ Fail(p)

Spec == Init /\ [][Next]_vars

(* p's next statement waits for a lock, and q holds it.                     *)
WaitsFor(p, q) ==
  /\ pc[p] # "idle" /\ ~ENABLED Statement(p)
  /\ IF pc[p] \in WriteLabels
     THEN tx[q].stock[seen[p].stock] # Clean
     ELSE call[q].order = call[p].order /\ pc[q] \in HoldsOrder

(* Postgres aborts one of the transactions that wait for each other.        *)
DeadlockVictim(p) ==
  /\ \E W \in SUBSET Requests :
       p \in W /\ \A q \in W : \E r \in W \ {q} : WaitsFor(q, r)
  /\ Fail(p)

(* Statements are executed and deadlocks broken; a lock is handed to those  *)
(* that wait for it in turn, so a request is not overtaken forever.         *)
FairSpec ==
  /\ Spec
  /\ \A p \in Requests : SF_vars(Statement(p))
  /\ WF_vars(\E p \in Requests : DeadlockVictim(p))

-----------------------------------------------------------------------------
(* What the handlers keep true.                                             *)

Units(ref, o, s) == moved[ref][o][s]

(* An order's goods leave its reservation exactly once, and only along its  *)
(* status: released by the one cancelOrder that wins, sold by the one       *)
(* deliverOrder, taken back by the one returnOrder, in the same commit as   *)
(* the status.  Concurrent and repeated calls settle nothing twice.         *)
SettledOnce ==
  \A o \in OrderIds, s \in Stocks :
    /\ Units("ORDER_CANCEL", o, s) =
         IF status[o] = "CANCELLED" THEN Units("ORDER", o, s) ELSE 0
    /\ Units("ORDER_DELIVERY", o, s) =
         IF status[o] \in {"DELIVERED", "RETURNED"} THEN Units("ORDER", o, s) ELSE 0
    /\ Units("ORDER_RETURN", o, s) =
         IF status[o] = "RETURNED" THEN Units("ORDER", o, s) ELSE 0

(* Every order that exists reserved each of its lines in full, and attempts *)
(* that were rolled back left no reservation behind.                        *)
LinesReserved ==
  \A o \in OrderIds : \A v \in {VariantOf[s] : s \in Stocks} :
    SumFunctionOnSet(moved["ORDER"][o], {s \in Stocks : VariantOf[s] = v}) =
      IF Exists(o)
      THEN LET lines == Lines[source[o]]
           IN SumFunctionOnSet([i \in DOMAIN lines |-> lines[i].qty],
                               {i \in DOMAIN lines : lines[i].variant = v})
      ELSE 0

(* Two checkouts of one cart, retries included, never make two orders, and  *)
(* a cart is closed exactly when an order was made from it.                 *)
OneOrderPerCart ==
  /\ \A o1, o2 \in OrderIds :
       Exists(o1) /\ Exists(o2) /\ source[o1] = source[o2] => o1 = o2
  /\ \A c \in Carts :
       cartStatus[c] = "CHECKED_OUT" <=> \E o \in OrderIds : Exists(o) /\ source[o] = c

(* The physical quantity of a stock row is its first quantity less what was *)
(* delivered plus what came back: no delivery or return is lost.            *)
QuantityMatchesMovements ==
  \A s \in Stocks :
    stock[s].qty = InitialQty[s] - SumFunction([o \in OrderIds |->
      Units("ORDER_DELIVERY", o, s) - Units("ORDER_RETURN", o, s)])

(* The reservedQuantity of a stock row is what the open orders hold of it.  *)
(* cancelOrder breaks this (see the README).                                *)
ReservedMatchesOrders ==
  \A s \in Stocks :
    stock[s].reserved = SumFunction([o \in OrderIds |->
      Units("ORDER", o, s) - Units("ORDER_DELIVERY", o, s) - Units("ORDER_CANCEL", o, s)])

(* Checkouts never promise more than the row holds.                         *)
NoOversell == \A s \in Stocks : stock[s].reserved <= stock[s].qty

(* An order marked PAID or REFUNDED has payments for its whole total.       *)
PaidIsBacked ==
  \A o \in OrderIds :
    paymentStatus[o] \in {"PAID", "REFUNDED"} => paid[o] >= TotalOf(o)

(* A refund returns exactly what was paid, and only a refunded order has    *)
(* one.                                                                     *)
RefundIsExact ==
  \A o \in OrderIds :
    refunded[o] = IF paymentStatus[o] = "REFUNDED" THEN paid[o] ELSE 0

(* A cash-on-delivery order goes out only with its shipping charge paid; it *)
(* is paid in full when delivered and refunded in full when returned.       *)
CashOrdersSettled ==
  \A o \in OrderIds : Exists(o) /\ IsCOD(o) =>
    /\ status[o] \notin {"PENDING", "CANCELLED"} => paid[o] >= Shipping[source[o]]
    /\ status[o] = "DELIVERED" => paymentStatus[o] = "PAID"
    /\ status[o] = "RETURNED" => paymentStatus[o] = "REFUNDED"

(* Once an order is PAID no payment is added to it, however many calls had  *)
(* passed their balance check before.                                       *)
PaidIsFinal ==
  [][\A o \in OrderIds : paymentStatus[o] # "PENDING" => paid'[o] = paid[o]]_vars

(* The comment of createPayment (order.service.ts:526-530): no overpayment  *)
(* persists.                                                                *)
NoOverpayment == \A o \in OrderIds : Exists(o) => paid[o] <= TotalOf(o)

(* createPayment's refusal (order.service.ts:566-570): no payment is        *)
(* recorded for a cancelled order.                                          *)
NoPaymentOnCancelled ==
  [][\A o \in OrderIds : status[o] = "CANCELLED" => paid'[o] = paid[o]]_vars

(* The same transaction id is recorded once (order.service.ts:572).         *)
TransactionRecordedOnce == \A t \in TxnIds : txns[t] <= 1

(* Whatever the interleaving, the handlers act on an order as one atomic    *)
(* step each: every step is a step of OrderLifecycle or leaves it alone.    *)
Lifecycle ==
  INSTANCE OrderLifecycle
    WITH status <- status, paymentStatus <- paymentStatus, source <- source,
         paid <- paid, refunded <- refunded
ImplementsLifecycle == Lifecycle!Spec

(* Every call returns: conflicts are retried a limited number of times and  *)
(* requests that lock rows crosswise do not wait for each other forever.    *)
EveryCallReturns == \A p \in Requests : pc[p] # "idle" ~> pc[p] = "idle"
=============================================================================
