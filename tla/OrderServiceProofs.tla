------------------------- MODULE OrderServiceProofs -------------------------
(***************************************************************************)
(* Theorems about OrderService, for every number of requests, orders,      *)
(* carts and stock rows.  Invariant is inductive; it says what a request   *)
(* still knows of the database at each statement, and that the lock of an  *)
(* Order row has one holder.                                               *)
(***************************************************************************)
EXTENDS OrderService, TLAPS

Numbered == {"create.pick", "create.reserve", "create.insert", "create.close"}
OnOrder == PayLabels \cup AdvanceLabels \cup CancelLabels \cup DeliverLabels
             \cup ReturnLabels \cup {"create.invoice"}

Cancellable == {"PENDING", "CONFIRMED", "PROCESSING"}

(* What the rows and the ledger of an order keep.                          *)
LedgerInv(o) ==
  /\ ~Exists(o) => /\ source[o] = NoCart /\ paid[o] = 0 /\ refunded[o] = 0
                   /\ paymentStatus[o] = "PENDING"
  /\ Exists(o) => source[o] \in Carts /\ cartStatus[source[o]] = "CHECKED_OUT"
  /\ Exists(o) => \A m \in OrderIds : /\ m < o => Exists(m)
                                      /\ source[m] = source[o] => m = o
  /\ paymentStatus[o] # "PENDING" => paid[o] >= TotalOf(o)
  /\ paymentStatus[o] = "REFUNDED" => status[o] = "RETURNED" /\ refunded[o] = paid[o]
  /\ paymentStatus[o] # "REFUNDED" => refunded[o] = 0
  /\ Exists(o) /\ IsCOD(o) =>
       /\ status[o] \notin {"PENDING", "CANCELLED"} => paid[o] >= Shipping[source[o]]
       /\ status[o] = "DELIVERED" => paymentStatus[o] = "PAID"
       /\ status[o] = "RETURNED" => paymentStatus[o] = "REFUNDED"

CreateInv(p) ==
  LET o == call[p].order
  IN /\ pc[p] \in Numbered \cup {"create.number"} => call[p].cart \in Carts
     /\ pc[p] \in {"idle", "create.number"} => tx[p].line = 1
     /\ pc[p] \in {"create.pick", "create.reserve"} =>
          tx[p].line \in 1 .. Len(Lines[call[p].cart])
     /\ pc[p] \in Numbered =>
          o \in OrderIds /\ \A m \in OrderIds : m < o => Exists(m)
     /\ pc[p] = "create.close" => ~Exists(o)

PayInv(p) ==
  LET o == call[p].order
  IN /\ pc[p] \in PayLabels => call[p].amount \in Amounts
     /\ pc[p] \in {"pay.txn", "pay.insert"} =>
          (seen[p].pay # "PENDING" => paid[o] >= TotalOf(o))
     /\ pc[p] \in {"pay.verify", "pay.update"} => seen[p].pay = "PENDING"
     /\ pc[p] = "pay.update" => seen[p].paid <= paid[o] + call[p].amount
     /\ pc[p] = "confirm.update" => (IsCOD(o) => paid[o] >= Shipping[source[o]])

SettleInv(p) ==
  LET o == call[p].order
  IN /\ pc[p] = "cancel.mark" => seen[p].status \in Cancellable
     /\ pc[p] \in {"cancel.stock", "cancel.write"} => status[o] \in Cancellable
     /\ pc[p] = "deliver.mark" => seen[p].status = "SHIPPED"
     /\ pc[p] \in DeliverLabels => (seen[p].pay = "PAID" => paymentStatus[o] # "PENDING")
     /\ pc[p] \in {"deliver.stock", "deliver.write"} => status[o] = "SHIPPED"
     /\ pc[p] = "deliver.write" =>
          /\ moved["ORDER"][o][seen[p].stock] <= seen[p].row.qty
          /\ moved["ORDER"][o][seen[p].stock] <= seen[p].row.reserved
     /\ pc[p] = "return.mark" => seen[p].status = "DELIVERED"
     /\ pc[p] \in ReturnLabels => (IsCOD(o) => seen[p].pay = "PAID")
     /\ pc[p] \in {"return.stock", "return.write"} => status[o] = "DELIVERED"

RequestInv(p) ==
  /\ pc[p] \in OnOrder => call[p].order \in OrderIds /\ Exists(call[p].order)
  /\ pc[p] \in WriteLabels => seen[p].stock \in Stocks
  /\ CreateInv(p) /\ PayInv(p) /\ SettleInv(p)

(* At most one request has an uncommitted version of an Order row.         *)
OneHolder ==
  \A p, q \in Requests :
    pc[p] \in HoldsOrder /\ pc[q] \in HoldsOrder /\ call[p].order = call[q].order
      => p = q

ClosedCarts ==
  \A c \in Carts : cartStatus[c] = "CHECKED_OUT" =>
    \E o \in OrderIds : Exists(o) /\ source[o] = c

Invariant ==
  /\ TypeOK
  /\ \A o \in OrderIds : LedgerInv(o)
  /\ \A p \in Requests : RequestInv(p)
  /\ OneHolder
  /\ ClosedCarts

-----------------------------------------------------------------------------
(* What a step of request p leaves to the others.                          *)

OthersKeep(p) ==
  \A q \in Requests \ {p} :
    pc'[q] = pc[q] /\ call'[q] = call[q] /\ seen'[q] = seen[q] /\ tx'[q] = tx[q]

OrdersKeep ==
  \A o \in OrderIds : Exists(o) =>
    /\ status'[o] # "NONE" /\ source'[o] = source[o] /\ paid[o] <= paid'[o]
    /\ paymentStatus[o] # "PENDING" => paymentStatus'[o] # "PENDING"
    /\ moved'["ORDER"][o] = moved["ORDER"][o]

LocksKeep(p) ==
  \A q \in Requests \ {p} :
    pc[q] \in HoldsOrder => status'[call[q].order] = status[call[q].order]

(* p takes no Order lock in this step, keeps the one it has, or takes a    *)
(* free one.                                                               *)
LockTaken(p) ==
  \/ pc'[p] \notin HoldsOrder
  \/ pc[p] \in HoldsOrder /\ call'[p].order = call[p].order
  \/ ~OrderLocked(p, call'[p].order)

LocalTypes ==
  /\ pc \in [Requests -> Labels] /\ call \in [Requests -> CallType]
  /\ seen \in [Requests -> SeenType] /\ tx \in [Requests -> TxType]

TableTypes ==
  /\ status \in [OrderIds -> Status \cup {"NONE"}]
  /\ paymentStatus \in [OrderIds -> PaymentStatus]
  /\ source \in [OrderIds -> Carts \cup {NoCart}]
  /\ paid \in [OrderIds -> Nat] /\ refunded \in [OrderIds -> Nat]
  /\ txns \in [TxnIds -> Nat] /\ stock \in [Stocks -> StockRow]
  /\ moved \in [Reference -> [OrderIds -> [Stocks -> Nat]]]
  /\ cartStatus \in [Carts -> {"ACTIVE", "CHECKED_OUT"}]
  /\ invoices \in SUBSET OrderIds

(* The constants are what the proofs below take them to be.                *)
LEMMA ConstantTypes ==
  /\ \A c \in Carts : Total[c] \in Nat /\ Shipping[c] \in Nat
  /\ \A c \in Carts : \A i \in 1 .. Len(Lines[c]) : Lines[c][i].qty \in Nat
  /\ \A c \in Carts : Len(Lines[c]) \in Nat /\ 1 <= Len(Lines[c])
  /\ \A a \in Amounts : a \in Nat /\ a > 0
<1>1. \A c \in Carts : Lines[c] \in Seq(Line) /\ Lines[c] # << >>
  BY CartAssumption
<1>2. \A l \in Line : l.qty \in Nat
  BY DEF Line
<1>3. \A c \in Carts : \A i \in 1 .. Len(Lines[c]) : Lines[c][i].qty \in Nat
  <2> TAKE c \in Carts
  <2> TAKE i \in 1 .. Len(Lines[c])
  <2>1. Lines[c][i] \in Line
    BY <1>1
  <2>2. QED
    BY <2>1, <1>2
<1>4. \A c \in Carts : Len(Lines[c]) \in Nat /\ 1 <= Len(Lines[c])
  BY <1>1
<1>5. QED
  BY <1>3, <1>4, CartAssumption, PaymentAssumption

(* Every statement is a label.                                             *)
LEMMA LabelTyped ==
  /\ "idle" \in Labels /\ CreateLabels \subseteq Labels /\ PayLabels \subseteq Labels
  /\ AdvanceLabels \subseteq Labels /\ CancelLabels \subseteq Labels
  /\ DeliverLabels \subseteq Labels /\ ReturnLabels \subseteq Labels
BY DEF Labels

(* What a request holds when it serves no call is typed.                   *)
LEMMA NothingTyped ==
  NoCall \in CallType /\ NothingSeen \in SeenType /\ NoTx \in TxType
<1>1. NoCall \in CallType
  BY DEF NoCall, CallType
<1>2. NothingSeen \in SeenType
  BY DEF NothingSeen, SeenType, StockRow, PaymentStatus
<1>3. [s \in Stocks |-> Clean] \in [Stocks -> StockRow \cup {Clean}]
  OBVIOUS
<1>4. NoTx \in TxType
  BY <1>3 DEF NoTx, TxType
<1>5. QED
  BY <1>1, <1>2, <1>4

(* What another request knows stays true, if p respects its locks.         *)
LEMMA OthersInvariant ==
  ASSUME Invariant, NEW p \in Requests, OthersKeep(p), OrdersKeep, LocksKeep(p),
         paid' \in [OrderIds -> Nat]
  PROVE  \A q \in Requests \ {p} : RequestInv(q)'
<1> SUFFICES ASSUME NEW q \in Requests \ {p}
             PROVE  RequestInv(q)'
  OBVIOUS
<1>1. /\ pc'[q] = pc[q] /\ call'[q] = call[q] /\ seen'[q] = seen[q] /\ tx'[q] = tx[q]
  BY DEF OthersKeep
<1>2. RequestInv(q) /\ TypeOK /\ \A o \in OrderIds : LedgerInv(o)
  BY DEF Invariant
<1>3. CreateInv(q)'
  BY <1>1, <1>2 DEF RequestInv, CreateInv, OrdersKeep, LocksKeep, Exists, HoldsOrder, Numbered
<1>4. PayInv(q)'
  <2>1. pc[q] \in OnOrder =>
          LET o == call[q].order
          IN /\ o \in OrderIds /\ source'[o] = source[o] /\ paid[o] <= paid'[o]
             /\ paid[o] \in Nat /\ paid'[o] \in Nat /\ source[o] \in Carts
    BY <1>2 DEF RequestInv, OrdersKeep, LedgerInv, TypeOK
  <2>2. seen[q].paid \in Nat /\ call[q].amount \in Nat
    BY <1>2 DEF TypeOK, SeenType, CallType
  <2>3. QED
    BY <1>1, <1>2, <2>1, <2>2, ConstantTypes
    DEF RequestInv, PayInv, OnOrder, PayLabels, AdvanceLabels, IsCOD, TotalOf
<1>5. SettleInv(q)'
  BY <1>1, <1>2 DEF RequestInv, SettleInv, OrdersKeep, LocksKeep, HoldsOrder, OnOrder,
     CancelLabels, DeliverLabels, ReturnLabels, IsCOD
<1>6. QED
  BY <1>1, <1>2, <1>3, <1>4, <1>5 DEF RequestInv, OrdersKeep, Exists

(* The lock of an Order row keeps a single holder.                         *)
LEMMA OneHolderStep ==
  ASSUME Invariant, NEW p \in Requests, OthersKeep(p), LockTaken(p)
  PROVE  OneHolder'
<1> SUFFICES ASSUME NEW q \in Requests, NEW r \in Requests, q # r,
                    pc'[q] \in HoldsOrder, pc'[r] \in HoldsOrder,
                    call'[q].order = call'[r].order
             PROVE  FALSE
  BY DEF OneHolder, HoldsOrder
<1>1. CASE q # p /\ r # p
  BY <1>1 DEF OthersKeep, Invariant, OneHolder
<1>2. CASE q = p
  BY <1>2 DEF OthersKeep, Invariant, OneHolder, LockTaken, OrderLocked
<1>3. CASE r = p
  BY <1>3 DEF OthersKeep, Invariant, OneHolder, LockTaken, OrderLocked
<1>4. QED
  BY <1>1, <1>2, <1>3

(* A statement that commits nothing.                                       *)
LEMMA LocalStep ==
  ASSUME Invariant, NEW p \in Requests, UNCHANGED tables, OthersKeep(p), LocalTypes',
         LockTaken(p), RequestInv(p)'
  PROVE  Invariant'
<1>1. TypeOK'
  BY DEF Invariant, TypeOK, LocalTypes, tables
<1>2. \A o \in OrderIds : LedgerInv(o)'
  BY DEF Invariant, LedgerInv, tables, Exists, TotalOf, IsCOD
<1>3. OrdersKeep /\ LocksKeep(p) /\ paid' \in [OrderIds -> Nat]
  BY DEF Invariant, TypeOK, OrdersKeep, LocksKeep, tables, Exists
<1>4. \A q \in Requests : RequestInv(q)'
  BY <1>3, OthersInvariant
<1>5. OneHolder' /\ ClosedCarts'
  BY OneHolderStep DEF Invariant, ClosedCarts, tables, Exists
<1>6. QED
  BY <1>1, <1>2, <1>4, <1>5 DEF Invariant

(* A statement that commits.                                               *)
LEMMA CommitStep ==
  ASSUME Invariant, NEW p \in Requests, OthersKeep(p), LocalTypes', LockTaken(p),
         RequestInv(p)', TableTypes', OrdersKeep, LocksKeep(p),
         \A o \in OrderIds : LedgerInv(o)', ClosedCarts'
  PROVE  Invariant'
<1>1. TypeOK'
  BY DEF TypeOK, LocalTypes, TableTypes
<1>2. \A q \in Requests : RequestInv(q)'
  BY OthersInvariant DEF TableTypes
<1>3. OneHolder'
  BY OneHolderStep
<1>4. QED
  BY <1>1, <1>2, <1>3 DEF Invariant

(* What Done and Retry leave behind.                                       *)
LEMMA DoneLocal ==
  ASSUME Invariant, NEW p \in Requests, Done(p)
  PROVE  OthersKeep(p) /\ LocalTypes' /\ LockTaken(p) /\ pc'[p] = "idle" /\ RequestInv(p)'
<1>1. OthersKeep(p) /\ pc'[p] = "idle" /\ LockTaken(p) /\ tx'[p].line = 1
  BY DEF Invariant, TypeOK, Done, Goto, OthersKeep, LockTaken, HoldsOrder, NoTx
<1>2. LocalTypes'
  BY NothingTyped, LabelTyped DEF Invariant, TypeOK, Done, Goto, LocalTypes
<1>3. RequestInv(p)'
  BY <1>1 DEF RequestInv, CreateInv, PayInv, SettleInv, OnOrder, PayLabels, AdvanceLabels,
     CancelLabels, DeliverLabels, ReturnLabels, WriteLabels, Numbered
<1>4. QED
  BY <1>1, <1>2, <1>3

(* A call that ends and rolls back.                                        *)
LEMMA DoneStep ==
  ASSUME Invariant, NEW p \in Requests, Done(p), UNCHANGED tables
  PROVE  Invariant'
BY DoneLocal, LocalStep

(* createOrder starts its transaction again, or gives up.                  *)
LEMMA CreateRetryStep ==
  ASSUME Invariant, NEW p \in Requests, pc[p] \in Numbered, CreateRetry(p), UNCHANGED tables
  PROVE  Invariant'
<1>1. CASE Done(p)
  BY <1>1, DoneStep
<1>2. CASE ~Done(p)
  <2> DEFINE new == [order |-> 0, cart |-> call[p].cart, amount |-> 0, txn |-> NoTxn,
                     try |-> call[p].try + 1]
  <2>1. call[p].cart \in Carts /\ call[p].try \in Nat
    BY DEF Invariant, RequestInv, CreateInv, TypeOK, CallType
  <2>2. new \in CallType /\ new.cart = call[p].cart
    BY <2>1 DEF CallType
  <2>3. /\ pc' = [pc EXCEPT ![p] = "create.number"] /\ call' = [call EXCEPT ![p] = new]
        /\ seen' = [seen EXCEPT ![p] = NothingSeen] /\ tx' = [tx EXCEPT ![p] = NoTx]
    BY <1>2 DEF CreateRetry, Retry, Goto, NoCall
  <2> HIDE DEF new
  <2>4. OthersKeep(p) /\ LocalTypes'
    BY <2>2, <2>3, NothingTyped DEF Invariant, TypeOK, OthersKeep, LocalTypes, Labels,
       CreateLabels, PayLabels
  <2>5. pc'[p] = "create.number" /\ call'[p].cart \in Carts /\ tx'[p].line = 1
    BY <2>1, <2>2, <2>3 DEF Invariant, TypeOK, NoTx
  <2>6. RequestInv(p)' /\ LockTaken(p)
    BY <2>5 DEF RequestInv, CreateInv, PayInv, SettleInv, OnOrder, PayLabels,
       AdvanceLabels, CancelLabels, DeliverLabels, ReturnLabels, WriteLabels, Numbered,
       LockTaken, HoldsOrder
  <2>7. QED
    BY <2>4, <2>6, LocalStep
<1>3. QED
  BY <1>1, <1>2

(* createPayment starts its transaction again, or gives up.                *)
LEMMA PayRetryStep ==
  ASSUME Invariant, NEW p \in Requests, pc[p] \in PayLabels, PayRetry(p), UNCHANGED tables
  PROVE  Invariant'
<1>1. CASE Done(p)
  BY <1>1, DoneStep
<1>2. CASE ~Done(p)
  <2> DEFINE new == [call[p] EXCEPT !.try = call[p].try + 1]
  <2>1. /\ call[p] \in CallType /\ call[p].order \in OrderIds /\ Exists(call[p].order)
        /\ call[p].amount \in Amounts
    BY DEF Invariant, RequestInv, PayInv, TypeOK, OnOrder
  <2>2. new \in CallType /\ new.order = call[p].order /\ new.amount = call[p].amount
    BY <2>1 DEF CallType
  <2>3. /\ pc' = [pc EXCEPT ![p] = "pay.read"] /\ call' = [call EXCEPT ![p] = new]
        /\ seen' = [seen EXCEPT ![p] = NothingSeen] /\ tx' = [tx EXCEPT ![p] = NoTx]
    BY <1>2 DEF PayRetry, Retry, Goto
  <2> HIDE DEF new
  <2>4. OthersKeep(p) /\ LocalTypes'
    BY <2>2, <2>3, NothingTyped DEF Invariant, TypeOK, OthersKeep, LocalTypes, Labels,
       CreateLabels, PayLabels
  <2>5. pc'[p] = "pay.read" /\ call'[p] = new
    BY <2>3 DEF Invariant, TypeOK
  <2>6. RequestInv(p)' /\ LockTaken(p)
    BY <2>1, <2>2, <2>5 DEF RequestInv, CreateInv, PayInv, SettleInv, OnOrder, PayLabels,
       AdvanceLabels, CancelLabels, DeliverLabels, ReturnLabels, WriteLabels, Numbered,
       LockTaken, HoldsOrder, Exists, tables
  <2>7. QED
    BY <2>4, <2>6, LocalStep
<1>3. QED
  BY <1>1, <1>2

-----------------------------------------------------------------------------
(* The statements that commit nothing, one lemma for each operation.       *)

USE DEF Numbered, WriteLabels, OnOrder, HoldsOrder, CreateLabels, PayLabels,
        AdvanceLabels, CancelLabels, DeliverLabels, ReturnLabels, Labels

(* The read before the transaction, and what the call is asked.            *)
LEMMA StartStep ==
  ASSUME Invariant, NEW p \in Requests, Starting(p)
  PROVE  Invariant'
<1>1. ASSUME NEW c \in Carts, CreateStart(p, c)
      PROVE  Invariant'
  <2> DEFINE new == [NoCall EXCEPT !.cart = c, !.try = 1]
  <2>1. new \in CallType /\ new.cart = c /\ call' = [call EXCEPT ![p] = new]
    BY <1>1, NothingTyped DEF CreateStart, CallType
  <2> HIDE DEF new
  <2>2. OthersKeep(p) /\ LocalTypes' /\ UNCHANGED tables
    BY <1>1, <2>1 DEF CreateStart, Goto, Invariant, TypeOK, OthersKeep, LocalTypes
  <2>3. pc'[p] = "create.number" /\ call'[p].cart = c /\ tx'[p].line = 1
    BY <1>1, <2>1 DEF CreateStart, Goto, Invariant, TypeOK, RequestInv, CreateInv
  <2>4. RequestInv(p)' /\ LockTaken(p)
    BY <2>3 DEF RequestInv, CreateInv, PayInv, SettleInv, LockTaken
  <2>5. QED
    BY <2>2, <2>4, LocalStep
<1>2. ASSUME NEW o \in OrderIds, NEW a \in Amounts, NEW t \in TxnIds \cup {NoTxn},
             PayStart(p, o, a, t)
      PROVE  Invariant'
  <2> DEFINE new == [NoCall EXCEPT !.order = o, !.amount = a, !.txn = t, !.try = 1]
  <2>1. /\ new \in CallType /\ new.order = o /\ new.amount = a
        /\ call' = [call EXCEPT ![p] = new]
    BY <1>2, NothingTyped, ConstantTypes DEF PayStart, CallType
  <2> HIDE DEF new
  <2>2. OthersKeep(p) /\ LocalTypes' /\ UNCHANGED tables
    BY <1>2, <2>1 DEF PayStart, Goto, Invariant, TypeOK, OthersKeep, LocalTypes
  <2>3. pc'[p] = "pay.read" /\ call'[p].order = o /\ call'[p].amount = a /\ Exists(o)'
    BY <1>2, <2>1, <2>2 DEF PayStart, Begin, Goto, Invariant, TypeOK, Exists, tables
  <2>4. RequestInv(p)' /\ LockTaken(p)
    BY <2>3 DEF RequestInv, CreateInv, PayInv, SettleInv, LockTaken
  <2>5. QED
    BY <2>2, <2>4, LocalStep
<1>3. ASSUME NEW o \in OrderIds, ConfirmStart(p, o) \/ ProcessStart(p, o) \/ ShipStart(p, o)
      PROVE  Invariant'
  <2> DEFINE new == [order |-> o, cart |-> NoCart, amount |-> 0, txn |-> NoTxn, try |-> 0]
  <2>1. new \in CallType /\ call' = [call EXCEPT ![p] = new]
    BY <1>3 DEF ConfirmStart, ProcessStart, ShipStart, AdvanceStart, NoCall, CallType
  <2>2. OthersKeep(p) /\ LocalTypes' /\ UNCHANGED tables
    BY <1>3, <2>1 DEF ConfirmStart, ProcessStart, ShipStart, AdvanceStart, Goto,
       Invariant, TypeOK, OthersKeep, LocalTypes
  <2>3. /\ pc'[p] \in AdvanceLabels /\ call'[p].order = o /\ Exists(o)'
        /\ pc'[p] = "confirm.update" => ~IsCOD(o)'
    BY <1>3, <2>1, <2>2 DEF ConfirmStart, ProcessStart, ShipStart, AdvanceStart, Begin,
       Goto, Invariant, TypeOK, Exists, IsCOD, tables
  <2>4. RequestInv(p)' /\ LockTaken(p)
    BY <2>3 DEF RequestInv, CreateInv, PayInv, SettleInv, LockTaken
  <2>5. QED
    BY <2>2, <2>4, LocalStep
<1>4. ASSUME NEW o \in OrderIds, CancelStart(p, o) \/ DeliverStart(p, o) \/ ReturnStart(p, o)
      PROVE  Invariant'
  <2> DEFINE new == [order |-> o, cart |-> NoCart, amount |-> 0, txn |-> NoTxn, try |-> 0]
             read == [seen[p] EXCEPT !.status = status[o], !.pay = paymentStatus[o]]
  <2>1. new \in CallType /\ call' = [call EXCEPT ![p] = new]
    BY <1>4 DEF CancelStart, DeliverStart, ReturnStart, SettleStart, NoCall, CallType
  <2>2. /\ read \in SeenType /\ seen' = [seen EXCEPT ![p] = read]
        /\ read.status = status[o] /\ read.pay = paymentStatus[o]
    <3>1. seen[p] \in SeenType /\ status[o] \in Status \cup {"NONE"}
          /\ paymentStatus[o] \in PaymentStatus
      BY DEF Invariant, TypeOK
    <3>2. read \in SeenType /\ read.status = status[o] /\ read.pay = paymentStatus[o]
      BY <3>1 DEF SeenType
    <3>3. seen' = [seen EXCEPT ![p] = read]
      BY <1>4 DEF CancelStart, DeliverStart, ReturnStart, SettleStart
    <3>4. QED
      BY <3>2, <3>3
  <2> HIDE DEF new, read
  <2>3. OthersKeep(p) /\ LocalTypes' /\ UNCHANGED tables
    BY <1>4, <2>1, <2>2 DEF CancelStart, DeliverStart, ReturnStart, SettleStart, Goto,
       Invariant, TypeOK, OthersKeep, LocalTypes
  <2>4. /\ call'[p] = new /\ seen'[p] = read /\ Exists(o)'
        /\ \/ pc'[p] = "cancel.mark" /\ status[o] \in Cancellable
           \/ pc'[p] = "deliver.mark" /\ status[o] = "SHIPPED"
           \/ pc'[p] = "return.mark" /\ status[o] = "DELIVERED"
    BY <1>4, <2>1, <2>2, <2>3 DEF CancelStart, DeliverStart, ReturnStart, SettleStart,
       Begin, Goto, Invariant, TypeOK, Exists, Cancellable, tables
  <2>5. LedgerInv(o) /\ new.order = o
    BY DEF Invariant, new
  <2>6. RequestInv(p)' /\ LockTaken(p)
    BY <2>2, <2>3, <2>4, <2>5 DEF RequestInv, CreateInv, PayInv, SettleInv, LockTaken,
       LedgerInv, Exists, IsCOD, tables
  <2>7. QED
    BY <2>3, <2>6, LocalStep
<1>5. QED
  BY <1>1, <1>2, <1>3, <1>4 DEF Starting

(* The row p sees is typed, whether committed or its own.                  *)
LEMMA ViewTyped ==
  ASSUME Invariant, NEW p \in Requests, NEW s \in Stocks
  PROVE  View(p, s) \in StockRow
<1>1. tx[p] \in TxType /\ stock[s] \in StockRow
  BY DEF Invariant, TypeOK
<1>2. tx[p].stock[s] \in StockRow \cup {Clean}
  BY <1>1 DEF TxType
<1>3. QED
  BY <1>1, <1>2 DEF View

(* createOrder's statements before its commit.                             *)
LEMMA CreateStep ==
  ASSUME Invariant, NEW p \in Requests,
         \/ CreateNumber(p) \/ CreatePick(p) \/ CreateOutOfStock(p)
         \/ CreateReserve(p) \/ CreateReserveConflict(p)
         \/ CreateInsert(p) \/ CreateNumberClash(p) \/ CreateCartConflict(p)
  PROVE  Invariant'
<1>0. /\ call[p] \in CallType /\ seen[p] \in SeenType /\ tx[p] \in TxType
      /\ RequestInv(p) /\ TypeOK
  BY DEF Invariant, TypeOK
<1>1. CASE CreateNumber(p)
  <2>1. PICK n \in OrderIds : NextNumber(n) /\ call' = [call EXCEPT ![p].order = n]
    BY <1>1 DEF CreateNumber
  <2> DEFINE new == [call[p] EXCEPT !.order = n]
  <2>2. /\ new \in CallType /\ new.order = n /\ new.cart = call[p].cart
        /\ call' = [call EXCEPT ![p] = new]
    BY <1>0, <2>1 DEF CallType
  <2> HIDE DEF new
  <2>3. OthersKeep(p) /\ LocalTypes' /\ UNCHANGED tables
    BY <1>1, <2>2 DEF CreateNumber, Goto, Invariant, TypeOK, OthersKeep, LocalTypes
  <2>4. pc'[p] = "create.pick" /\ call'[p] = new /\ tx'[p].line = 1 /\ new.cart \in Carts
    BY <1>0, <1>1, <2>2 DEF CreateNumber, Goto, TypeOK, RequestInv, CreateInv
  <2>5. \A m \in OrderIds : m < n => Exists(m)'
    BY <2>1, <2>3 DEF NextNumber, Exists, tables
  <2>6. RequestInv(p)' /\ LockTaken(p)
    BY <2>2, <2>4, <2>5, ConstantTypes DEF RequestInv, CreateInv, PayInv, SettleInv, LockTaken
  <2>7. QED
    BY <2>3, <2>6, LocalStep
<1>2. CASE CreatePick(p)
  <2>1. PICK s \in Stocks : seen' = [seen EXCEPT ![p].stock = s, ![p].row = View(p, s)]
    BY <1>2 DEF CreatePick, Fitting
  <2> DEFINE read == [seen[p] EXCEPT !.stock = s, !.row = View(p, s)]
  <2>2. read \in SeenType /\ read.stock = s /\ seen' = [seen EXCEPT ![p] = read]
    BY <1>0, <2>1, ViewTyped DEF SeenType
  <2> HIDE DEF read
  <2>3. OthersKeep(p) /\ LocalTypes' /\ UNCHANGED tables
    BY <1>2, <2>2 DEF CreatePick, Goto, Invariant, TypeOK, OthersKeep, LocalTypes
  <2>4. /\ pc'[p] = "create.reserve" /\ seen'[p] = read
        /\ call'[p] = call[p] /\ tx'[p] = tx[p]
    BY <1>2, <2>2 DEF CreatePick, Goto, Invariant, TypeOK
  <2>5. RequestInv(p)' /\ LockTaken(p)
    BY <1>0, <1>2, <2>2, <2>3, <2>4 DEF CreatePick, RequestInv, CreateInv, PayInv, SettleInv,
       LockTaken, Exists, tables
  <2>6. QED
    BY <2>3, <2>5, LocalStep
<1>3. CASE CreateReserve(p)
  <2> DEFINE s == seen[p].stock
             qty == CurrentLine(p).qty
             more == tx[p].line < Len(Lines[call[p].cart])
             new == [tx[p] EXCEPT
               !.stock = [tx[p].stock EXCEPT ![s] =
                            [View(p, s) EXCEPT !.reserved = seen[p].row.reserved + qty]],
               !.moves = [tx[p].moves EXCEPT ![s] = tx[p].moves[s] + qty],
               !.line = IF more THEN tx[p].line + 1 ELSE tx[p].line]
  <2>1. /\ s \in Stocks /\ call[p].cart \in Carts /\ View(p, s) \in StockRow
        /\ tx[p].line \in 1 .. Len(Lines[call[p].cart])
    BY <1>0, <1>3, ViewTyped DEF CreateReserve, RequestInv, CreateInv
  <2>2. qty \in Nat /\ seen[p].row.reserved \in Nat
    BY <1>0, <2>1, ConstantTypes DEF CurrentLine, SeenType, StockRow
  <2>3. [View(p, s) EXCEPT !.reserved = seen[p].row.reserved + qty] \in StockRow
    BY <2>1, <2>2 DEF StockRow
  <2>4. tx' = [tx EXCEPT ![p] = new]
    BY <1>3 DEF CreateReserve
  <2>5. new \in TxType /\ new.line = IF more THEN tx[p].line + 1 ELSE tx[p].line
    <3> HIDE DEF s, qty, more
    <3>1. /\ tx[p].line \in Nat \ {0} /\ tx[p].moves \in [Stocks -> Nat]
          /\ tx[p].stock \in [Stocks -> StockRow \cup {Clean}] /\ tx[p].todo \in SUBSET Stocks
      BY <1>0 DEF TxType
    <3> DEFINE row == [View(p, s) EXCEPT !.reserved = seen[p].row.reserved + qty]
               st == [tx[p].stock EXCEPT ![s] = row]
               mv == [tx[p].moves EXCEPT ![s] = tx[p].moves[s] + qty]
               ln == IF more THEN tx[p].line + 1 ELSE tx[p].line
    <3>2. row \in StockRow
      BY <2>3
    <3> HIDE DEF row
    <3>3. st \in [Stocks -> StockRow \cup {Clean}]
      BY <3>1, <3>2
    <3>4. mv \in [Stocks -> Nat]
      BY <2>1, <2>2, <3>1
    <3>5. ln \in Nat \ {0}
      BY <3>1
    <3>6. new = [tx[p] EXCEPT !.stock = st, !.moves = mv, !.line = ln]
      BY DEF row
    <3> HIDE DEF st, mv, ln, new
    <3>7. new \in TxType /\ new.line = ln
      BY <1>0, <3>3, <3>4, <3>5, <3>6 DEF TxType
    <3>8. QED
      BY <3>7 DEF ln
  <2> HIDE DEF new, qty
  <2>6. OthersKeep(p) /\ LocalTypes' /\ UNCHANGED tables
    <3>1. /\ UNCHANGED <<call, seen, tables>>
          /\ pc' = [pc EXCEPT ![p] = IF more THEN "create.pick" ELSE "create.insert"]
      BY <1>3 DEF CreateReserve, Goto
    <3> HIDE DEF more
    <3>2. QED
      BY <2>4, <2>5, <3>1 DEF Invariant, TypeOK, OthersKeep, LocalTypes
  <2>7. /\ pc'[p] = IF more THEN "create.pick" ELSE "create.insert"
        /\ call'[p] = call[p] /\ tx'[p] = new
    BY <1>3, <2>4 DEF CreateReserve, Goto, Invariant, TypeOK
  <2>8. pc'[p] = "create.pick" => new.line \in 1 .. Len(Lines[call[p].cart])
    BY <2>1, <2>5, <2>7, ConstantTypes
  <2>9. RequestInv(p)' /\ LockTaken(p)
    BY <1>0, <1>3, <2>6, <2>7, <2>8 DEF CreateReserve, RequestInv, CreateInv, PayInv,
       SettleInv, LockTaken, Exists, tables
  <2>10. QED
    BY <2>6, <2>9, LocalStep
<1>4. CASE CreateInsert(p)
  <2>1. OthersKeep(p) /\ LocalTypes' /\ UNCHANGED tables
    BY <1>4 DEF CreateInsert, Goto, Invariant, TypeOK, OthersKeep, LocalTypes
  <2>2. pc'[p] = "create.close" /\ call'[p] = call[p] /\ tx'[p] = tx[p]
    BY <1>4 DEF CreateInsert, Goto, Invariant, TypeOK
  <2>3. RequestInv(p)' /\ LockTaken(p)
    BY <1>0, <1>4, <2>1, <2>2 DEF CreateInsert, RequestInv, CreateInv, PayInv, SettleInv,
       LockTaken, Exists, tables
  <2>4. QED
    BY <2>1, <2>3, LocalStep
<1>5. CASE CreateOutOfStock(p)
  BY <1>5, DoneStep DEF CreateOutOfStock
<1>6. CASE CreateReserveConflict(p) \/ CreateNumberClash(p) \/ CreateCartConflict(p)
  BY <1>6, CreateRetryStep DEF CreateReserveConflict, CreateNumberClash, CreateCartConflict
<1>7. QED
  BY <1>1, <1>2, <1>3, <1>4, <1>5, <1>6

(* createPayment; its UPDATE commits.                                      *)
LEMMA PayStep ==
  ASSUME Invariant, NEW p \in Requests, Paying(p)
  PROVE  Invariant'
<1>0. PICK o \in OrderIds, amount \in Amounts :
        /\ o = call[p].order /\ amount = call[p].amount
        /\ call[p] \in CallType /\ seen[p] \in SeenType /\ tx[p] \in TxType
        /\ RequestInv(p) /\ TypeOK /\ Exists(o) /\ LedgerInv(o)
        /\ source[o] \in Carts /\ TotalOf(o) \in Nat /\ paid[o] \in Nat
        /\ pc[p] \in PayLabels /\ amount \in Nat /\ amount > 0
  <2> DEFINE o == call[p].order
             amount == call[p].amount
  <2>1. pc[p] \in PayLabels /\ RequestInv(p) /\ TypeOK
    BY DEF Paying, PayRead, PayTxn, PayInsert, PayVerify, PayUpdate, PayConflict, Invariant
  <2>2. o \in OrderIds /\ Exists(o) /\ LedgerInv(o) /\ amount \in Amounts
    BY <2>1 DEF RequestInv, PayInv, Invariant
  <2>3. QED
    BY <2>1, <2>2, ConstantTypes DEF TypeOK, LedgerInv, TotalOf
<1>1. CASE PayRead(p) /\ ~Done(p)
  <2> DEFINE read == [seen[p] EXCEPT !.pay = paymentStatus[o]]
  <2>1. /\ read \in SeenType /\ read.pay = paymentStatus[o]
        /\ seen' = [seen EXCEPT ![p] = read]
    BY <1>0, <1>1 DEF PayRead, SeenType, TypeOK
  <2> HIDE DEF read
  <2>2. OthersKeep(p) /\ LocalTypes' /\ UNCHANGED tables
    BY <1>1, <2>1 DEF PayRead, Goto, Invariant, TypeOK, OthersKeep, LocalTypes
  <2>3. pc'[p] = "pay.txn" /\ seen'[p] = read /\ call'[p] = call[p]
    BY <1>1, <2>1 DEF PayRead, Goto, Invariant, TypeOK
  <2>4. RequestInv(p)' /\ LockTaken(p)
    BY <1>0, <2>1, <2>2, <2>3 DEF RequestInv, CreateInv, PayInv, SettleInv, LockTaken,
       LedgerInv, Exists, TotalOf, tables
  <2>5. QED
    BY <2>2, <2>4, LocalStep
<1>2. CASE PayTxn(p) /\ ~PayRetry(p)
  <2>1. OthersKeep(p) /\ LocalTypes' /\ UNCHANGED tables
    BY <1>2 DEF PayTxn, Goto, Invariant, TypeOK, OthersKeep, LocalTypes
  <2>2. /\ pc'[p] = "pay.insert" /\ seen'[p] = seen[p] /\ call'[p] = call[p]
        /\ pc[p] = "pay.txn"
    BY <1>2 DEF PayTxn, Goto, Invariant, TypeOK
  <2>3. RequestInv(p)' /\ LockTaken(p)
    BY <1>0, <2>1, <2>2 DEF RequestInv, CreateInv, PayInv, SettleInv, LockTaken,
       Exists, TotalOf, tables
  <2>4. QED
    BY <2>1, <2>3, LocalStep
<1>3. CASE PayInsert(p) /\ ~Done(p)
  <2>1. OthersKeep(p) /\ LocalTypes' /\ UNCHANGED tables
    BY <1>3 DEF PayInsert, Goto, Invariant, TypeOK, OthersKeep, LocalTypes
  <2>2. /\ pc'[p] = "pay.verify" /\ seen'[p] = seen[p] /\ call'[p] = call[p]
        /\ pc[p] = "pay.insert" /\ ~ExceedsRemaining(p)
    BY <1>3 DEF PayInsert, Goto, Invariant, TypeOK
  <2>3. paid[o] < TotalOf(o)
    BY <1>0, <2>2 DEF ExceedsRemaining
  <2>4. seen[p].pay = "PENDING"
    BY <1>0, <2>2, <2>3 DEF RequestInv, PayInv
  <2>5. RequestInv(p)' /\ LockTaken(p)
    BY <1>0, <2>1, <2>2, <2>4 DEF RequestInv, CreateInv, PayInv, SettleInv, LockTaken,
       Exists, tables
  <2>6. QED
    BY <2>1, <2>5, LocalStep
<1>4. CASE PayVerify(p) /\ ~PayRetry(p)
  <2> DEFINE read == [seen[p] EXCEPT !.paid = paid[o] + amount]
  <2>1. /\ read \in SeenType /\ read.paid = paid[o] + amount /\ read.pay = seen[p].pay
        /\ seen' = [seen EXCEPT ![p] = read]
    BY <1>0, <1>4 DEF PayVerify, SeenType
  <2> HIDE DEF read
  <2>2. OthersKeep(p) /\ LocalTypes' /\ UNCHANGED tables
    BY <1>4, <2>1 DEF PayVerify, Goto, Invariant, TypeOK, OthersKeep, LocalTypes
  <2>3. /\ pc'[p] = "pay.update" /\ seen'[p] = read /\ call'[p] = call[p]
        /\ pc[p] = "pay.verify"
    BY <1>4, <2>1 DEF PayVerify, Goto, Invariant, TypeOK
  <2>4. RequestInv(p)' /\ LockTaken(p)
    BY <1>0, <2>1, <2>2, <2>3 DEF RequestInv, CreateInv, PayInv, SettleInv, LockTaken,
       Exists, tables
  <2>5. QED
    BY <2>2, <2>4, LocalStep
<1>5. CASE PayUpdate(p)
  <2>1. /\ paymentStatus[o] = "PENDING" /\ Done(p)
        /\ seen[p].paid <= paid[o] + amount /\ seen[p].paid \in Nat
    BY <1>0, <1>5 DEF PayUpdate, PayStatusAsSeen, RequestInv, PayInv, SeenType
  <2>2. /\ paymentStatus' = [paymentStatus EXCEPT ![o] =
             IF CoversTotal(p) THEN "PAID" ELSE "PENDING"]
        /\ paid' = [paid EXCEPT ![o] = paid[o] + amount]
        /\ UNCHANGED <<status, source, refunded, stock, moved, cartStatus, invoices>>
    BY <1>0, <1>5 DEF PayUpdate
  <2>3. txns' \in [TxnIds -> Nat]
    <3>1. txns \in [TxnIds -> Nat] /\ call[p].txn \in TxnIds \cup {NoTxn}
      BY <1>0 DEF TypeOK, CallType
    <3>2. QED
      BY <1>5, <3>1 DEF PayUpdate
  <2>4. CoversTotal(p) => paid[o] + amount >= TotalOf(o)
    BY <1>0, <2>1 DEF CoversTotal
  <2>5. /\ \A u \in OrderIds \ {o} : paid'[u] = paid[u] /\ paymentStatus'[u] = paymentStatus[u]
        /\ paid'[o] = paid[o] + amount /\ paymentStatus'[o] \in {"PAID", "PENDING"}
        /\ paymentStatus'[o] = "PAID" => CoversTotal(p)
    BY <1>0, <2>2 DEF TypeOK
  <2>6. TableTypes'
    BY <1>0, <2>2, <2>3 DEF TypeOK, TableTypes, PaymentStatus
  <2>7. OrdersKeep /\ LocksKeep(p)
    BY <1>0, <2>1, <2>2, <2>5 DEF TypeOK, OrdersKeep, LocksKeep, Exists
  <2>8. LedgerInv(o)'
    <3>1. source'[o] = source[o] /\ status'[o] = status[o] /\ refunded'[o] = refunded[o]
      BY <2>2
    <3>2. TotalOf(o)' = TotalOf(o) /\ Shipping[source[o]] \in Nat
      BY <1>0, <3>1, ConstantTypes DEF TotalOf
    <3>3. QED
      BY <1>0, <2>1, <2>2, <2>4, <2>5, <3>1, <3>2 DEF LedgerInv, Exists, IsCOD
  <2>9. \A u \in OrderIds \ {o} : LedgerInv(u)'
    BY <2>2, <2>5 DEF Invariant, LedgerInv, Exists, IsCOD, TotalOf
  <2>10. ClosedCarts'
    BY <2>2 DEF Invariant, ClosedCarts, Exists
  <2>11. QED
    BY <2>1, <2>6, <2>7, <2>8, <2>9, <2>10, DoneLocal, CommitStep
<1>6. CASE Done(p) /\ UNCHANGED tables
  BY <1>6, DoneStep
<1>7. CASE PayRetry(p) /\ UNCHANGED tables
  BY <1>0, <1>7, PayRetryStep
<1>8. QED
  BY <1>1, <1>2, <1>3, <1>4, <1>5, <1>6, <1>7
  DEF Paying, PayRead, PayTxn, PayInsert, PayVerify, PayConflict

(* confirmOrder, processOrder and shipOrder; their UPDATE commits.         *)
LEMMA AdvanceStep ==
  ASSUME Invariant, NEW p \in Requests, Advancing(p)
  PROVE  Invariant'
<1>0. PICK o \in OrderIds :
        /\ o = call[p].order /\ RequestInv(p) /\ TypeOK /\ Exists(o) /\ LedgerInv(o)
        /\ pc[p] \in AdvanceLabels /\ source[o] \in Carts
        /\ paid[o] \in Nat /\ Shipping[source[o]] \in Nat
  <2> DEFINE o == call[p].order
  <2>1. pc[p] \in AdvanceLabels /\ RequestInv(p) /\ TypeOK
    BY DEF Advancing, ConfirmAdvance, ConfirmUpdate, ProcessUpdate, ShipUpdate,
       AdvanceUpdate, Invariant
  <2>2. o \in OrderIds /\ Exists(o) /\ LedgerInv(o)
    BY <2>1 DEF RequestInv, Invariant
  <2>3. QED
    BY <2>1, <2>2, ConstantTypes DEF TypeOK, LedgerInv
<1>1. CASE ConfirmAdvance(p) /\ ~Done(p)
  <2>1. OthersKeep(p) /\ LocalTypes' /\ UNCHANGED tables
    BY <1>1 DEF ConfirmAdvance, Goto, Invariant, TypeOK, OthersKeep, LocalTypes
  <2>2. /\ pc'[p] = "confirm.update" /\ call'[p] = call[p] /\ paid[o] >= Shipping[source[o]]
    BY <1>0, <1>1 DEF ConfirmAdvance, AdvanceMissing, Goto, Invariant, TypeOK
  <2>3. RequestInv(p)' /\ LockTaken(p)
    BY <1>0, <2>1, <2>2 DEF RequestInv, CreateInv, PayInv, SettleInv, LockTaken,
       Exists, IsCOD, tables
  <2>4. QED
    BY <2>1, <2>3, LocalStep
<1>2. ASSUME NEW from, NEW to \in {"CONFIRMED", "PROCESSING", "SHIPPED"},
             AdvanceUpdate(p, pc[p], from, to), status[o] = from,
             from = "PENDING" => (IsCOD(o) => paid[o] >= Shipping[source[o]]),
             from \in {"PENDING", "CONFIRMED", "PROCESSING"}
      PROVE  Invariant'
  <2>1. /\ status' = [status EXCEPT ![o] = to] /\ ~OrderLocked(p, o) /\ Done(p)
        /\ UNCHANGED <<paymentStatus, source, paid, refunded, txns, stock, moved,
                       cartStatus, invoices>>
    BY <1>0, <1>2 DEF AdvanceUpdate
  <2>2. status'[o] = to /\ \A u \in OrderIds \ {o} : status'[u] = status[u]
    BY <1>0, <2>1 DEF TypeOK
  <2>3. TableTypes'
    BY <1>0, <2>1 DEF TypeOK, TableTypes, Status
  <2>4. OrdersKeep
    BY <1>0, <2>1, <2>2 DEF TypeOK, OrdersKeep, Exists
  <2>5. LocksKeep(p)
    BY <1>0, <2>1 DEF TypeOK, LocksKeep, OrderLocked
  <2>6. LedgerInv(o)'
    BY <1>0, <1>2, <2>1, <2>2 DEF LedgerInv, Exists, IsCOD, TotalOf
  <2>7. \A u \in OrderIds \ {o} : LedgerInv(u)'
    BY <1>0, <2>1, <2>2 DEF Invariant, LedgerInv, Exists, IsCOD, TotalOf
  <2>8. ClosedCarts'
    BY <1>0, <2>1, <2>2 DEF Invariant, ClosedCarts, Exists
  <2>9. QED
    BY <2>1, <2>3, <2>4, <2>5, <2>6, <2>7, <2>8, DoneLocal, CommitStep
<1>3. CASE Done(p) /\ UNCHANGED tables
  BY <1>3, DoneStep
<1>4. CASE ConfirmUpdate(p)
  <2>1. IsCOD(o) => paid[o] >= Shipping[source[o]]
    BY <1>0, <1>4 DEF ConfirmUpdate, AdvanceUpdate, RequestInv, PayInv
  <2>2. CASE status[o] = "PENDING"
    BY <1>0, <1>2, <1>4, <2>1, <2>2 DEF ConfirmUpdate, AdvanceUpdate
  <2>3. CASE status[o] # "PENDING"
    BY <1>0, <1>3, <1>4, <2>3 DEF ConfirmUpdate, AdvanceUpdate, tables
  <2>4. QED
    BY <2>2, <2>3
<1>5. CASE ProcessUpdate(p)
  <2>1. CASE status[o] = "CONFIRMED"
    BY <1>0, <1>2, <1>5, <2>1 DEF ProcessUpdate, AdvanceUpdate
  <2>2. CASE status[o] # "CONFIRMED"
    BY <1>0, <1>3, <1>5, <2>2 DEF ProcessUpdate, AdvanceUpdate, tables
  <2>3. QED
    BY <2>1, <2>2
<1>6. CASE ShipUpdate(p)
  <2>1. CASE status[o] = "PROCESSING"
    BY <1>0, <1>2, <1>6, <2>1 DEF ShipUpdate, AdvanceUpdate
  <2>2. CASE status[o] # "PROCESSING"
    BY <1>0, <1>3, <1>6, <2>2 DEF ShipUpdate, AdvanceUpdate, tables
  <2>3. QED
    BY <2>1, <2>2
<1>7. QED
  BY <1>1, <1>3, <1>4, <1>5, <1>6 DEF Advancing, ConfirmAdvance

-----------------------------------------------------------------------------
(* The statements that write stock rows, and the commits of those writes.  *)

(* A commit of stock rows adds movements of one kind to one order.         *)
LEMMA CommitStockTyped ==
  ASSUME Invariant, NEW p \in Requests, NEW o \in OrderIds, NEW ref \in Reference,
         CommitStock(p, ref, o)
  PROVE  /\ stock' \in [Stocks -> StockRow]
         /\ moved' \in [Reference -> [OrderIds -> [Stocks -> Nat]]]
         /\ \A u \in OrderIds \ {o} : moved'["ORDER"][u] = moved["ORDER"][u]
         /\ ref # "ORDER" => moved'["ORDER"] = moved["ORDER"]
<1>1. stock' \in [Stocks -> StockRow]
  BY ViewTyped DEF CommitStock
<1>2. moved \in [Reference -> [OrderIds -> [Stocks -> Nat]]] /\ tx[p].moves \in [Stocks -> Nat]
  BY DEF Invariant, TypeOK, TxType
<1> DEFINE row == [s \in Stocks |-> moved[ref][o][s] + tx[p].moves[s]]
<1>3. row \in [Stocks -> Nat]
  BY <1>2
<1>4. moved' = [moved EXCEPT ![ref] = [moved[ref] EXCEPT ![o] = row]]
  BY DEF CommitStock
<1> HIDE DEF row
<1>5. moved' \in [Reference -> [OrderIds -> [Stocks -> Nat]]]
  BY <1>2, <1>3, <1>4
<1>6. "ORDER" \in Reference
  BY DEF Reference
<1>7. QED
  BY <1>1, <1>2, <1>4, <1>5, <1>6

(* An uncommitted stock row stays with the request that wrote it.          *)
LEMMA WriteStockTyped ==
  ASSUME Invariant, NEW p \in Requests, NEW s \in Stocks, NEW row \in StockRow,
         NEW q \in Nat, WriteStock(p, s, row, q)
  PROVE  /\ tx' \in [Requests -> TxType]
         /\ \A r \in Requests \ {p} : tx'[r] = tx[r]
<1> DEFINE st == [tx[p].stock EXCEPT ![s] = row]
           mv == [tx[p].moves EXCEPT ![s] = tx[p].moves[s] + q]
           td == tx[p].todo \ {s}
           new == [tx[p] EXCEPT !.stock = st, !.moves = mv, !.todo = td]
<1>1. /\ tx[p] \in TxType /\ tx[p].moves \in [Stocks -> Nat]
      /\ tx[p].stock \in [Stocks -> StockRow \cup {Clean}] /\ tx[p].todo \in SUBSET Stocks
  BY DEF Invariant, TypeOK, TxType
<1>2. st \in [Stocks -> StockRow \cup {Clean}] /\ mv \in [Stocks -> Nat] /\ td \in SUBSET Stocks
  BY <1>1
<1>3. tx' = [tx EXCEPT ![p] = new]
  BY DEF WriteStock
<1> HIDE DEF st, mv, td
<1>4. new \in TxType
  BY <1>1, <1>2 DEF TxType
<1> HIDE DEF new
<1>5. QED
  BY <1>3, <1>4 DEF Invariant, TypeOK

(* Rows and movements of an order p settles.                               *)
LEMMA MovedTyped ==
  ASSUME Invariant, NEW ref \in Reference, NEW o \in OrderIds
  PROVE  /\ moved[ref][o] \in [Stocks -> Nat]
         /\ RowsOf(ref, o) \in SUBSET Stocks
BY DEF Invariant, TypeOK, RowsOf

(* The conditional status UPDATE takes the lock of the Order row.          *)
LEMMA MarkStep ==
  ASSUME Invariant, NEW p \in Requests, CancelMark(p) \/ DeliverMark(p) \/ ReturnMark(p)
  PROVE  Invariant'
<1>0. PICK o \in OrderIds :
        /\ o = call[p].order /\ RequestInv(p) /\ TypeOK /\ Exists(o)
        /\ tx[p] \in TxType /\ seen[p] \in SeenType
  BY DEF CancelMark, DeliverMark, ReturnMark, SettleMark, Invariant, TypeOK, RequestInv
<1>1. CASE Done(p) /\ UNCHANGED tables
  BY <1>1, DoneStep
<1>2. ASSUME NEW ref \in Reference, NEW next \in {"cancel.stock", "deliver.stock", "return.stock"},
             SettleMark(p, pc[p], ref, next), ~Done(p),
             \/ pc[p] = "cancel.mark" /\ next = "cancel.stock"
             \/ pc[p] = "deliver.mark" /\ next = "deliver.stock"
             \/ pc[p] = "return.mark" /\ next = "return.stock"
      PROVE  Invariant'
  <2>1. /\ StatusAsSeen(p) /\ ~OrderLocked(p, o) /\ UNCHANGED <<call, seen, tables>>
        /\ pc' = [pc EXCEPT ![p] = next]
        /\ tx' = [tx EXCEPT ![p] = [tx[p] EXCEPT !.todo = RowsOf(ref, o)]]
    BY <1>0, <1>2 DEF SettleMark, Goto
  <2>2. [tx[p] EXCEPT !.todo = RowsOf(ref, o)] \in TxType
    BY <1>0, MovedTyped DEF TxType
  <2>3. OthersKeep(p) /\ LocalTypes'
    BY <2>1, <2>2 DEF Invariant, TypeOK, OthersKeep, LocalTypes
  <2>4. pc'[p] = next /\ call'[p] = call[p] /\ seen'[p] = seen[p]
    BY <2>1 DEF Invariant, TypeOK
  <2>5. status[o] = seen[p].status
    BY <1>0, <2>1 DEF StatusAsSeen
  <2>6. LockTaken(p)
    BY <1>0, <2>1 DEF LockTaken
  <2>7. RequestInv(p)'
    BY <1>0, <1>2, <2>1, <2>4, <2>5 DEF RequestInv, CreateInv, PayInv, SettleInv,
       Exists, IsCOD, tables
  <2>8. QED
    BY <2>1, <2>3, <2>6, <2>7, LocalStep
<1>3. QED
  BY <1>1, <1>2 DEF CancelMark, DeliverMark, ReturnMark, SettleMark, Reference

(* A stock row read by a settlement; deliverOrder checks it.               *)
LEMMA ReadStep ==
  ASSUME Invariant, NEW p \in Requests, CancelRead(p) \/ DeliverRead(p) \/ ReturnRead(p),
         ~Done(p)
  PROVE  Invariant'
<1>0. PICK o \in OrderIds :
        /\ o = call[p].order /\ RequestInv(p) /\ TypeOK /\ Exists(o)
        /\ tx[p] \in TxType /\ seen[p] \in SeenType
  BY DEF CancelRead, DeliverRead, ReturnRead, Invariant, TypeOK, RequestInv
<1>1. PICK s \in Stocks, next \in {"cancel.write", "deliver.write", "return.write"} :
        /\ SettleRead(p, s, next)
        /\ \/ pc[p] = "cancel.stock" /\ next = "cancel.write"
           \/ /\ pc[p] = "deliver.stock" /\ next = "deliver.write"
              /\ ~(View(p, s).reserved < moved["ORDER"][o][s])
              /\ ~(View(p, s).qty < moved["ORDER"][o][s])
           \/ pc[p] = "return.stock" /\ next = "return.write"
  <2>1. tx[p].todo \subseteq Stocks
    BY <1>0 DEF TxType
  <2>2. CASE CancelRead(p)
    BY <2>1, <2>2 DEF CancelRead
  <2>3. CASE DeliverRead(p)
    BY <1>0, <2>1, <2>3 DEF DeliverRead
  <2>4. CASE ReturnRead(p)
    BY <2>1, <2>4 DEF ReturnRead
  <2>5. QED
    BY <2>2, <2>3, <2>4
<1> DEFINE read == [seen[p] EXCEPT !.stock = s, !.row = View(p, s)]
<1>2. /\ read \in SeenType /\ read.stock = s /\ read.row = View(p, s)
      /\ read.pay = seen[p].pay /\ seen' = [seen EXCEPT ![p] = read]
  BY <1>0, <1>1, ViewTyped DEF SettleRead, SeenType
<1> HIDE DEF read
<1>3. OthersKeep(p) /\ LocalTypes' /\ UNCHANGED tables
  BY <1>1, <1>2 DEF SettleRead, Goto, Invariant, TypeOK, OthersKeep, LocalTypes
<1>4. pc'[p] = next /\ seen'[p] = read /\ call'[p] = call[p]
  BY <1>1, <1>2 DEF SettleRead, Goto, Invariant, TypeOK
<1>5. LockTaken(p)
  BY <1>1, <1>4 DEF LockTaken
<1>6. View(p, s).qty \in Nat /\ View(p, s).reserved \in Nat /\ moved["ORDER"][o][s] \in Nat
  BY ViewTyped, MovedTyped DEF StockRow, Reference
<1>7. RequestInv(p)'
  BY <1>0, <1>1, <1>2, <1>3, <1>4, <1>6 DEF RequestInv, CreateInv, PayInv, SettleInv,
     Exists, IsCOD, tables
<1>8. QED
  BY <1>3, <1>5, <1>7, LocalStep

(* A stock row written by a settlement has no negative quantity.           *)
LEMMA WriteStep ==
  ASSUME Invariant, NEW p \in Requests, CancelWrite(p) \/ DeliverWrite(p) \/ ReturnWrite(p)
  PROVE  Invariant'
<1>0. PICK o \in OrderIds, s \in Stocks :
        /\ o = call[p].order /\ s = seen[p].stock /\ RequestInv(p) /\ TypeOK /\ Exists(o)
        /\ seen[p].row \in StockRow /\ pc[p] \in {"cancel.write", "deliver.write", "return.write"}
  <2>1. pc[p] \in {"cancel.write", "deliver.write", "return.write"} /\ RequestInv(p) /\ TypeOK
    BY DEF CancelWrite, DeliverWrite, ReturnWrite, Invariant
  <2>2. call[p].order \in OrderIds /\ Exists(call[p].order) /\ seen[p].stock \in Stocks
    BY <2>1 DEF RequestInv
  <2>3. seen[p].row \in StockRow
    BY <2>1 DEF TypeOK, SeenType
  <2>4. QED
    BY <2>1, <2>2, <2>3
<1>1. View(p, s) \in StockRow
  BY ViewTyped
<1>2. PICK row \in StockRow, q \in Nat, next \in {"cancel.stock", "deliver.stock", "return.stock"} :
        /\ WriteStock(p, s, row, q) /\ Goto(p, next) /\ UNCHANGED <<call, seen, tables>>
        /\ \/ pc[p] = "cancel.write" /\ next = "cancel.stock"
           \/ pc[p] = "deliver.write" /\ next = "deliver.stock"
           \/ pc[p] = "return.write" /\ next = "return.stock"
  <2> DEFINE qo == moved["ORDER"][o][s]
             qd == moved["ORDER_DELIVERY"][o][s]
  <2>0. qo \in Nat /\ qd \in Nat
    BY MovedTyped DEF Reference
  <2>1. CASE CancelWrite(p)
    <3>1. [View(p, s) EXCEPT !.reserved = Released(seen[p].row, qo)] \in StockRow
      BY <1>0, <1>1, <2>0 DEF StockRow, Released, Larger
    <3>2. /\ WriteStock(p, s, [View(p, s) EXCEPT !.reserved = Released(seen[p].row, qo)], qo)
          /\ Goto(p, "cancel.stock") /\ UNCHANGED <<call, seen, tables>>
          /\ pc[p] = "cancel.write"
      BY <1>0, <2>1 DEF CancelWrite
    <3> HIDE DEF qo
    <3>3. QED
      BY <2>0, <3>1, <3>2
  <2>2. CASE DeliverWrite(p)
    <3>1. pc[p] = "deliver.write" /\ qo <= seen[p].row.qty /\ qo <= seen[p].row.reserved
      BY <1>0, <2>2 DEF DeliverWrite, RequestInv, SettleInv
    <3>2. [qty |-> seen[p].row.qty - qo, reserved |-> seen[p].row.reserved - qo] \in StockRow
      BY <1>0, <2>0, <3>1 DEF StockRow
    <3>3. /\ WriteStock(p, s, [qty |-> seen[p].row.qty - qo,
                               reserved |-> seen[p].row.reserved - qo], qo)
          /\ Goto(p, "deliver.stock") /\ UNCHANGED <<call, seen, tables>>
      BY <1>0, <2>2 DEF DeliverWrite
    <3> HIDE DEF qo
    <3>4. QED
      BY <2>0, <3>1, <3>2, <3>3
  <2>3. CASE ReturnWrite(p)
    <3>1. [View(p, s) EXCEPT !.qty = seen[p].row.qty + qd] \in StockRow
      BY <1>0, <1>1, <2>0 DEF StockRow
    <3>2. /\ WriteStock(p, s, [View(p, s) EXCEPT !.qty = seen[p].row.qty + qd], qd)
          /\ Goto(p, "return.stock") /\ UNCHANGED <<call, seen, tables>>
          /\ pc[p] = "return.write"
      BY <1>0, <2>3 DEF ReturnWrite
    <3> HIDE DEF qd
    <3>3. QED
      BY <2>0, <3>1, <3>2
  <2>4. QED
    BY <2>1, <2>2, <2>3
<1>3. tx' \in [Requests -> TxType] /\ \A r \in Requests \ {p} : tx'[r] = tx[r]
  BY <1>2, WriteStockTyped
<1>4. OthersKeep(p) /\ LocalTypes'
  BY <1>2, <1>3 DEF Goto, Invariant, TypeOK, OthersKeep, LocalTypes
<1>5. pc'[p] = next /\ seen'[p] = seen[p] /\ call'[p] = call[p] /\ LockTaken(p)
  BY <1>0, <1>2 DEF Goto, Invariant, TypeOK, LockTaken
<1>6. RequestInv(p)'
  BY <1>0, <1>2, <1>5 DEF RequestInv, CreateInv, PayInv, SettleInv, Exists, IsCOD, tables
<1>7. QED
  BY <1>2, <1>4, <1>5, <1>6, LocalStep

(* A commit of an Order row p has locked disturbs no other lock's holder.  *)
LEMMA HeldRow ==
  ASSUME Invariant, NEW p \in Requests, NEW o \in OrderIds,
         pc[p] \in HoldsOrder, call[p].order = o,
         \A u \in OrderIds \ {o} : status'[u] = status[u]
  PROVE  LocksKeep(p)
<1> SUFFICES ASSUME NEW q \in Requests \ {p}, pc[q] \in HoldsOrder
             PROVE  status'[call[q].order] = status[call[q].order]
  BY DEF LocksKeep
<1>1. call[q].order # o /\ call[q].order \in OrderIds
  BY DEF Invariant, OneHolder, RequestInv, CreateInv
<1>2. QED
  BY <1>1

(* The commit of a settlement: the status moves to another one, the        *)
(* payment columns grow, the movements of the order are of another kind.   *)
LEMMA SettleCommit ==
  ASSUME Invariant, NEW p \in Requests, NEW o \in OrderIds, o = call[p].order,
         pc[p] \in {"cancel.stock", "deliver.stock", "return.stock"},
         NEW ref \in Reference \ {"ORDER"}, CommitStock(p, ref, o), Done(p),
         status' \in [OrderIds -> Status \cup {"NONE"}],
         paymentStatus' \in [OrderIds -> PaymentStatus],
         paid' \in [OrderIds -> Nat], refunded' \in [OrderIds -> Nat],
         status'[o] # "NONE", paid[o] <= paid'[o],
         paymentStatus[o] # "PENDING" => paymentStatus'[o] # "PENDING",
         \A u \in OrderIds \ {o} :
           /\ status'[u] = status[u] /\ paid'[u] = paid[u] /\ refunded'[u] = refunded[u]
           /\ paymentStatus'[u] = paymentStatus[u],
         UNCHANGED <<source, txns, cartStatus, invoices>>,
         LedgerInv(o)'
  PROVE  Invariant'
<1>1. TypeOK /\ Exists(o)
  BY DEF Invariant, RequestInv
<1>2. TableTypes'
  BY <1>1, CommitStockTyped DEF TypeOK, TableTypes
<1>3. moved'["ORDER"] = moved["ORDER"]
  BY CommitStockTyped
<1>4. OrdersKeep
  BY <1>1, <1>3 DEF TypeOK, OrdersKeep, Exists
<1>5. LocksKeep(p)
  BY HeldRow
<1>6. \A u \in OrderIds \ {o} : LedgerInv(u)'
  BY <1>1 DEF Invariant, LedgerInv, Exists, IsCOD, TotalOf
<1>7. ClosedCarts'
  BY <1>1 DEF Invariant, ClosedCarts, Exists
<1>8. QED
  BY <1>2, <1>4, <1>5, <1>6, <1>7, DoneLocal, CommitStep

(* The commits of cancelOrder, deliverOrder and returnOrder.               *)
LEMMA SettleCommitStep ==
  ASSUME Invariant, NEW p \in Requests,
         CancelCommit(p) \/ DeliverCommit(p) \/ DeliverCollect(p) \/ ReturnCommit(p)
  PROVE  Invariant'
<1>0. PICK o \in OrderIds :
        /\ o = call[p].order /\ RequestInv(p) /\ TypeOK /\ Exists(o) /\ LedgerInv(o)
        /\ paid[o] \in Nat /\ refunded[o] \in Nat /\ paymentStatus[o] \in PaymentStatus
        /\ source[o] \in Carts /\ TotalOf(o) \in Nat /\ Shipping[source[o]] \in Nat
        /\ seen[p].pay \in PaymentStatus
        /\ pc[p] \in {"cancel.stock", "deliver.stock", "return.stock"}
  <2>1. /\ pc[p] \in {"cancel.stock", "deliver.stock", "return.stock"}
        /\ RequestInv(p) /\ TypeOK
    BY DEF CancelCommit, DeliverCommit, DeliverCollect, ReturnCommit, Invariant
  <2>2. PICK o \in OrderIds : o = call[p].order /\ Exists(o) /\ LedgerInv(o)
    BY <2>1 DEF RequestInv, Invariant
  <2>3. source[o] \in Carts /\ seen[p].pay \in PaymentStatus
    BY <2>1, <2>2 DEF LedgerInv, TypeOK, SeenType
  <2>4. QED
    BY <2>1, <2>2, <2>3, ConstantTypes DEF TypeOK, TotalOf
<1>2. CASE CancelCommit(p)
  <2>1. /\ pc[p] = "cancel.stock" /\ status' = [status EXCEPT ![o] = "CANCELLED"]
        /\ CommitStock(p, "ORDER_CANCEL", o) /\ Done(p)
        /\ UNCHANGED <<paymentStatus, source, paid, refunded, txns, cartStatus, invoices>>
    BY <1>0, <1>2 DEF CancelCommit
  <2>2. status'[o] = "CANCELLED" /\ status[o] \in Cancellable
    BY <1>0, <2>1 DEF TypeOK, RequestInv, SettleInv
  <2>3. \A m \in OrderIds : Exists(m) => Exists(m)'
    BY <1>0, <2>1, <2>2 DEF TypeOK, Exists
  <2>4. LedgerInv(o)'
    BY <1>0, <2>1, <2>2, <2>3 DEF LedgerInv, Exists, IsCOD, TotalOf, Cancellable
  <2>5. /\ "ORDER_CANCEL" \in Reference \ {"ORDER"} /\ status'[o] # "NONE"
        /\ status' \in [OrderIds -> Status \cup {"NONE"}]
        /\ \A u \in OrderIds \ {o} : status'[u] = status[u]
    BY <1>0, <2>1, <2>2 DEF Reference, Status, TypeOK
  <2>6. QED
    <3>1. /\ status' \in [OrderIds -> Status \cup {"NONE"}]
          /\ paymentStatus' \in [OrderIds -> PaymentStatus]
          /\ paid' \in [OrderIds -> Nat] /\ refunded' \in [OrderIds -> Nat]
          /\ paid[o] <= paid'[o] /\ status'[o] # "NONE"
          /\ paymentStatus[o] # "PENDING" => paymentStatus'[o] # "PENDING"
      BY <1>0, <2>1, <2>4, <2>5 DEF TypeOK
    <3>2. \A u \in OrderIds \ {o} :
            /\ status'[u] = status[u] /\ paid'[u] = paid[u] /\ refunded'[u] = refunded[u]
            /\ paymentStatus'[u] = paymentStatus[u]
      BY <1>0, <2>1, <2>4, <2>5
    <3>3. UNCHANGED <<source, txns, cartStatus, invoices>>
      BY <2>1
    <3>4. QED
      BY <1>0, <2>1, <2>4, <2>5, <3>1, <3>2, <3>3, SettleCommit
<1>3. CASE DeliverCommit(p)
  <2>1. /\ pc[p] = "deliver.stock" /\ status' = [status EXCEPT ![o] = "DELIVERED"]
        /\ CommitStock(p, "ORDER_DELIVERY", o) /\ Done(p) /\ ~CollectsCash(p)
        /\ UNCHANGED <<paymentStatus, source, paid, refunded, txns, cartStatus, invoices>>
    BY <1>0, <1>3 DEF DeliverCommit
  <2>2. status'[o] = "DELIVERED" /\ status[o] = "SHIPPED"
    BY <1>0, <2>1 DEF TypeOK, RequestInv, SettleInv
  <2>3. \A m \in OrderIds : Exists(m) => Exists(m)'
    BY <1>0, <2>1, <2>2 DEF TypeOK, Exists
  <2>4. IsCOD(o) => paymentStatus[o] = "PAID"
    BY <1>0, <2>1, <2>2 DEF CollectsCash, RequestInv, SettleInv, LedgerInv, PaymentStatus
  <2>5. LedgerInv(o)'
    BY <1>0, <2>1, <2>2, <2>3, <2>4 DEF LedgerInv, Exists, IsCOD, TotalOf
  <2>6. /\ "ORDER_DELIVERY" \in Reference \ {"ORDER"} /\ status'[o] # "NONE"
        /\ status' \in [OrderIds -> Status \cup {"NONE"}]
        /\ \A u \in OrderIds \ {o} : status'[u] = status[u]
    BY <1>0, <2>1, <2>2 DEF Reference, Status, TypeOK
  <2>7. QED
    <3>1. /\ status' \in [OrderIds -> Status \cup {"NONE"}]
          /\ paymentStatus' \in [OrderIds -> PaymentStatus]
          /\ paid' \in [OrderIds -> Nat] /\ refunded' \in [OrderIds -> Nat]
          /\ paid[o] <= paid'[o] /\ status'[o] # "NONE"
          /\ paymentStatus[o] # "PENDING" => paymentStatus'[o] # "PENDING"
      BY <1>0, <2>1, <2>5, <2>6 DEF TypeOK
    <3>2. \A u \in OrderIds \ {o} :
            /\ status'[u] = status[u] /\ paid'[u] = paid[u] /\ refunded'[u] = refunded[u]
            /\ paymentStatus'[u] = paymentStatus[u]
      BY <1>0, <2>1, <2>5, <2>6
    <3>3. UNCHANGED <<source, txns, cartStatus, invoices>>
      BY <2>1
    <3>4. QED
      BY <1>0, <2>1, <2>5, <2>6, <3>1, <3>2, <3>3, SettleCommit
<1>4. CASE DeliverCollect(p)
  <2> DEFINE sum == paid[o] + Larger(0, TotalOf(o) - paid[o])
  <2>1. /\ pc[p] = "deliver.stock" /\ status' = [status EXCEPT ![o] = "DELIVERED"]
        /\ paid' = [paid EXCEPT ![o] = sum]
        /\ paymentStatus' = [paymentStatus EXCEPT ![o] = "PAID"]
        /\ CommitStock(p, "ORDER_DELIVERY", o) /\ Done(p)
        /\ UNCHANGED <<source, refunded, txns, cartStatus, invoices>>
    BY <1>0, <1>4 DEF DeliverCollect
  <2>2. sum \in Nat /\ paid[o] <= sum /\ TotalOf(o) <= sum
    BY <1>0 DEF Larger
  <2> HIDE DEF sum
  <2>3. /\ status'[o] = "DELIVERED" /\ status[o] = "SHIPPED"
        /\ paid'[o] = sum /\ paymentStatus'[o] = "PAID"
    BY <1>0, <2>1 DEF TypeOK, RequestInv, SettleInv
  <2>4. \A m \in OrderIds : Exists(m) => Exists(m)'
    BY <1>0, <2>1, <2>3 DEF TypeOK, Exists
  <2>5. LedgerInv(o)'
    BY <1>0, <2>1, <2>2, <2>3, <2>4 DEF LedgerInv, Exists, IsCOD, TotalOf
  <2>6. /\ status' \in [OrderIds -> Status \cup {"NONE"}]
        /\ paymentStatus' \in [OrderIds -> PaymentStatus] /\ paid' \in [OrderIds -> Nat]
        /\ \A u \in OrderIds \ {o} : /\ status'[u] = status[u] /\ paid'[u] = paid[u]
                                     /\ paymentStatus'[u] = paymentStatus[u]
    BY <1>0, <2>1, <2>2 DEF Status, PaymentStatus, TypeOK
  <2>7. "ORDER_DELIVERY" \in Reference \ {"ORDER"} /\ status'[o] # "NONE"
    BY <2>3 DEF Reference
  <2>8. QED
    <3>1. /\ status' \in [OrderIds -> Status \cup {"NONE"}]
          /\ paymentStatus' \in [OrderIds -> PaymentStatus]
          /\ paid' \in [OrderIds -> Nat] /\ refunded' \in [OrderIds -> Nat]
          /\ paid[o] <= paid'[o] /\ status'[o] # "NONE"
          /\ paymentStatus[o] # "PENDING" => paymentStatus'[o] # "PENDING"
      BY <1>0, <2>1, <2>2, <2>3, <2>5, <2>6, <2>7 DEF TypeOK
    <3>2. \A u \in OrderIds \ {o} :
            /\ status'[u] = status[u] /\ paid'[u] = paid[u] /\ refunded'[u] = refunded[u]
            /\ paymentStatus'[u] = paymentStatus[u]
      BY <1>0, <2>1, <2>2, <2>3, <2>5, <2>6, <2>7
    <3>3. UNCHANGED <<source, txns, cartStatus, invoices>>
      BY <2>1
    <3>4. QED
      BY <1>0, <2>1, <2>2, <2>3, <2>5, <2>6, <2>7, <3>1, <3>2, <3>3, SettleCommit
<1>5. CASE ReturnCommit(p) /\ Refunds(p) /\ PayStatusAsSeen(p)
  <2>1. /\ pc[p] = "return.stock" /\ status' = [status EXCEPT ![o] = "RETURNED"]
        /\ refunded' = [refunded EXCEPT ![o] = refunded[o] + paid[o]]
        /\ paymentStatus' = [paymentStatus EXCEPT ![o] = "REFUNDED"]
        /\ CommitStock(p, "ORDER_RETURN", o) /\ Done(p)
        /\ UNCHANGED <<source, paid, txns, cartStatus, invoices>>
    BY <1>0, <1>5 DEF ReturnCommit
  <2>2. status[o] = "DELIVERED" /\ paymentStatus[o] = "PAID"
    BY <1>0, <1>5, <2>1 DEF RequestInv, SettleInv, Refunds, PayStatusAsSeen
  <2>3. refunded[o] = 0
    BY <1>0, <2>2 DEF LedgerInv
  <2>4. /\ status'[o] = "RETURNED" /\ paymentStatus'[o] = "REFUNDED"
        /\ refunded'[o] = paid[o]
    BY <1>0, <2>1, <2>3 DEF TypeOK
  <2>5. \A m \in OrderIds : Exists(m) => Exists(m)'
    BY <1>0, <2>1, <2>4 DEF TypeOK, Exists
  <2>6. LedgerInv(o)'
    BY <1>0, <2>1, <2>2, <2>4, <2>5 DEF LedgerInv, Exists, IsCOD, TotalOf
  <2>7. /\ status' \in [OrderIds -> Status \cup {"NONE"}]
        /\ paymentStatus' \in [OrderIds -> PaymentStatus]
        /\ refunded' \in [OrderIds -> Nat]
        /\ \A u \in OrderIds \ {o} :
             /\ status'[u] = status[u] /\ refunded'[u] = refunded[u]
             /\ paymentStatus'[u] = paymentStatus[u]
    BY <1>0, <2>1, <2>4 DEF Status, PaymentStatus, TypeOK
  <2>8. "ORDER_RETURN" \in Reference \ {"ORDER"} /\ status'[o] # "NONE"
    BY <2>4 DEF Reference
  <2>9. QED
    <3>1. /\ status' \in [OrderIds -> Status \cup {"NONE"}]
          /\ paymentStatus' \in [OrderIds -> PaymentStatus]
          /\ paid' \in [OrderIds -> Nat] /\ refunded' \in [OrderIds -> Nat]
          /\ paid[o] <= paid'[o] /\ status'[o] # "NONE"
          /\ paymentStatus[o] # "PENDING" => paymentStatus'[o] # "PENDING"
      <4>1. paid' = paid /\ paid \in [OrderIds -> Nat] /\ paid[o] <= paid[o]
        BY <1>0, <2>1 DEF TypeOK
      <4>2. QED
        BY <2>4, <2>7, <2>8, <4>1
    <3>2. \A u \in OrderIds \ {o} :
            /\ status'[u] = status[u] /\ paid'[u] = paid[u] /\ refunded'[u] = refunded[u]
            /\ paymentStatus'[u] = paymentStatus[u]
      BY <1>0, <2>1, <2>4, <2>6, <2>7, <2>8
    <3>3. UNCHANGED <<source, txns, cartStatus, invoices>>
      BY <2>1
    <3>4. QED
      BY <1>0, <2>1, <2>4, <2>6, <2>7, <2>8, <3>1, <3>2, <3>3, SettleCommit
<1>6. CASE ReturnCommit(p) /\ ~Refunds(p)
  <2>1. /\ pc[p] = "return.stock" /\ status' = [status EXCEPT ![o] = "RETURNED"]
        /\ CommitStock(p, "ORDER_RETURN", o) /\ Done(p)
        /\ UNCHANGED <<paymentStatus, refunded, source, paid, txns, cartStatus, invoices>>
    BY <1>0, <1>6 DEF ReturnCommit
  <2>2. status[o] = "DELIVERED" /\ status'[o] = "RETURNED" /\ ~IsCOD(o)
    BY <1>0, <1>6, <2>1 DEF TypeOK, RequestInv, SettleInv, Refunds
  <2>3. \A m \in OrderIds : Exists(m) => Exists(m)'
    BY <1>0, <2>1, <2>2 DEF TypeOK, Exists
  <2>4. LedgerInv(o)'
    BY <1>0, <2>1, <2>2, <2>3 DEF LedgerInv, Exists, IsCOD, TotalOf
  <2>5. /\ "ORDER_RETURN" \in Reference \ {"ORDER"} /\ status'[o] # "NONE"
        /\ status' \in [OrderIds -> Status \cup {"NONE"}]
        /\ \A u \in OrderIds \ {o} : status'[u] = status[u]
    BY <1>0, <2>1, <2>2 DEF Reference, Status, TypeOK
  <2>6. QED
    <3>1. /\ status' \in [OrderIds -> Status \cup {"NONE"}]
          /\ paymentStatus' \in [OrderIds -> PaymentStatus]
          /\ paid' \in [OrderIds -> Nat] /\ refunded' \in [OrderIds -> Nat]
          /\ paid[o] <= paid'[o] /\ status'[o] # "NONE"
          /\ paymentStatus[o] # "PENDING" => paymentStatus'[o] # "PENDING"
      BY <1>0, <2>1, <2>4, <2>5 DEF TypeOK
    <3>2. \A u \in OrderIds \ {o} :
            /\ status'[u] = status[u] /\ paid'[u] = paid[u] /\ refunded'[u] = refunded[u]
            /\ paymentStatus'[u] = paymentStatus[u]
      BY <1>0, <2>1, <2>4, <2>5
    <3>3. UNCHANGED <<source, txns, cartStatus, invoices>>
      BY <2>1
    <3>4. QED
      BY <1>0, <2>1, <2>4, <2>5, <3>1, <3>2, <3>3, SettleCommit
<1>7. CASE ReturnCommit(p) /\ Refunds(p) /\ ~PayStatusAsSeen(p)
  BY <1>7, DoneStep DEF ReturnCommit
<1>8. QED
  BY <1>2, <1>3, <1>4, <1>5, <1>6, <1>7

(* cancelOrder, deliverOrder and returnOrder.                              *)
LEMMA SettleStep ==
  ASSUME Invariant, NEW p \in Requests, Settling(p)
  PROVE  Invariant'
<1>1. CASE CancelRead(p) \/ DeliverRead(p) \/ ReturnRead(p)
  <2>1. CASE Done(p)
    BY <1>1, <2>1, DoneStep DEF CancelRead, DeliverRead, ReturnRead, SettleRead, tables
  <2>2. QED
    BY <1>1, <2>1, ReadStep
<1>2. CASE DeliverConflict(p) \/ DeliverPaidMeanwhile(p) \/ ReturnConflict(p)
  BY <1>2, DoneStep DEF DeliverConflict, DeliverPaidMeanwhile, ReturnConflict
<1>3. QED
  BY <1>1, <1>2, MarkStep, WriteStep, SettleCommitStep DEF Settling

(* The commit of createOrder: a new order, made from a cart nobody used.   *)
LEMMA CreateCloseStep ==
  ASSUME Invariant, NEW p \in Requests, CreateClose(p)
  PROVE  Invariant'
<1>0. PICK o \in OrderIds, c \in Carts :
        /\ o = call[p].order /\ c = call[p].cart /\ ~Exists(o) /\ TypeOK /\ LedgerInv(o)
        /\ \A m \in OrderIds : m < o => Exists(m)
        /\ cartStatus[c] = "ACTIVE" /\ pc[p] = "create.close"
  BY DEF CreateClose, CartStillActive, Invariant, RequestInv, CreateInv
<1>1. /\ status' = [status EXCEPT ![o] = "PENDING"]
      /\ paymentStatus' = [paymentStatus EXCEPT ![o] = "PENDING"]
      /\ source' = [source EXCEPT ![o] = c]
      /\ cartStatus' = [cartStatus EXCEPT ![c] = "CHECKED_OUT"]
      /\ CommitStock(p, "ORDER", o)
      /\ pc' = [pc EXCEPT ![p] = "create.invoice"]
      /\ tx' = [tx EXCEPT ![p] = NoTx] /\ seen' = [seen EXCEPT ![p] = NothingSeen]
      /\ UNCHANGED <<call, paid, refunded, txns, invoices>>
  BY <1>0 DEF CreateClose, Goto
<1>2. OthersKeep(p) /\ LocalTypes'
  BY <1>0, <1>1, NothingTyped DEF TypeOK, OthersKeep, LocalTypes
<1>3. "ORDER" \in Reference
  BY DEF Reference
<1>4. TableTypes'
  BY <1>0, <1>1, <1>3, CommitStockTyped DEF TypeOK, TableTypes, Status, PaymentStatus
<1>5. /\ status'[o] = "PENDING" /\ source'[o] = c /\ paymentStatus'[o] = "PENDING"
      /\ cartStatus'[c] = "CHECKED_OUT"
      /\ \A u \in OrderIds \ {o} :
           /\ status'[u] = status[u] /\ source'[u] = source[u]
           /\ paymentStatus'[u] = paymentStatus[u]
      /\ \A d \in Carts \ {c} : cartStatus'[d] = cartStatus[d]
  BY <1>0, <1>1 DEF TypeOK
<1>6. \A u \in OrderIds \ {o} : moved'["ORDER"][u] = moved["ORDER"][u]
  BY <1>1, <1>3, CommitStockTyped
<1>7. OrdersKeep
  BY <1>0, <1>1, <1>5, <1>6 DEF TypeOK, OrdersKeep, Exists
<1>8. LocksKeep(p)
  <2>1. pc[p] \in HoldsOrder /\ call[p].order = o
    BY <1>0
  <2>2. QED
    BY <1>5, <2>1, HeldRow
<1>9. \A u \in OrderIds : LedgerInv(u)'
  <2>1. \A u \in OrderIds : source[u] # c
    BY <1>0, CartAssumption DEF Invariant, LedgerInv
  <2>2. \A u \in OrderIds : Exists(u)' <=> (Exists(u) \/ u = o)
    BY <1>0, <1>5 DEF Exists
  <2>3. LedgerInv(o)'
    <3>1. paid'[o] = 0 /\ refunded'[o] = 0
      BY <1>0, <1>1 DEF LedgerInv
    <3>2. \A m \in OrderIds : (m < o => Exists(m)') /\ (source'[m] = source'[o] => m = o)
      BY <1>0, <1>5, <2>1, <2>2
    <3>3. QED
      BY <1>5, <2>2, <3>1, <3>2 DEF LedgerInv, IsCOD
  <2>4. ASSUME NEW u \in OrderIds \ {o}
        PROVE  LedgerInv(u)'
    <3>1. LedgerInv(u) /\ (Exists(u)' <=> Exists(u))
      BY <2>2 DEF Invariant
    <3>2. Exists(u) => \A m \in OrderIds : (m < u => Exists(m)') /\ (source'[m] = source'[u] => m = u)
      BY <1>5, <2>1, <2>2, <3>1 DEF LedgerInv
    <3>3. Exists(u) => cartStatus'[source[u]] = "CHECKED_OUT"
      BY <1>5, <3>1 DEF LedgerInv
    <3>4. QED
      BY <1>1, <1>5, <3>1, <3>2, <3>3 DEF LedgerInv, IsCOD, TotalOf
  <2>5. QED
    BY <2>3, <2>4
<1>10. ClosedCarts'
  BY <1>0, <1>5 DEF Invariant, ClosedCarts, Exists
<1>11. pc'[p] = "create.invoice" /\ call'[p] = call[p] /\ Exists(o)'
  BY <1>0, <1>1, <1>5 DEF TypeOK, Exists
<1>12. LockTaken(p) /\ RequestInv(p)'
  BY <1>0, <1>11 DEF LockTaken, RequestInv, CreateInv, PayInv, SettleInv
<1>13. QED
  BY <1>2, <1>4, <1>7, <1>8, <1>9, <1>10, <1>12, CommitStep

(* The invoice changes nothing else.                                       *)
LEMMA CreateInvoiceStep ==
  ASSUME Invariant, NEW p \in Requests, CreateInvoice(p)
  PROVE  Invariant'
<1>1. /\ invoices' = invoices \cup {call[p].order} /\ Done(p) /\ call[p].order \in OrderIds
      /\ UNCHANGED <<status, paymentStatus, source, paid, refunded, txns, stock, moved,
                     cartStatus>>
  BY DEF CreateInvoice, Invariant, RequestInv
<1>2. TableTypes'
  BY <1>1 DEF Invariant, TypeOK, TableTypes
<1>3. OrdersKeep /\ LocksKeep(p) /\ ClosedCarts'
  BY <1>1 DEF Invariant, TypeOK, OrdersKeep, LocksKeep, ClosedCarts, Exists
<1>4. \A o \in OrderIds : LedgerInv(o)'
  BY <1>1 DEF Invariant, LedgerInv, Exists, IsCOD, TotalOf
<1>5. QED
  BY <1>1, <1>2, <1>3, <1>4, DoneLocal, CommitStep

-----------------------------------------------------------------------------
(* Invariant is inductive.                                                 *)

(* The database is empty but for its stock and its active carts.           *)
LEMMA InitInvariant == Init => Invariant
<1> SUFFICES ASSUME Init
             PROVE  Invariant
  OBVIOUS
<1>1. \A p \in Requests : pc[p] = "idle" /\ call[p] = NoCall /\ tx[p] = NoTx
  BY DEF Init
<1>2. TableTypes
  BY StockAssumption DEF Init, TableTypes, PaymentStatus, StockRow
<1>3. LocalTypes
  BY NothingTyped DEF Init, LocalTypes
<1>4. TypeOK
  BY <1>2, <1>3 DEF TypeOK, TableTypes, LocalTypes
<1>5. \A o \in OrderIds : LedgerInv(o)
  BY DEF Init, LedgerInv, Exists
<1>6. \A p \in Requests : RequestInv(p)
  BY <1>1 DEF RequestInv, CreateInv, PayInv, SettleInv, NoTx
<1>7. OneHolder /\ ClosedCarts
  BY <1>1 DEF Init, OneHolder, ClosedCarts
<1>8. QED
  BY <1>4, <1>5, <1>6, <1>7 DEF Invariant

(* Every step of every request keeps Invariant.                            *)
LEMMA NextInvariant == Invariant /\ [Next]_vars => Invariant'
<1> SUFFICES ASSUME Invariant, [Next]_vars
             PROVE  Invariant'
  OBVIOUS
<1>1. ASSUME NEW p \in Requests, Starting(p) \/ Statement(p) \/ Fail(p)
      PROVE  Invariant'
  <2>1. CASE Creating(p)
    BY <2>1, CreateStep, CreateCloseStep, CreateInvoiceStep DEF Creating
  <2>2. CASE Fail(p)
    BY <2>2, DoneStep DEF Fail
  <2>3. QED
    BY <1>1, <2>1, <2>2, StartStep, PayStep, AdvanceStep, SettleStep DEF Statement
<1>2. CASE UNCHANGED vars
  <2>1. TypeOK' /\ \A o \in OrderIds : LedgerInv(o)'
    BY <1>2 DEF vars, Invariant, TypeOK, LedgerInv, Exists, TotalOf, IsCOD
  <2>2. \A p \in Requests : RequestInv(p)'
    BY <1>2 DEF vars, Invariant, RequestInv, CreateInv, PayInv, SettleInv, Exists, TotalOf, IsCOD
  <2>3. OneHolder' /\ ClosedCarts'
    BY <1>2 DEF vars, Invariant, OneHolder, ClosedCarts, Exists
  <2>4. QED
    BY <2>1, <2>2, <2>3 DEF Invariant
<1>3. QED
  BY <1>1, <1>2 DEF Next

(* In every reachable state a request still knows of the database what its *)
(* next statement relies on, and an Order row has one uncommitted version. *)
THEOREM InvariantHolds == Spec => []Invariant
<1>1. Init => Invariant
  BY InitInvariant
<1>2. Invariant /\ [Next]_vars => Invariant'
  BY NextInvariant
<1>3. QED
  BY <1>1, <1>2, PTL DEF Spec

(* The columns hold what the schema declares: no physical quantity, no     *)
(* reservation and no sum of payments goes below zero, whatever the        *)
(* handlers of order.service.ts interleave.                                *)
THEOREM TypeCorrect == Spec => []TypeOK
<1>1. Invariant => TypeOK
  BY DEF Invariant
<1>2. QED
  BY <1>1, InvariantHolds, PTL

(* Two checkouts of one cart never make two orders, and a cart is closed   *)
(* exactly when an order was made from it (createOrder's cart update).     *)
THEOREM CartsOrderedOnce == Spec => []OneOrderPerCart
<1>1. Invariant => OneOrderPerCart
  <2> SUFFICES ASSUME Invariant
               PROVE  OneOrderPerCart
    OBVIOUS
  <2>1. \A o1, o2 \in OrderIds : Exists(o1) /\ Exists(o2) /\ source[o1] = source[o2] => o1 = o2
    BY DEF Invariant, LedgerInv
  <2>2. \A c \in Carts : cartStatus[c] = "CHECKED_OUT"
                           <=> \E o \in OrderIds : Exists(o) /\ source[o] = c
    BY DEF Invariant, ClosedCarts, LedgerInv
  <2>3. QED
    BY <2>1, <2>2 DEF OneOrderPerCart
<1>2. QED
  BY <1>1, InvariantHolds, PTL

(* An order marked PAID or REFUNDED has payments for its whole total, with *)
(* any number of payments being recorded at once (createPayment,           *)
(* deliverOrder).                                                          *)
THEOREM PaidOrdersBacked == Spec => []PaidIsBacked
<1>1. Invariant => PaidIsBacked
  BY DEF Invariant, LedgerInv, PaidIsBacked
<1>2. QED
  BY <1>1, InvariantHolds, PTL

(* returnOrder refunds exactly what was paid, and once.                    *)
THEOREM RefundsExact == Spec => []RefundIsExact
<1>1. Invariant => RefundIsExact
  BY DEF Invariant, LedgerInv, RefundIsExact
<1>2. QED
  BY <1>1, InvariantHolds, PTL

(* A cash-on-delivery order is confirmed with its shipping charge paid,    *)
(* PAID when delivered, REFUNDED when returned.                            *)
THEOREM CashSettled == Spec => []CashOrdersSettled
<1>1. Invariant => CashOrdersSettled
  BY DEF Invariant, LedgerInv, CashOrdersSettled
<1>2. QED
  BY <1>1, InvariantHolds, PTL

-----------------------------------------------------------------------------
(* OrderService implements OrderLifecycle.  The mapping is the identity on *)
(* the order columns: only commits change them, and each commit is one     *)
(* step of the abstract specification.                                     *)

LifecycleStep == Lifecycle!Next \/ UNCHANGED Lifecycle!vars

(* createOrder's commit places the order.                                  *)
LEMMA PlaceMapped ==
  ASSUME Invariant, NEW p \in Requests, CreateClose(p)
  PROVE  LifecycleStep
<1>0. PICK o \in OrderIds, c \in Carts :
        /\ o = call[p].order /\ c = call[p].cart /\ ~Exists(o) /\ LedgerInv(o)
        /\ \A m \in OrderIds : m < o => Exists(m)
        /\ cartStatus[c] = "ACTIVE"
  BY DEF CreateClose, CartStillActive, Invariant, RequestInv, CreateInv
<1>1. \A u \in OrderIds : source[u] # c
  BY <1>0, CartAssumption DEF Invariant, LedgerInv
<1>2. \A m \in OrderIds : m < o <=> status[m] # "NONE"
  <2> TAKE m \in OrderIds
  <2>1. m \in Nat /\ o \in Nat
    BY OrderIdsAssumption
  <2>2. Exists(m) => ~(o < m) /\ m # o
    BY <1>0 DEF Invariant, LedgerInv
  <2>3. QED
    BY <1>0, <2>1, <2>2 DEF Exists
<1>3. paymentStatus' = paymentStatus
  BY <1>0 DEF CreateClose, LedgerInv, Invariant, TypeOK
<1>4. Lifecycle!Place(o, c)
  BY <1>0, <1>1, <1>2, <1>3 DEF CreateClose, Lifecycle!Place, Exists
<1>5. QED
  BY <1>4 DEF LifecycleStep, Lifecycle!Next

(* createPayment's commit is a payment.                                    *)
LEMMA PayMapped ==
  ASSUME Invariant, NEW p \in Requests, PayUpdate(p)
  PROVE  LifecycleStep
<1>0. PICK o \in OrderIds, amount \in Amounts :
        /\ o = call[p].order /\ amount = call[p].amount
        /\ RequestInv(p) /\ TypeOK /\ Exists(o) /\ LedgerInv(o) /\ seen[p] \in SeenType
  BY DEF PayUpdate, Invariant, RequestInv, PayInv, TypeOK
<1>1. /\ paymentStatus[o] = "PENDING" /\ seen[p].paid <= paid[o] + amount
      /\ seen[p].paid \in Nat /\ paid[o] \in Nat /\ amount \in Nat
      /\ source[o] \in Carts /\ TotalOf(o) \in Nat
  BY <1>0, ConstantTypes DEF PayUpdate, PayStatusAsSeen, RequestInv, PayInv, SeenType,
     TypeOK, LedgerInv, TotalOf
<1>2. /\ paymentStatus' = [paymentStatus EXCEPT ![o] =
           IF CoversTotal(p) THEN "PAID" ELSE "PENDING"]
      /\ paid' = [paid EXCEPT ![o] = paid[o] + amount]
      /\ UNCHANGED <<status, source, refunded>>
  BY <1>0 DEF PayUpdate
<1>3. CoversTotal(p) => paid[o] + amount >= Total[source[o]]
  BY <1>0, <1>1 DEF CoversTotal, TotalOf
<1>4. ~CoversTotal(p) => paymentStatus' = paymentStatus
  BY <1>0, <1>1, <1>2 DEF TypeOK
<1>5. Lifecycle!Pay(o, amount)
  BY <1>0, <1>1, <1>2, <1>3, <1>4 DEF Lifecycle!Pay, Lifecycle!Due, Exists
<1>6. QED
  BY <1>5 DEF LifecycleStep, Lifecycle!Next

(* The status updates are steps of the lifecycle.                          *)
LEMMA AdvanceMapped ==
  ASSUME Invariant, NEW p \in Requests, Advancing(p)
  PROVE  LifecycleStep
<1>0. PICK o \in OrderIds : o = call[p].order /\ RequestInv(p) /\ TypeOK
  BY DEF Advancing, ConfirmAdvance, ConfirmUpdate, ProcessUpdate, ShipUpdate,
     AdvanceUpdate, Invariant, RequestInv
<1>1. CASE UNCHANGED tables
  BY <1>1 DEF tables, LifecycleStep, Lifecycle!vars
<1>2. CASE ConfirmUpdate(p) /\ status[o] = "PENDING"
  <2>1. IsCOD(o) => paid[o] >= Shipping[source[o]]
    BY <1>0, <1>2 DEF ConfirmUpdate, AdvanceUpdate, RequestInv, PayInv
  <2>2. Lifecycle!Confirm(o)
    BY <1>0, <1>2, <2>1 DEF ConfirmUpdate, AdvanceUpdate, Lifecycle!Confirm, Lifecycle!Move,
       Lifecycle!COD, IsCOD
  <2>3. QED
    BY <2>2 DEF LifecycleStep, Lifecycle!Next
<1>3. CASE ProcessUpdate(p) /\ status[o] = "CONFIRMED"
  <2>1. Lifecycle!Advance(o)
    BY <1>0, <1>3 DEF ProcessUpdate, AdvanceUpdate, Lifecycle!Advance, Lifecycle!Move
  <2>2. QED
    BY <2>1 DEF LifecycleStep, Lifecycle!Next
<1>4. CASE ShipUpdate(p) /\ status[o] = "PROCESSING"
  <2>1. Lifecycle!Advance(o)
    BY <1>0, <1>4 DEF ShipUpdate, AdvanceUpdate, Lifecycle!Advance, Lifecycle!Move
  <2>2. QED
    BY <2>1 DEF LifecycleStep, Lifecycle!Next
<1>5. QED
  BY <1>0, <1>1, <1>2, <1>3, <1>4 DEF Advancing, ConfirmAdvance, ConfirmUpdate,
     ProcessUpdate, ShipUpdate, AdvanceUpdate, tables

(* The settlements' commits are steps of the lifecycle.                    *)
LEMMA SettleMapped ==
  ASSUME Invariant, NEW p \in Requests,
         CancelCommit(p) \/ DeliverCommit(p) \/ DeliverCollect(p) \/ ReturnCommit(p)
  PROVE  LifecycleStep
<1>0. PICK o \in OrderIds :
        /\ o = call[p].order /\ RequestInv(p) /\ TypeOK /\ LedgerInv(o)
        /\ paid[o] \in Nat /\ TotalOf(o) \in Nat /\ paymentStatus[o] \in PaymentStatus
        /\ seen[p].pay \in PaymentStatus /\ Exists(o)
  <2>1. /\ RequestInv(p) /\ TypeOK
        /\ pc[p] \in {"cancel.stock", "deliver.stock", "return.stock"}
    BY DEF CancelCommit, DeliverCommit, DeliverCollect, ReturnCommit, Invariant
  <2>2. PICK o \in OrderIds : o = call[p].order /\ Exists(o) /\ LedgerInv(o)
    BY <2>1 DEF RequestInv, Invariant
  <2>3. source[o] \in Carts /\ seen[p].pay \in PaymentStatus
    BY <2>1, <2>2 DEF LedgerInv, TypeOK, SeenType
  <2>4. QED
    BY <2>1, <2>2, <2>3, ConstantTypes DEF TypeOK, TotalOf
<1>1. CASE CancelCommit(p)
  <2>1. status[o] \in Cancellable
    BY <1>0, <1>1 DEF CancelCommit, RequestInv, SettleInv
  <2>2. Lifecycle!Advance(o)
    BY <1>0, <1>1, <2>1 DEF CancelCommit, Cancellable, Lifecycle!Advance, Lifecycle!Move
  <2>3. QED
    BY <2>2 DEF LifecycleStep, Lifecycle!Next
<1>2. CASE DeliverCommit(p)
  <2>1. status[o] = "SHIPPED" /\ (IsCOD(o) => paymentStatus[o] = "PAID")
    BY <1>0, <1>2 DEF DeliverCommit, CollectsCash, RequestInv, SettleInv, LedgerInv,
       PaymentStatus
  <2>2. Lifecycle!Deliver(o)
    BY <1>0, <1>2, <2>1 DEF DeliverCommit, Lifecycle!Deliver, Lifecycle!Move,
       Lifecycle!COD, IsCOD
  <2>3. QED
    BY <2>2 DEF LifecycleStep, Lifecycle!Next
<1>3. CASE DeliverCollect(p)
  <2>1. status[o] = "SHIPPED" /\ IsCOD(o) /\ paymentStatus[o] # "PAID"
    BY <1>0, <1>3 DEF DeliverCollect, CollectsCash, PayStatusAsSeen, RequestInv, SettleInv
  <2>2. /\ status' = [status EXCEPT ![o] = "DELIVERED"]
        /\ paid' = [paid EXCEPT ![o] = paid[o] + Larger(0, TotalOf(o) - paid[o])]
        /\ paymentStatus' = [paymentStatus EXCEPT ![o] = "PAID"]
        /\ UNCHANGED <<source, refunded>>
    BY <1>0, <1>3 DEF DeliverCollect
  <2>3. paid[o] + Larger(0, TotalOf(o) - paid[o]) =
          IF paid[o] >= Total[source[o]] THEN paid[o] ELSE Total[source[o]]
    BY <1>0 DEF Larger, TotalOf
  <2>4. Lifecycle!Deliver(o)
    BY <2>1, <2>2, <2>3 DEF Lifecycle!Deliver, Lifecycle!Move, Lifecycle!COD, Lifecycle!Due, IsCOD
  <2>5. QED
    BY <2>4 DEF LifecycleStep, Lifecycle!Next
<1>4. CASE ReturnCommit(p)
  <2>1. status[o] = "DELIVERED" /\ (IsCOD(o) => seen[p].pay = "PAID")
    BY <1>0, <1>4 DEF ReturnCommit, RequestInv, SettleInv
  <2>2. CASE Refunds(p) /\ ~PayStatusAsSeen(p)
    BY <1>4, <2>2 DEF ReturnCommit, tables, LifecycleStep, Lifecycle!vars
  <2>3. CASE Refunds(p) /\ PayStatusAsSeen(p)
    <3>1. paymentStatus[o] = "PAID" /\ refunded[o] = 0
      BY <1>0, <2>3 DEF Refunds, PayStatusAsSeen, LedgerInv
    <3>2. /\ status' = [status EXCEPT ![o] = "RETURNED"]
          /\ paymentStatus' = [paymentStatus EXCEPT ![o] = "REFUNDED"]
          /\ refunded' = [refunded EXCEPT ![o] = paid[o]]
          /\ UNCHANGED <<source, paid>>
      BY <1>0, <1>4, <2>3, <3>1 DEF ReturnCommit
    <3>3. Lifecycle!Return(o)
      BY <2>1, <3>1, <3>2 DEF Lifecycle!Return, Lifecycle!Move
    <3>4. QED
      BY <3>3 DEF LifecycleStep, Lifecycle!Next
  <2>4. CASE ~Refunds(p)
    <3>1. ~IsCOD(o)
      BY <2>1, <2>4 DEF Refunds
    <3>2. Lifecycle!Return(o)
      BY <1>0, <1>4, <2>1, <2>4, <3>1 DEF ReturnCommit, Lifecycle!Return, Lifecycle!Move,
         Lifecycle!COD, IsCOD
    <3>3. QED
      BY <3>2 DEF LifecycleStep, Lifecycle!Next
  <2>5. QED
    BY <2>2, <2>3, <2>4
<1>5. QED
  BY <1>1, <1>2, <1>3, <1>4

(* Every step is one of OrderLifecycle or leaves its variables alone.      *)
LEMMA StepMapped == Invariant /\ [Next]_vars => LifecycleStep
<1> SUFFICES ASSUME Invariant, [Next]_vars
             PROVE  LifecycleStep
  OBVIOUS
<1>1. UNCHANGED tables \/ UNCHANGED vars => LifecycleStep
  BY DEF tables, vars, LifecycleStep, Lifecycle!vars
<1>2. ASSUME NEW p \in Requests, Starting(p) \/ Statement(p) \/ Fail(p)
      PROVE  LifecycleStep
  <2>1. CASE Starting(p) \/ Fail(p)
    BY <1>1, <2>1 DEF Starting, CreateStart, PayStart, ConfirmStart, ProcessStart, ShipStart,
       AdvanceStart, CancelStart, DeliverStart, ReturnStart, SettleStart, Fail
  <2>2. CASE Creating(p)
    <3>1. CASE CreateInvoice(p)
      BY <3>1 DEF CreateInvoice, LifecycleStep, Lifecycle!vars
    <3>2. CASE ~CreateInvoice(p) /\ ~CreateClose(p)
      BY <1>1, <2>2, <3>2 DEF Creating, CreateNumber, CreatePick, CreateOutOfStock,
         CreateReserve, CreateReserveConflict, CreateInsert, CreateNumberClash,
         CreateCartConflict
    <3>3. QED
      BY <3>1, <3>2, PlaceMapped
  <2>3. CASE Paying(p)
    BY <1>1, <2>3, PayMapped DEF Paying, PayRead, PayTxn, PayInsert, PayVerify, PayConflict
  <2>4. CASE Settling(p)
    <3>1. CASE CancelCommit(p) \/ DeliverCommit(p) \/ DeliverCollect(p) \/ ReturnCommit(p)
      BY <3>1, SettleMapped
    <3>2. CASE ~(CancelCommit(p) \/ DeliverCommit(p) \/ DeliverCollect(p) \/ ReturnCommit(p))
      BY <1>1, <2>4, <3>2 DEF Settling, CancelMark, DeliverMark, ReturnMark, SettleMark,
         CancelRead, DeliverRead, ReturnRead, SettleRead, CancelWrite, DeliverWrite,
         ReturnWrite, DeliverConflict, ReturnConflict, DeliverPaidMeanwhile
    <3>3. QED
      BY <3>1, <3>2
  <2>5. QED
    BY <1>2, <2>1, <2>2, <2>3, <2>4, AdvanceMapped DEF Statement
<1>3. QED
  BY <1>1, <1>2 DEF Next

(* Whatever statements the handlers interleave, each call acts on an order *)
(* as one atomic step of OrderLifecycle, or leaves the order alone.        *)
THEOREM LifecycleImplemented == Spec => ImplementsLifecycle
<1>1. Init => Lifecycle!Init
  BY DEF Init, Lifecycle!Init
<1>2. Invariant /\ [Next]_vars => [Lifecycle!Next]_(Lifecycle!vars)
  BY StepMapped DEF LifecycleStep
<1>3. QED
  BY <1>1, <1>2, InvariantHolds, PTL DEF Spec, ImplementsLifecycle, Lifecycle!Spec

(* Once an order is PAID no payment is added to it, however many calls of  *)
(* createPayment had passed their balance check before.                    *)
THEOREM PaymentsFinal == Spec => PaidIsFinal
<1> DEFINE Final == \A o \in OrderIds : paymentStatus[o] # "PENDING" => paid'[o] = paid[o]
<1>1. Invariant /\ [Next]_vars => Final
  <2> SUFFICES ASSUME Invariant, [Next]_vars, NEW o \in OrderIds, paymentStatus[o] # "PENDING"
               PROVE  paid'[o] = paid[o]
    OBVIOUS
  <2>1. LedgerInv(o) /\ TypeOK
    BY DEF Invariant
  <2>2. CASE UNCHANGED Lifecycle!vars
    BY <2>2 DEF Lifecycle!vars
  <2>3. ASSUME NEW u \in OrderIds,
               \/ \E c \in Carts : Lifecycle!Place(u, c)
               \/ Lifecycle!Confirm(u) \/ Lifecycle!Advance(u) \/ Lifecycle!Return(u)
        PROVE  paid'[o] = paid[o]
    BY <2>3 DEF Lifecycle!Place, Lifecycle!Confirm, Lifecycle!Advance, Lifecycle!Return
  <2>4. ASSUME NEW u \in OrderIds, NEW a \in Amounts, Lifecycle!Pay(u, a)
        PROVE  paid'[o] = paid[o]
    BY <2>1, <2>4 DEF Lifecycle!Pay, TypeOK
  <2>5. ASSUME NEW u \in OrderIds, Lifecycle!Deliver(u)
        PROVE  paid'[o] = paid[o]
    <3>1. CASE u = o
      BY <2>1, <2>5, <3>1 DEF Lifecycle!Deliver, Lifecycle!Move, LedgerInv, TypeOK, PaymentStatus
    <3>2. CASE u # o
      BY <2>1, <2>5, <3>2 DEF Lifecycle!Deliver, TypeOK
    <3>3. QED
      BY <3>1, <3>2
  <2>6. QED
    BY <2>2, <2>3, <2>4, <2>5, StepMapped DEF LifecycleStep, Lifecycle!Next
<1>2. Invariant /\ [Next]_vars => [Final]_vars
  BY <1>1
<1>3. QED
  BY <1>2, InvariantHolds, PTL DEF Spec, PaidIsFinal
=============================================================================
