-------------------------- MODULE OrderStockProofs --------------------------
(***************************************************************************)
(* What OrderService keeps true of the stock, for every number of          *)
(* requests, orders, carts and stock rows: the columns of InventoryStock   *)
(* agree with the movements, and the movements with the orders.            *)
(*                                                                         *)
(* StockInv is inductive together with Invariant of OrderServiceProofs.    *)
(* It says how an uncommitted version of a stock row differs from the      *)
(* committed row, by what the request has moved so far, and which rows a   *)
(* settlement has still to write.  A commit then moves the row and the     *)
(* movements by the same amount.                                           *)
(***************************************************************************)
EXTENDS OrderServiceProofs, SumTheorems

Writing == {"cancel.write", "deliver.write", "return.write"}
SettleLabels == {"cancel.stock", "deliver.stock", "return.stock"} \cup Writing

(* The movements a settlement goes by.                                     *)
RefOf(p) == IF pc[p] \in ReturnLabels THEN "ORDER_DELIVERY" ELSE "ORDER"

(* What p's uncommitted version of stock row s adds to the committed one.  *)
VersionInv(p, s) ==
  LET own == tx[p].stock[s]
      q == tx[p].moves[s]
  IN /\ own = Clean => q = 0
     /\ own # Clean =>
          /\ \A r \in Requests \ {p} : tx[r].stock[s] = Clean
          /\ pc[p] \in Numbered =>
               own.qty = stock[s].qty /\ own.reserved = stock[s].reserved + q
          /\ pc[p] \in CancelLabels => own.qty = stock[s].qty
          /\ pc[p] \in DeliverLabels =>
               own.qty = stock[s].qty - q /\ own.reserved = stock[s].reserved - q
          /\ pc[p] \in ReturnLabels =>
               own.qty = stock[s].qty + q /\ own.reserved = stock[s].reserved
          /\ "cancel" \notin Ops => own.reserved <= own.qty

(* The rows a settlement has written and those it has still to write.      *)
TodoInv(p) ==
  /\ pc[p] \notin Numbered \cup SettleLabels => tx[p] = NoTx
  /\ pc[p] \in SettleLabels => \A s \in Stocks :
       /\ tx[p].moves[s] = IF s \in tx[p].todo THEN 0 ELSE moved[RefOf(p)][call[p].order][s]
       /\ s \in tx[p].todo => tx[p].stock[s] = Clean
  /\ pc[p] \in Writing => seen[p].stock \in tx[p].todo
  /\ "cancel" \notin Ops => pc[p] \notin CancelLabels

(* The units of variant v that p has reserved are those of the lines it is *)
(* past.                                                                   *)
RowsFor(v) == {s \in Stocks : VariantOf[s] = v}
Quantities(c) == [i \in DOMAIN Lines[c] |-> Lines[c][i].qty]
LinesFor(c, v, n) == {i \in DOMAIN Lines[c] : Lines[c][i].variant = v /\ i <= n}
LinesDone(p) ==
  IF pc[p] \in {"create.pick", "create.reserve"} THEN tx[p].line - 1
  ELSE Len(Lines[call[p].cart])
LineInv(p) ==
  /\ pc[p] \in Numbered => \A v \in {VariantOf[s] : s \in Stocks} :
       SumFunctionOnSet(tx[p].moves, RowsFor(v)) =
         SumFunctionOnSet(Quantities(call[p].cart), LinesFor(call[p].cart, v, LinesDone(p)))
  /\ pc[p] = "create.reserve" =>
       /\ VariantOf[seen[p].stock] = CurrentLine(p).variant
       /\ Available(seen[p].row) >= CurrentLine(p).qty

(* The committed movements of an order follow its status.                  *)
MovementInv(o) ==
  /\ ~Exists(o) => \A s \in Stocks : Units("ORDER", o, s) = 0

StockInv ==
  /\ \A p \in Requests : /\ \A s \in Stocks : VersionInv(p, s)
                         /\ TodoInv(p) /\ LineInv(p)
  /\ \A o \in OrderIds : MovementInv(o)
  /\ SettledOnce /\ QuantityMatchesMovements /\ LinesReserved
  /\ "cancel" \notin Ops => ReservedMatchesOrders /\ NoOversell

-----------------------------------------------------------------------------
(* What a step of p leaves to the others.                                  *)

RequestStock(p) == (\A s \in Stocks : VersionInv(p, s)) /\ TodoInv(p) /\ LineInv(p)

(* No row another request has written is committed, or written, by p.      *)
RowsKeep(p) ==
  \A q \in Requests \ {p}, s \in Stocks : tx[q].stock[s] # Clean =>
    stock'[s] = stock[s] /\ tx'[p].stock[s] = Clean

(* No movement another settlement goes by changes.                         *)
MovesKeep(p) ==
  \A q \in Requests \ {p} : pc[q] \in SettleLabels =>
    moved'[RefOf(q)][call[q].order] = moved[RefOf(q)][call[q].order]

LEMMA OthersStock ==
  ASSUME StockInv, NEW p \in Requests, OthersKeep(p), RowsKeep(p), MovesKeep(p)
  PROVE  \A q \in Requests \ {p} : RequestStock(q)'
<1> SUFFICES ASSUME NEW q \in Requests \ {p}
             PROVE  RequestStock(q)'
  OBVIOUS
<1>1. /\ pc'[q] = pc[q] /\ call'[q] = call[q] /\ seen'[q] = seen[q] /\ tx'[q] = tx[q]
  BY DEF OthersKeep
<1>2. (\A s \in Stocks : VersionInv(q, s)) /\ TodoInv(q) /\ LineInv(q)
  BY DEF StockInv
<1>3. ASSUME NEW s \in Stocks
      PROVE  VersionInv(q, s)'
  <2>1. VersionInv(q, s)
    BY <1>2
  <2>2. CASE tx[q].stock[s] = Clean
    BY <1>1, <2>1, <2>2 DEF VersionInv
  <2>3. CASE tx[q].stock[s] # Clean
    <3>1. stock'[s] = stock[s] /\ tx'[p].stock[s] = Clean
      BY <2>3 DEF RowsKeep
    <3>2. \A r \in Requests \ {q} : tx'[r].stock[s] = Clean
      BY <2>1, <2>3, <3>1 DEF VersionInv, OthersKeep
    <3>3. QED
      BY <1>1, <2>1, <2>3, <3>1, <3>2 DEF VersionInv
  <2>4. QED
    BY <2>2, <2>3
<1>4. TodoInv(q)'
  BY <1>1, <1>2 DEF TodoInv, MovesKeep, RefOf
<1>5. LineInv(q)'
  BY <1>1, <1>2 DEF LineInv, LinesDone, CurrentLine
<1>6. QED
  BY <1>3, <1>4, <1>5 DEF RequestStock

(* The statuses before any goods leave.                                    *)
OpenStatus == {"PENDING", "CONFIRMED", "PROCESSING", "SHIPPED"}

(* A statement that commits no movement.                                   *)
LEMMA QuietStep ==
  ASSUME Invariant, StockInv, NEW p \in Requests, OthersKeep(p), RequestStock(p)',
         UNCHANGED <<stock, moved, source>>,
         \A o \in OrderIds : \/ status'[o] = status[o]
                             \/ status[o] \in OpenStatus /\ status'[o] \in OpenStatus
  PROVE  StockInv'
<1>1. RowsKeep(p)
  BY DEF RowsKeep, RequestStock, VersionInv, OthersKeep
<1>2. MovesKeep(p)
  BY DEF MovesKeep
<1>3. \A q \in Requests : RequestStock(q)'
  BY <1>1, <1>2, OthersStock
<1>4. \A o \in OrderIds : Exists(o)' <=> Exists(o)
  BY DEF Exists, OpenStatus
<1>5. \A o \in OrderIds : MovementInv(o)'
  BY <1>4 DEF StockInv, MovementInv, Units
<1>6. SettledOnce'
  BY DEF StockInv, SettledOnce, Units, OpenStatus
<1>7. QuantityMatchesMovements'
  BY DEF StockInv, QuantityMatchesMovements, Units
<1>8. LinesReserved'
  <2> SUFFICES ASSUME NEW o \in OrderIds, NEW v \in {VariantOf[s] : s \in Stocks}
               PROVE  SumFunctionOnSet(moved["ORDER"][o], {s \in Stocks : VariantOf[s] = v}) =
                        IF Exists(o)'
                        THEN LET lines == Lines[source[o]]
                             IN SumFunctionOnSet([i \in DOMAIN lines |-> lines[i].qty],
                                                 {i \in DOMAIN lines : lines[i].variant = v})
                        ELSE 0
    BY DEF LinesReserved
  <2>1. LinesReserved /\ (Exists(o)' <=> Exists(o))
    BY <1>4 DEF StockInv
  <2>2. QED
    BY <2>1 DEF LinesReserved
<1>9. "cancel" \notin Ops => ReservedMatchesOrders' /\ NoOversell'
  BY DEF StockInv, ReservedMatchesOrders, NoOversell, Units
<1>10. QED
  BY <1>3, <1>5, <1>6, <1>7, <1>8, <1>9 DEF StockInv, RequestStock

(* A request without a transaction of its own.                             *)
LEMMA EmptyTx ==
  ASSUME NEW p \in Requests, tx'[p] = NoTx, pc'[p] \notin Numbered \cup SettleLabels,
         "cancel" \notin Ops => pc'[p] \notin CancelLabels
  PROVE  RequestStock(p)'
<1>1. \A s \in Stocks : tx'[p].stock[s] = Clean /\ tx'[p].moves[s] = 0
  BY DEF NoTx
<1>2. \A s \in Stocks : VersionInv(p, s)'
  BY <1>1 DEF VersionInv
<1>3. TodoInv(p)' /\ LineInv(p)'
  BY DEF TodoInv, LineInv, SettleLabels, Writing, Numbered
<1>4. QED
  BY <1>2, <1>3 DEF RequestStock

-----------------------------------------------------------------------------
(* A request's statement changes nothing that another request keeps.       *)

LEMMA DoneOthers ==
  ASSUME Invariant, NEW p \in Requests, Done(p)
  PROVE  OthersKeep(p) /\ tx'[p] = NoTx /\ pc'[p] = "idle"
BY DEF Invariant, TypeOK, Done, Goto, OthersKeep

LEMMA RetryOthers ==
  ASSUME Invariant, NEW p \in Requests, NEW l, NEW again, Retry(p, l, again)
  PROVE  OthersKeep(p) /\ tx'[p] = NoTx /\ pc'[p] \in {"idle", l}
<1>1. CASE Done(p)
  BY <1>1, DoneOthers
<1>2. CASE ~Done(p)
  BY <1>2 DEF Retry, Invariant, TypeOK, Goto, OthersKeep
<1>3. QED
  BY <1>1, <1>2

(* A call that ends, or starts its transaction again: nothing of it stays. *)
LEMMA GivenUp ==
  ASSUME Invariant, StockInv, NEW p \in Requests, UNCHANGED tables,
         Done(p) \/ CreateRetry(p) \/ PayRetry(p)
  PROVE  StockInv'
<1>1. OthersKeep(p) /\ tx'[p] = NoTx /\ pc'[p] \in {"idle", "create.number", "pay.read"}
  BY DoneOthers, RetryOthers DEF CreateRetry, PayRetry
<1>2. RequestStock(p)'
  BY <1>1, EmptyTx DEF Numbered, SettleLabels, Writing, CancelLabels
<1>3. QED
  BY <1>1, <1>2, QuietStep DEF tables

(* The read before the transaction.                                        *)
LEMMA StartStock ==
  ASSUME Invariant, StockInv, NEW p \in Requests, Starting(p)
  PROVE  StockInv'
<1>1. pc[p] = "idle" /\ UNCHANGED <<tx, tables>>
  BY DEF Starting, CreateStart, PayStart, ConfirmStart, ProcessStart, ShipStart, AdvanceStart,
     CancelStart, DeliverStart, ReturnStart, SettleStart, Begin
<1>2. tx'[p] = NoTx
  BY <1>1 DEF StockInv, TodoInv, Numbered, SettleLabels, Writing
<1>3. OthersKeep(p)
  <2>1. CASE \E c \in Carts : CreateStart(p, c)
    BY <2>1 DEF CreateStart, Goto, Invariant, TypeOK, OthersKeep
  <2>2. CASE \E o \in OrderIds, a \in Amounts, t \in TxnIds \cup {NoTxn} : PayStart(p, o, a, t)
    BY <2>2 DEF PayStart, Goto, Invariant, TypeOK, OthersKeep
  <2>3. CASE \E o \in OrderIds : ConfirmStart(p, o) \/ ProcessStart(p, o) \/ ShipStart(p, o)
    BY <2>3 DEF ConfirmStart, ProcessStart, ShipStart, AdvanceStart, Goto, Invariant, TypeOK,
       OthersKeep
  <2>4. CASE \E o \in OrderIds : CancelStart(p, o) \/ DeliverStart(p, o) \/ ReturnStart(p, o)
    BY <2>4 DEF CancelStart, DeliverStart, ReturnStart, SettleStart, Goto, Invariant, TypeOK,
       OthersKeep
  <2>5. QED
    BY <2>1, <2>2, <2>3, <2>4 DEF Starting
<1>4. /\ pc'[p] \in {"create.number", "pay.read", "confirm.advance", "confirm.update",
                     "process.update", "ship.update", "cancel.mark", "deliver.mark",
                     "return.mark"}
      /\ pc'[p] = "cancel.mark" => "cancel" \in Ops
  BY DEF Starting, CreateStart, PayStart, ConfirmStart, ProcessStart, ShipStart, AdvanceStart,
     CancelStart, DeliverStart, ReturnStart, SettleStart, Begin, Goto, Invariant, TypeOK
<1>5. RequestStock(p)'
  BY <1>2, <1>4, EmptyTx DEF Numbered, SettleLabels, Writing, CancelLabels
<1>6. QED
  BY <1>1, <1>3, <1>5, QuietStep DEF tables

(* createPayment, confirmOrder, processOrder, shipOrder and the invoice of *)
(* createOrder write no stock row.                                         *)
LEMMA UnrelatedStock ==
  ASSUME Invariant, StockInv, NEW p \in Requests,
         Paying(p) \/ Advancing(p) \/ CreateInvoice(p)
  PROVE  StockInv'
<1>1. CASE UNCHANGED tables /\ (Done(p) \/ PayRetry(p))
  BY <1>1, GivenUp
<1>2. CASE UNCHANGED <<tx, tables>> /\ (Paying(p) \/ Advancing(p)) /\ ~Done(p) /\ ~PayRetry(p)
  <2>1. /\ OthersKeep(p) /\ pc[p] \in PayLabels \cup AdvanceLabels
        /\ pc'[p] \in PayLabels \cup AdvanceLabels
    BY <1>2 DEF Paying, PayRead, PayTxn, PayInsert, PayVerify, PayUpdate, PayConflict, Advancing,
       ConfirmAdvance, ConfirmUpdate, ProcessUpdate, ShipUpdate, AdvanceUpdate, Goto, Invariant,
       TypeOK, OthersKeep, PayLabels, AdvanceLabels
  <2>2. tx'[p] = NoTx
    BY <1>2, <2>1 DEF StockInv, TodoInv, Numbered, SettleLabels, Writing, PayLabels, AdvanceLabels
  <2>3. RequestStock(p)'
    BY <2>1, <2>2, EmptyTx DEF Numbered, SettleLabels, Writing, CancelLabels, PayLabels,
       AdvanceLabels
  <2>4. QED
    BY <1>2, <2>1, <2>3, QuietStep DEF tables
<1>3. CASE Done(p) /\ UNCHANGED <<stock, moved, source>>
            /\ (PayUpdate(p) \/ Advancing(p) \/ CreateInvoice(p))
  <2>1. OthersKeep(p) /\ RequestStock(p)'
    BY <1>3, DoneOthers, EmptyTx DEF Numbered, SettleLabels, Writing, CancelLabels
  <2>2. \A o \in OrderIds : \/ status'[o] = status[o]
                            \/ status[o] \in OpenStatus /\ status'[o] \in OpenStatus
    BY <1>3 DEF PayUpdate, CreateInvoice, Advancing, ConfirmAdvance, ConfirmUpdate, ProcessUpdate,
       ShipUpdate, AdvanceUpdate, Invariant, TypeOK, OpenStatus, tables
  <2>3. QED
    BY <1>3, <2>1, <2>2, QuietStep
<1>4. QED
  BY <1>1, <1>2, <1>3 DEF Paying, PayRead, PayTxn, PayInsert, PayVerify, PayUpdate, PayConflict,
     Advancing, ConfirmAdvance, ConfirmUpdate, ProcessUpdate, ShipUpdate, AdvanceUpdate,
     CreateInvoice, tables

-----------------------------------------------------------------------------
(* createOrder.                                                            *)

LEMMA StockFinite ==
  /\ IsFiniteSet(Stocks) /\ IsFiniteSet(OrderIds)
  /\ \A v : IsFiniteSet(RowsFor(v)) /\ RowsFor(v) \in SUBSET Stocks
  /\ \A c \in Carts : \A v, n : /\ LinesFor(c, v, n) \in SUBSET DOMAIN Lines[c]
                                /\ IsFiniteSet(LinesFor(c, v, n))
                                /\ DOMAIN Lines[c] = 1 .. Len(Lines[c])
<1>1. IsFiniteSet(Stocks) /\ IsFiniteSet(OrderIds)
  BY FiniteAssumption
<1>2. \A v : RowsFor(v) \in SUBSET Stocks
  BY DEF RowsFor
<1>3. ASSUME NEW c \in Carts
      PROVE  IsFiniteSet(DOMAIN Lines[c]) /\ DOMAIN Lines[c] = 1 .. Len(Lines[c])
  <2>1. Lines[c] \in Seq(Line) /\ Len(Lines[c]) \in Nat
    BY ConstantTypes, CartAssumption
  <2>2. DOMAIN Lines[c] = 1 .. Len(Lines[c])
    BY <2>1
  <2>3. IsFiniteSet(1 .. Len(Lines[c]))
    BY <2>1, FS_Interval
  <2>4. QED
    BY <2>2, <2>3
<1>4. ASSUME NEW c \in Carts, NEW v, NEW n
      PROVE  LinesFor(c, v, n) \in SUBSET DOMAIN Lines[c]
  BY DEF LinesFor
<1>5. QED
  BY <1>1, <1>2, <1>3, <1>4, FS_Subset

(* The view of a row by the request that may have written it.              *)
LEMMA OwnView ==
  ASSUME Invariant, StockInv, NEW p \in Requests, NEW s \in Stocks
  PROVE  /\ View(p, s) \in StockRow /\ stock[s] \in StockRow /\ tx[p].moves[s] \in Nat
         /\ tx[p].stock[s] = Clean => View(p, s) = stock[s] /\ tx[p].moves[s] = 0
         /\ pc[p] \in Numbered => /\ View(p, s).qty = stock[s].qty
                                  /\ View(p, s).reserved = stock[s].reserved + tx[p].moves[s]
<1>1. View(p, s) \in StockRow /\ stock[s] \in StockRow /\ tx[p].moves[s] \in Nat
  BY ViewTyped DEF Invariant, TypeOK, TxType
<1>2. VersionInv(p, s)
  BY DEF StockInv
<1>3. QED
  BY <1>1, <1>2 DEF View, VersionInv, StockRow

(* No statement of createOrder before its commit changes what other        *)
(* requests rely on.                                                       *)
LEMMA LocalStock ==
  ASSUME Invariant, StockInv, NEW p \in Requests, OthersKeep(p), RequestStock(p)',
         UNCHANGED tables
  PROVE  StockInv'
BY QuietStep DEF tables

LEMMA NumberStock ==
  ASSUME Invariant, StockInv, NEW p \in Requests, CreateNumber(p)
  PROVE  StockInv'
<1>1. /\ OthersKeep(p) /\ pc'[p] = "create.pick" /\ call'[p].cart = call[p].cart
      /\ UNCHANGED <<tx, tables>>
  BY DEF CreateNumber, Goto, Invariant, TypeOK, OthersKeep, CallType
<1>2. tx'[p] = NoTx
  BY <1>1 DEF CreateNumber, StockInv, TodoInv, Numbered, SettleLabels, Writing
<1>3. \A s \in Stocks : tx'[p].stock[s] = Clean /\ tx'[p].moves[s] = 0
  BY <1>2 DEF NoTx
<1>4. \A s \in Stocks : VersionInv(p, s)'
  BY <1>3 DEF VersionInv
<1>5. TodoInv(p)'
  BY <1>1 DEF TodoInv, Numbered, SettleLabels, Writing, CancelLabels
<1>6. LineInv(p)'
  <2>1. call[p].cart \in Carts
    BY DEF CreateNumber, Invariant, RequestInv, CreateInv
  <2>2. LinesDone(p)' = 0
    BY <1>1, <1>2 DEF LinesDone, NoTx
  <2>3. \A v : SumFunctionOnSet(tx'[p].moves, RowsFor(v)) = 0
    <3> TAKE v
    <3>1. \A s \in RowsFor(v) : tx'[p].moves[s] = 0
      BY <1>3 DEF RowsFor
    <3>2. QED
      BY <3>1, StockFinite, SumZero
  <2>4. \A v : LinesFor(call[p].cart, v, 0) = {}
    <3>1. DOMAIN Lines[call[p].cart] = 1 .. Len(Lines[call[p].cart])
      BY <2>1, StockFinite
    <3>2. \A i \in DOMAIN Lines[call[p].cart] : ~(i <= 0)
      BY <2>1, <3>1, ConstantTypes
    <3>3. QED
      BY <3>2 DEF LinesFor
  <2>5. \A v : SumFunctionOnSet(Quantities(call[p].cart), LinesFor(call[p].cart, v, 0)) = 0
    BY <2>4, SumEmpty
  <2>6. QED
    BY <1>1, <2>2, <2>3, <2>5 DEF LineInv
<1>7. QED
  BY <1>1, <1>4, <1>5, <1>6, LocalStock DEF RequestStock

(* The stock row a line is reserved on is one of its variant.              *)
LEMMA PickStock ==
  ASSUME Invariant, StockInv, NEW p \in Requests, CreatePick(p)
  PROVE  StockInv'
<1>1. /\ OthersKeep(p) /\ pc[p] = "create.pick" /\ pc'[p] = "create.reserve"
      /\ UNCHANGED <<call, tx, tables>>
  BY DEF CreatePick, Goto, Invariant, TypeOK, OthersKeep
<1>2. PICK s \in Fitting(p) : seen' = [seen EXCEPT ![p].stock = s, ![p].row = View(p, s)]
  BY DEF CreatePick
<1>3. seen'[p].stock = s /\ seen'[p].row = View(p, s)
  BY <1>2 DEF Invariant, TypeOK, SeenType
<1>4. \A t \in Stocks : VersionInv(p, t)'
  BY <1>1, OwnView DEF StockInv, VersionInv, Numbered, tables, CancelLabels, DeliverLabels,
     ReturnLabels
<1>5. TodoInv(p)'
  BY <1>1 DEF TodoInv, Numbered, SettleLabels, Writing, CancelLabels
<1>6. LineInv(p)'
  <2>1. VariantOf[s] = CurrentLine(p).variant /\ Available(View(p, s)) >= CurrentLine(p).qty
    BY DEF Fitting
  <2>2. CurrentLine(p)' = CurrentLine(p) /\ LinesDone(p)' = LinesDone(p)
    BY <1>1 DEF CurrentLine, LinesDone
  <2>3. LineInv(p)
    BY DEF StockInv
  <2>4. Available(seen'[p].row) >= CurrentLine(p).qty
    BY <1>3, <2>1 DEF Available
  <2>5. QED
    BY <1>1, <1>3, <2>1, <2>2, <2>3, <2>4 DEF LineInv, Numbered
<1>7. QED
  BY <1>1, <1>4, <1>5, <1>6, LocalStock DEF RequestStock

LEMMA InsertStock ==
  ASSUME Invariant, StockInv, NEW p \in Requests, CreateInsert(p)
  PROVE  StockInv'
<1>1. /\ OthersKeep(p) /\ pc[p] = "create.insert" /\ pc'[p] = "create.close"
      /\ UNCHANGED <<call, seen, tx, tables>>
  BY DEF CreateInsert, Goto, Invariant, TypeOK, OthersKeep
<1>2. \A t \in Stocks : VersionInv(p, t)'
  BY <1>1 DEF StockInv, VersionInv, Numbered, tables, CancelLabels, DeliverLabels, ReturnLabels
<1>3. TodoInv(p)'
  BY <1>1 DEF TodoInv, Numbered, SettleLabels, Writing, CancelLabels
<1>4. LineInv(p)'
  BY <1>1 DEF StockInv, LineInv, LinesDone, Numbered
<1>5. QED
  BY <1>1, <1>2, <1>3, <1>4, LocalStock DEF RequestStock

(* Reserving line n adds its units to the row's version and to its         *)
(* movements.                                                              *)
LEMMA ReserveStock ==
  ASSUME Invariant, StockInv, NEW p \in Requests, CreateReserve(p)
  PROVE  StockInv'
<1> DEFINE s == seen[p].stock
           n == tx[p].line
           c == call[p].cart
           q == CurrentLine(p).qty
           own == [View(p, s) EXCEPT !.reserved = seen[p].row.reserved + q]
           more == n < Len(Lines[c])
<1>1. /\ s \in Stocks /\ c \in Carts /\ n \in 1 .. Len(Lines[c]) /\ q \in Nat
      /\ pc[p] = "create.reserve" /\ Len(Lines[c]) \in Nat
      /\ Lines[c][n].qty = q /\ tx[p] \in TxType /\ tx[p].moves \in [Stocks -> Nat]
      /\ tx[p].stock \in [Stocks -> StockRow \cup {Clean}]
  <2>1. pc[p] = "create.reserve" /\ RequestInv(p) /\ tx[p] \in TxType
    BY DEF CreateReserve, Invariant, TypeOK
  <2>2. s \in Stocks /\ c \in Carts /\ n \in 1 .. Len(Lines[c])
    BY <2>1 DEF RequestInv, CreateInv, WriteLabels, Numbered
  <2>3. QED
    BY <2>1, <2>2, ConstantTypes DEF CurrentLine, TxType
<1>2. /\ seen[p].row = View(p, s) /\ \A r \in Requests \ {p} : tx[r].stock[s] = Clean
      /\ UNCHANGED <<call, seen, tables>>
      /\ Goto(p, IF more THEN "create.pick" ELSE "create.insert")
      /\ tx' = [tx EXCEPT ![p].stock[s] = own,
                          ![p].moves[s] = tx[p].moves[s] + q,
                          ![p].line = IF more THEN n + 1 ELSE n]
  BY DEF CreateReserve, RowAsSeen, StockLocked
<1>3. View(p, s) \in StockRow /\ own \in StockRow /\ own # Clean
      /\ own.qty = View(p, s).qty /\ own.reserved = View(p, s).reserved + q
  <2>1. View(p, s) \in StockRow
    BY <1>1, OwnView
  <2>2. own \in StockRow /\ own.qty = View(p, s).qty /\ own.reserved = View(p, s).reserved + q
    <3>1. PICK row \in StockRow : row = View(p, s) /\ row = seen[p].row
      BY <1>2, <2>1
    <3>2. own = [row EXCEPT !.reserved = row.reserved + q]
      BY <3>1
    <3> HIDE DEF own, q
    <3>3. QED
      BY <1>1, <3>1, <3>2 DEF StockRow
  <2> HIDE DEF own
  <2>3. QED
    BY <2>1, <2>2, CleanAssumption
<1> HIDE DEF own
<1>4. /\ tx'[p].stock = [tx[p].stock EXCEPT ![s] = own]
      /\ tx'[p].moves = [tx[p].moves EXCEPT ![s] = tx[p].moves[s] + q]
      /\ tx'[p].line = IF more THEN n + 1 ELSE n
      /\ \A r \in Requests \ {p} : tx'[r] = tx[r]
  <2> HIDE DEF s, n, q, more
  <2>1. tx \in [Requests -> TxType]
    BY DEF Invariant, TypeOK
  <2>2. QED
    BY <1>1, <1>2, <2>1 DEF TxType
<1>5. pc'[p] = IF more THEN "create.pick" ELSE "create.insert"
  BY <1>2 DEF Goto, Invariant, TypeOK
<1>6. OthersKeep(p)
  BY <1>2, <1>4 DEF Goto, Invariant, TypeOK, OthersKeep
<1>7. LineInv(p) /\ \A t \in Stocks : VersionInv(p, t)
  BY DEF StockInv
<1>8. pc[p] \in Numbered /\ pc'[p] \in Numbered
  BY <1>1, <1>5 DEF Numbered
<1>9. ASSUME NEW t \in Stocks
      PROVE  VersionInv(p, t)'
  <2> USE <1>1, <1>8
  <2>1. pc'[p] \notin CancelLabels \cup DeliverLabels \cup ReturnLabels
    BY <1>5 DEF CancelLabels, DeliverLabels, ReturnLabels
  <2>2. CASE t # s
    <3>1. tx'[p].stock[t] = tx[p].stock[t] /\ tx'[p].moves[t] = tx[p].moves[t]
      BY <1>4, <2>2
    <3>2. VersionInv(p, t) /\ stock'[t] = stock[t]
      BY <1>2, <1>7 DEF tables
    <3>3. \A r \in Requests \ {p} : tx'[r].stock[t] = tx[r].stock[t]
      BY <1>4
    <3> HIDE DEF s, n, c, q
    <3>4. QED
      BY <2>1, <3>1, <3>2, <3>3 DEF VersionInv
  <2>3. CASE t = s
    <3>1. tx'[p].stock[s] = own /\ tx'[p].moves[s] = tx[p].moves[s] + q
      BY <1>4
    <3>2. /\ View(p, s).qty = stock[s].qty
          /\ View(p, s).reserved = stock[s].reserved + tx[p].moves[s]
          /\ stock[s] \in StockRow /\ tx[p].moves[s] \in Nat
      BY OwnView
    <3>3. own.qty = stock[s].qty /\ own.reserved = stock[s].reserved + (tx[p].moves[s] + q)
      BY <1>3, <3>2 DEF StockRow
    <3>4. own.reserved <= own.qty
      <4>1. View(p, s).qty - View(p, s).reserved >= q
        BY <1>2, <1>7 DEF LineInv, Available
      <4>2. QED
        BY <1>3, <4>1 DEF StockRow
    <3>5. \A r \in Requests \ {p} : tx'[r].stock[s] = Clean
      BY <1>2, <1>4
    <3> HIDE DEF s, q
    <3>6. QED
      BY <1>2, <1>3, <2>1, <2>3, <3>1, <3>3, <3>4, <3>5 DEF VersionInv, tables
  <2>4. QED
    BY <2>2, <2>3
<1>10. TodoInv(p)'
  BY <1>5 DEF TodoInv, Numbered, SettleLabels, Writing, CancelLabels
<1>11. LineInv(p)'
  <2>1. LinesDone(p) = n - 1 /\ LinesDone(p)' = n
    <3>1. LinesDone(p) = n - 1
      BY <1>1 DEF LinesDone
    <3>2. LinesDone(p)' = n
      BY <1>1, <1>2, <1>4, <1>5 DEF LinesDone
    <3>3. QED
      BY <3>1, <3>2
  <2>2. VariantOf[s] = Lines[c][n].variant
    BY <1>1, <1>7 DEF LineInv, CurrentLine
  <2>3. ASSUME NEW v \in {VariantOf[t] : t \in Stocks}
        PROVE  SumFunctionOnSet(tx'[p].moves, RowsFor(v)) =
                 SumFunctionOnSet(Quantities(c), LinesFor(c, v, n))
    <3>1. SumFunctionOnSet(tx[p].moves, RowsFor(v)) =
            SumFunctionOnSet(Quantities(c), LinesFor(c, v, n - 1))
      BY <1>7, <1>8, <2>1 DEF LineInv
    <3>2. \A t \in RowsFor(v) : t \in Stocks /\ tx[p].moves[t] \in Int /\ tx'[p].moves[t] \in Int
      BY <1>1, <1>4 DEF RowsFor
    <3>3. \A i \in LinesFor(c, v, n) : Quantities(c)[i] \in Int
      BY <1>1, ConstantTypes, StockFinite DEF LinesFor, Quantities
    <3>4. CASE VariantOf[s] = v
      <4>1. s \in RowsFor(v) /\ \A t \in RowsFor(v) \ {s} : tx'[p].moves[t] = tx[p].moves[t]
        BY <1>1, <1>4, <3>4 DEF RowsFor
      <4>2. tx'[p].moves[s] = tx[p].moves[s] + q
        BY <1>1, <1>4
      <4>3. SumFunctionOnSet(tx'[p].moves, RowsFor(v)) =
              SumFunctionOnSet(tx[p].moves, RowsFor(v)) + (tx'[p].moves[s] - tx[p].moves[s])
        BY <3>2, <4>1, StockFinite, SumChange
      <4>4. LinesFor(c, v, n) = LinesFor(c, v, n - 1) \cup {n} /\ n \notin LinesFor(c, v, n - 1)
        <5>1. \A i \in DOMAIN Lines[c] : i \in Int
          BY <1>1, StockFinite
        <5>2. n \in DOMAIN Lines[c] /\ n \in Int /\ Lines[c][n].variant = v
          BY <1>1, <2>2, <3>4, StockFinite
        <5> HIDE DEF n, c
        <5>3. \A i \in DOMAIN Lines[c] : i <= n <=> i <= n - 1 \/ i = n
          BY <5>1, <5>2
        <5>4. ~(n <= n - 1)
          BY <5>2
        <5>5. QED
          BY <5>2, <5>3, <5>4 DEF LinesFor
      <4>5. Quantities(c)[n] = q
        BY <1>1, StockFinite DEF Quantities
      <4>6. SumFunctionOnSet(Quantities(c), LinesFor(c, v, n)) =
              q + SumFunctionOnSet(Quantities(c), LinesFor(c, v, n - 1))
        BY <1>1, <3>3, <4>4, <4>5, StockFinite, SumAdd
      <4>7. tx[p].moves[s] \in Int
        BY <1>1
      <4>8. SumFunctionOnSet(tx[p].moves, RowsFor(v)) \in Int
        BY <3>2, StockFinite, SumInt
      <4> HIDE DEF s, n, c, q
      <4>9. QED
        BY <1>1, <3>1, <4>2, <4>3, <4>6, <4>7, <4>8
    <3>5. CASE VariantOf[s] # v
      <4>1. \A t \in RowsFor(v) : tx[p].moves[t] = tx'[p].moves[t]
        BY <1>1, <1>4, <3>5 DEF RowsFor
      <4>2. LinesFor(c, v, n) = LinesFor(c, v, n - 1)
        <5>1. \A i \in DOMAIN Lines[c] : Lines[c][i].variant = v => (i <= n <=> i <= n - 1)
          <6>1. \A i \in DOMAIN Lines[c] : i \in Int /\ (Lines[c][i].variant = v => i # n)
            BY <1>1, <2>2, <3>5, StockFinite
          <6>2. n \in Int
            BY <1>1
          <6> HIDE DEF n, c
          <6>3. QED
            BY <6>1, <6>2
        <5> HIDE DEF n, c
        <5>2. QED
          BY <5>1 DEF LinesFor
      <4>3. SumFunctionOnSet(tx[p].moves, RowsFor(v)) = SumFunctionOnSet(tx'[p].moves, RowsFor(v))
        BY <4>1, StockFinite, SumSame
      <4>4. QED
        BY <3>1, <4>2, <4>3
    <3>6. QED
      BY <3>4, <3>5
  <2>4. pc'[p] # "create.reserve" /\ call'[p].cart = c
    BY <1>2, <1>5
  <2>5. QED
    BY <1>2, <2>1, <2>3, <2>4 DEF LineInv
<1>12. QED
  BY <1>2, <1>6, <1>9, <1>10, <1>11, LocalStock DEF RequestStock

-----------------------------------------------------------------------------
(* cancelOrder, deliverOrder and returnOrder before their commits.         *)

LEMMA MarkStock ==
  ASSUME Invariant, StockInv, NEW p \in Requests,
         CancelMark(p) \/ DeliverMark(p) \/ ReturnMark(p)
  PROVE  StockInv'
<1>1. CASE Done(p) /\ UNCHANGED tables
  BY <1>1, GivenUp
<1>2. ASSUME NEW ref \in Reference, NEW next \in {"cancel.stock", "deliver.stock", "return.stock"},
             SettleMark(p, pc[p], ref, next), ~Done(p),
             \/ pc[p] = "cancel.mark" /\ next = "cancel.stock" /\ ref = "ORDER"
             \/ pc[p] = "deliver.mark" /\ next = "deliver.stock" /\ ref = "ORDER"
             \/ pc[p] = "return.mark" /\ next = "return.stock" /\ ref = "ORDER_DELIVERY"
      PROVE  StockInv'
  <2> DEFINE o == call[p].order
  <2>1. /\ UNCHANGED <<call, seen, tables>> /\ pc' = [pc EXCEPT ![p] = next]
        /\ tx' = [tx EXCEPT ![p].todo = RowsOf(ref, o)]
    BY <1>2 DEF SettleMark, Goto
  <2>2. tx[p] = NoTx /\ ("cancel" \notin Ops => pc[p] \notin CancelLabels)
    BY <1>2 DEF StockInv, TodoInv, Numbered, SettleLabels, Writing
  <2>3. /\ tx'[p].todo = RowsOf(ref, o) /\ tx'[p].stock = NoTx.stock /\ tx'[p].moves = NoTx.moves
        /\ \A q \in Requests \ {p} : tx'[q] = tx[q]
    BY <2>1, <2>2 DEF Invariant, TypeOK, TxType
  <2>4. pc'[p] = next /\ call'[p] = call[p] /\ OthersKeep(p)
    BY <2>1, <2>3 DEF Invariant, TypeOK, OthersKeep
  <2>5. \A s \in Stocks : tx'[p].stock[s] = Clean /\ tx'[p].moves[s] = 0
    BY <2>3 DEF NoTx
  <2>6. \A s \in Stocks : VersionInv(p, s)'
    BY <2>5 DEF VersionInv
  <2>7. TodoInv(p)'
    <3>1. o \in OrderIds
      BY <1>2 DEF Invariant, RequestInv, OnOrder, CancelLabels, DeliverLabels, ReturnLabels
    <3>2. RefOf(p)' = ref
      BY <1>2, <2>4 DEF RefOf, ReturnLabels
    <3>3. \A s \in Stocks : s \notin RowsOf(ref, o) => moved[ref][o][s] = 0
      <4>1. moved[ref][o] \in [Stocks -> Nat]
        BY <3>1, MovedTyped
      <4>2. QED
        BY <4>1 DEF RowsOf
    <3>4. moved' = moved
      BY <2>1 DEF tables
    <3>5. QED
      BY <1>2, <2>2, <2>3, <2>4, <2>5, <3>2, <3>3, <3>4 DEF TodoInv, Writing, CancelLabels,
         SettleLabels
  <2>8. LineInv(p)'
    BY <1>2, <2>4 DEF LineInv, Numbered
  <2>9. QED
    BY <2>1, <2>4, <2>6, <2>7, <2>8, LocalStock DEF RequestStock
<1>3. QED
  BY <1>1, <1>2 DEF CancelMark, DeliverMark, ReturnMark, SettleMark, Reference

LEMMA ReadStock ==
  ASSUME Invariant, StockInv, NEW p \in Requests,
         CancelRead(p) \/ DeliverRead(p) \/ ReturnRead(p)
  PROVE  StockInv'
<1>1. CASE Done(p) /\ UNCHANGED tables
  BY <1>1, GivenUp
<1>2. ASSUME NEW s \in tx[p].todo, NEW next \in Writing, SettleRead(p, s, next),
             \/ pc[p] = "cancel.stock" /\ next = "cancel.write"
             \/ pc[p] = "deliver.stock" /\ next = "deliver.write"
             \/ pc[p] = "return.stock" /\ next = "return.write"
      PROVE  StockInv'
  <2>1. /\ UNCHANGED <<call, tx, tables>> /\ pc'[p] = next /\ OthersKeep(p)
        /\ seen'[p].stock = s
    BY <1>2 DEF SettleRead, Goto, Invariant, TypeOK, SeenType, OthersKeep
  <2>2. TodoInv(p) /\ \A t \in Stocks : VersionInv(p, t)
    BY DEF StockInv
  <2>3. pc[p] \notin Numbered /\ pc'[p] \notin Numbered
    BY <1>2, <2>1 DEF Numbered
  <2>4. \A t \in Stocks : VersionInv(p, t)'
    <3>1. /\ pc[p] \in CancelLabels <=> pc'[p] \in CancelLabels
          /\ pc[p] \in DeliverLabels <=> pc'[p] \in DeliverLabels
          /\ pc[p] \in ReturnLabels <=> pc'[p] \in ReturnLabels
      BY <1>2, <2>1 DEF CancelLabels, DeliverLabels, ReturnLabels
    <3>2. QED
      BY <2>1, <2>2, <2>3, <3>1 DEF VersionInv, tables
  <2>5. TodoInv(p)'
    <3>1. RefOf(p)' = RefOf(p)
      BY <1>2, <2>1 DEF RefOf, ReturnLabels
    <3>2. pc[p] \in SettleLabels /\ pc'[p] \in SettleLabels
      BY <1>2, <2>1 DEF SettleLabels
    <3>3. "cancel" \notin Ops => pc'[p] \notin CancelLabels
      BY <1>2, <2>1, <2>2 DEF TodoInv, CancelLabels
    <3>4. QED
      BY <2>1, <2>2, <3>1, <3>2, <3>3 DEF TodoInv, tables
  <2>6. LineInv(p)'
    BY <1>2, <2>1, <2>3 DEF LineInv, Writing
  <2>7. QED
    BY <2>1, <2>4, <2>5, <2>6, LocalStock DEF RequestStock
<1>3. QED
  BY <1>1, <1>2 DEF CancelRead, DeliverRead, ReturnRead, Writing

(* Settling a row, that the request had not written, moves what the        *)
(* order's movements say.                                                  *)
LEMMA WrittenStock ==
  ASSUME Invariant, StockInv, NEW p \in Requests,
         CancelWrite(p) \/ DeliverWrite(p) \/ ReturnWrite(p)
  PROVE  StockInv'
<1> DEFINE o == call[p].order
           s == seen[p].stock
           q == moved[RefOf(p)][o][s]
<1>1. /\ pc[p] \in Writing /\ s \in Stocks /\ o \in OrderIds /\ RefOf(p) \in Reference
      /\ s \in tx[p].todo /\ tx[p].stock[s] = Clean /\ tx[p].moves[s] = 0
  <2>1. pc[p] \in Writing
    BY DEF CancelWrite, DeliverWrite, ReturnWrite, Writing
  <2>2. s \in Stocks /\ o \in OrderIds
    BY <2>1 DEF Invariant, RequestInv, Writing, WriteLabels, OnOrder, CancelLabels, DeliverLabels,
       ReturnLabels
  <2>3. TodoInv(p)
    BY DEF StockInv
  <2>4. s \in tx[p].todo /\ tx[p].stock[s] = Clean /\ tx[p].moves[s] = 0
    BY <2>1, <2>2, <2>3 DEF TodoInv, SettleLabels
  <2>5. RefOf(p) \in Reference
    BY DEF RefOf, Reference
  <2>6. QED
    BY <2>1, <2>2, <2>4, <2>5
<1>2. q \in Nat /\ stock[s] \in StockRow /\ View(p, s) = stock[s] /\ seen[p].row \in StockRow
  BY <1>1, MovedTyped DEF Invariant, TypeOK, SeenType, View
<1>3. "cancel" \notin Ops => /\ pc[p] \notin CancelLabels /\ stock[s].reserved <= stock[s].qty
  BY <1>1 DEF StockInv, TodoInv, NoOversell
<1>4. ~StockLocked(p, s) /\ UNCHANGED <<call, seen, tables>>
  BY DEF CancelWrite, DeliverWrite, ReturnWrite
<1>5. ASSUME NEW row, NEW next \in {"cancel.stock", "deliver.stock", "return.stock"},
             row \in StockRow, WriteStock(p, s, row, q), Goto(p, next),
             \/ /\ pc[p] = "cancel.write" /\ next = "cancel.stock"
                /\ row.qty = stock[s].qty
             \/ /\ pc[p] = "deliver.write" /\ next = "deliver.stock"
                /\ row.qty = stock[s].qty - q /\ row.reserved = stock[s].reserved - q
             \/ /\ pc[p] = "return.write" /\ next = "return.stock"
                /\ row.qty = stock[s].qty + q /\ row.reserved = stock[s].reserved
      PROVE  StockInv'
  <2>1. /\ tx'[p].stock = [tx[p].stock EXCEPT ![s] = row]
        /\ tx'[p].moves = [tx[p].moves EXCEPT ![s] = q]
        /\ tx'[p].todo = tx[p].todo \ {s}
        /\ \A r \in Requests \ {p} : tx'[r] = tx[r]
    <3> HIDE DEF s, q
    <3>1. tx \in [Requests -> TxType] /\ 0 + q = q
      BY <1>2 DEF Invariant, TypeOK
    <3>2. QED
      BY <1>1, <1>5, <3>1 DEF TxType, WriteStock
  <2>2. tx[p].stock \in [Stocks -> StockRow \cup {Clean}] /\ tx[p].moves \in [Stocks -> Nat]
    BY DEF Invariant, TypeOK, TxType
  <2>3. pc'[p] = next /\ OthersKeep(p)
    BY <1>4, <1>5, <2>1 DEF Goto, Invariant, TypeOK, OthersKeep
  <2>4. pc[p] \notin Numbered /\ pc'[p] \notin Numbered
    BY <1>5, <2>3 DEF Numbered
  <2>5. /\ pc[p] \in CancelLabels <=> pc'[p] \in CancelLabels
        /\ pc[p] \in DeliverLabels <=> pc'[p] \in DeliverLabels
        /\ pc[p] \in ReturnLabels <=> pc'[p] \in ReturnLabels
    BY <1>5, <2>3 DEF CancelLabels, DeliverLabels, ReturnLabels
  <2>6. ASSUME NEW t \in Stocks
        PROVE  VersionInv(p, t)'
    <3>1. CASE t # s
      <4>1. tx'[p].stock[t] = tx[p].stock[t] /\ tx'[p].moves[t] = tx[p].moves[t]
        BY <2>1, <2>2, <3>1
      <4>2. VersionInv(p, t) /\ stock'[t] = stock[t]
        BY <1>4 DEF StockInv, tables
      <4>3. QED
        BY <2>1, <2>4, <2>5, <4>1, <4>2 DEF VersionInv
    <3>2. CASE t = s
      <4>1. tx'[p].stock[s] = row /\ tx'[p].moves[s] = q /\ row # Clean /\ stock'[s] = stock[s]
        BY <1>1, <1>4, <1>5, <2>1, <2>2, CleanAssumption DEF tables
      <4>2. \A r \in Requests \ {p} : tx'[r].stock[s] = Clean
        BY <1>4, <2>1 DEF StockLocked
      <4>3. /\ pc'[p] \in CancelLabels => row.qty = stock[s].qty
            /\ pc'[p] \in DeliverLabels =>
                 row.qty = stock[s].qty - q /\ row.reserved = stock[s].reserved - q
            /\ pc'[p] \in ReturnLabels =>
                 row.qty = stock[s].qty + q /\ row.reserved = stock[s].reserved
        BY <1>5, <2>3 DEF CancelLabels, DeliverLabels, ReturnLabels
      <4>4. "cancel" \notin Ops => row.reserved <= row.qty
        <5> HIDE DEF s, q
        <5>1. SUFFICES ASSUME "cancel" \notin Ops
                       PROVE  row.reserved <= row.qty
          OBVIOUS
        <5>2. stock[s].reserved <= stock[s].qty /\ stock[s].reserved \in Nat /\ stock[s].qty \in Nat
          BY <1>2, <1>3, <5>1 DEF StockRow
        <5>3. pc[p] # "cancel.write"
          BY <1>3, <5>1 DEF CancelLabels
        <5>4. QED
          BY <1>2, <1>5, <5>2, <5>3
      <4> HIDE DEF s, q
      <4>5. QED
        BY <2>4, <3>2, <4>1, <4>2, <4>3, <4>4 DEF VersionInv
    <3>3. QED
      BY <3>1, <3>2
  <2>7. TodoInv(p)'
    <3>1. RefOf(p)' = RefOf(p)
      BY <2>5 DEF RefOf
    <3>2. pc[p] \in SettleLabels /\ pc'[p] \in SettleLabels /\ pc'[p] \notin Writing
      BY <1>1, <1>5, <2>3 DEF SettleLabels, Writing
    <3>3. "cancel" \notin Ops => pc'[p] \notin CancelLabels
      BY <1>3, <2>5
    <3>4. call'[p].order = o /\ moved' = moved
      BY <1>4 DEF tables
    <3>5. TodoInv(p)
      BY DEF StockInv
    <3>6. ASSUME NEW t \in Stocks
          PROVE  /\ tx'[p].moves[t] = IF t \in tx'[p].todo THEN 0 ELSE moved[RefOf(p)][o][t]
                 /\ t \in tx'[p].todo => tx'[p].stock[t] = Clean
      <4>1. CASE t # s
        BY <2>1, <2>2, <3>2, <3>5, <4>1 DEF TodoInv
      <4>2. CASE t = s
        BY <1>1, <2>1, <2>2, <4>2
      <4>3. QED
        BY <4>1, <4>2
    <3>7. QED
      BY <3>1, <3>2, <3>3, <3>4, <3>6 DEF TodoInv
  <2>8. LineInv(p)'
    BY <2>3, <2>4 DEF LineInv, Numbered
  <2>9. QED
    BY <1>4, <2>3, <2>6, <2>7, <2>8, LocalStock DEF RequestStock
<1>6. CASE CancelWrite(p)
  <2> DEFINE row == [View(p, s) EXCEPT !.reserved = Released(seen[p].row, q)]
  <2>1. RefOf(p) = "ORDER"
    BY <1>6 DEF CancelWrite, RefOf, ReturnLabels
  <2>2. WriteStock(p, s, row, q) /\ Goto(p, "cancel.stock") /\ pc[p] = "cancel.write"
    BY <1>6, <2>1 DEF CancelWrite
  <2>3. row \in StockRow /\ row.qty = stock[s].qty
    <3> HIDE DEF s, q
    <3>1. Released(seen[p].row, q) \in Nat
      BY <1>2 DEF StockRow, Released, Larger
    <3>2. QED
      BY <1>2, <3>1 DEF StockRow
  <2> HIDE DEF row
  <2>4. QED
    BY <1>5, <2>2, <2>3
<1>7. CASE DeliverWrite(p)
  <2> DEFINE row == [qty |-> seen[p].row.qty - q, reserved |-> seen[p].row.reserved - q]
  <2>1. RefOf(p) = "ORDER" /\ seen[p].row = stock[s]
    BY <1>2, <1>7 DEF DeliverWrite, RefOf, ReturnLabels, RowAsSeen
  <2>2. WriteStock(p, s, row, q) /\ Goto(p, "deliver.stock") /\ pc[p] = "deliver.write"
    BY <1>7, <2>1 DEF DeliverWrite
  <2>3. q <= seen[p].row.qty /\ q <= seen[p].row.reserved
    BY <2>1, <2>2 DEF Invariant, RequestInv, SettleInv
  <2>4. row \in StockRow /\ row.qty = stock[s].qty - q /\ row.reserved = stock[s].reserved - q
    <3> HIDE DEF s, q
    <3>1. QED
      BY <1>2, <2>1, <2>3 DEF StockRow
  <2> HIDE DEF row
  <2>5. QED
    BY <1>5, <2>2, <2>4
<1>8. CASE ReturnWrite(p)
  <2> DEFINE row == [View(p, s) EXCEPT !.qty = seen[p].row.qty + q]
  <2>1. RefOf(p) = "ORDER_DELIVERY" /\ seen[p].row.qty = stock[s].qty
    BY <1>2, <1>8 DEF ReturnWrite, RefOf, ReturnLabels, QtyAsSeen
  <2>2. WriteStock(p, s, row, q) /\ Goto(p, "return.stock") /\ pc[p] = "return.write"
    BY <1>8, <2>1 DEF ReturnWrite
  <2>3. row \in StockRow /\ row.qty = stock[s].qty + q /\ row.reserved = stock[s].reserved
    <3> HIDE DEF s, q
    <3>1. QED
      BY <1>2, <2>1 DEF StockRow
  <2> HIDE DEF row
  <2>4. QED
    BY <1>5, <2>2, <2>3
<1>9. QED
  BY <1>6, <1>7, <1>8

-----------------------------------------------------------------------------
(* The commits: the rows change by what the request moved, and the         *)
(* movements of its order by the same amount.                              *)

LEMMA Committed ==
  ASSUME Invariant, StockInv, NEW p \in Requests, NEW o \in OrderIds, NEW ref \in Reference,
         CommitStock(p, ref, o)
  PROVE  /\ \A s \in Stocks : stock'[s] = View(p, s)
         /\ \A s \in Stocks : moved'[ref][o][s] = moved[ref][o][s] + tx[p].moves[s]
         /\ \A r \in Reference, u \in OrderIds :
              r # ref \/ u # o => moved'[r][u] = moved[r][u]
         /\ \A r \in Reference, u \in OrderIds :
              moved[r][u] \in [Stocks -> Nat] /\ moved'[r][u] \in [Stocks -> Nat]
<1>1. moved \in [Reference -> [OrderIds -> [Stocks -> Nat]]]
  BY DEF Invariant, TypeOK
<1>2. moved' \in [Reference -> [OrderIds -> [Stocks -> Nat]]]
  BY CommitStockTyped
<1> DEFINE row == [s \in Stocks |-> moved[ref][o][s] + tx[p].moves[s]]
<1>3. moved' = [moved EXCEPT ![ref] = [moved[ref] EXCEPT ![o] = row]]
  BY DEF CommitStock
<1>4. \A s \in Stocks : row[s] = moved[ref][o][s] + tx[p].moves[s]
  OBVIOUS
<1> HIDE DEF row
<1>5. /\ moved'[ref][o] = row
      /\ \A r \in Reference, u \in OrderIds : r # ref \/ u # o => moved'[r][u] = moved[r][u]
  BY <1>1, <1>3
<1>6. QED
  BY <1>1, <1>2, <1>4, <1>5 DEF CommitStock

LEMMA CommitOthers ==
  ASSUME Invariant, StockInv, NEW p \in Requests, NEW o \in OrderIds, NEW ref \in Reference,
         CommitStock(p, ref, o), o = call[p].order, pc[p] \in HoldsOrder,
         OthersKeep(p), tx'[p] = NoTx
  PROVE  \A q \in Requests \ {p} : RequestStock(q)'
<1>1. RowsKeep(p)
  <2> SUFFICES ASSUME NEW q \in Requests \ {p}, NEW s \in Stocks, tx[q].stock[s] # Clean
               PROVE  stock'[s] = stock[s] /\ tx'[p].stock[s] = Clean
    BY DEF RowsKeep
  <2>1. VersionInv(q, s)
    BY DEF StockInv
  <2>2. tx[p].stock[s] = Clean
    BY <2>1 DEF VersionInv
  <2>3. QED
    BY <2>2, Committed DEF View, NoTx
<1>2. MovesKeep(p)
  <2> SUFFICES ASSUME NEW q \in Requests \ {p}, pc[q] \in SettleLabels
               PROVE  moved'[RefOf(q)][call[q].order] = moved[RefOf(q)][call[q].order]
    BY DEF MovesKeep
  <2>1. pc[q] \in HoldsOrder /\ pc[q] \in OnOrder
    BY DEF SettleLabels, Writing, HoldsOrder, OnOrder, CancelLabels, DeliverLabels, ReturnLabels
  <2>2. call[q].order # o /\ call[q].order \in OrderIds
    BY <2>1 DEF Invariant, OneHolder, RequestInv
  <2>3. RefOf(q) \in Reference
    BY DEF RefOf, Reference
  <2>4. QED
    BY <2>2, <2>3, Committed
<1>3. QED
  BY <1>1, <1>2, OthersStock

LEMMA SumOfOrders ==
  ASSUME NEW f \in [OrderIds -> Int], NEW g \in [OrderIds -> Int], NEW o \in OrderIds,
         \A u \in OrderIds \ {o} : g[u] = f[u]
  PROVE  /\ SumFunction(g) = SumFunction(f) + (g[o] - f[o])
         /\ SumFunction(f) \in Int /\ SumFunction(g) \in Int
<1>1. SumFunction(f) = SumFunctionOnSet(f, OrderIds) /\ SumFunction(g) = SumFunctionOnSet(g, OrderIds)
  BY DEF SumFunction, SumFunctionOnSet, FoldFunction
<1>2. QED
  BY <1>1, StockFinite, SumInt, SumChange

(* What a commit makes of the sums over the orders, for one row.           *)
Sold(s) == [u \in OrderIds |-> Units("ORDER_DELIVERY", u, s) - Units("ORDER_RETURN", u, s)]
Held(s) == [u \in OrderIds |-> Units("ORDER", u, s) - Units("ORDER_DELIVERY", u, s)
                                 - Units("ORDER_CANCEL", u, s)]

LEMMA SumsCommitted ==
  ASSUME Invariant, StockInv, NEW p \in Requests, NEW o \in OrderIds, NEW ref \in Reference,
         CommitStock(p, ref, o), NEW s \in Stocks
  PROVE  /\ SumFunction(Sold(s)') = SumFunction(Sold(s)) +
              (IF ref = "ORDER_DELIVERY" THEN tx[p].moves[s]
               ELSE IF ref = "ORDER_RETURN" THEN 0 - tx[p].moves[s] ELSE 0)
         /\ SumFunction(Held(s)') = SumFunction(Held(s)) +
              (IF ref = "ORDER" THEN tx[p].moves[s]
               ELSE IF ref \in {"ORDER_DELIVERY", "ORDER_CANCEL"} THEN 0 - tx[p].moves[s] ELSE 0)
         /\ SumFunction(Sold(s)) \in Int /\ SumFunction(Held(s)) \in Int
<1>1. \A r \in Reference, u \in OrderIds : moved[r][u][s] \in Nat /\ moved'[r][u][s] \in Nat
  BY Committed
<1>2. \A r \in Reference, u \in OrderIds : r # ref \/ u # o => moved'[r][u][s] = moved[r][u][s]
  BY Committed
<1>3. moved'[ref][o][s] = moved[ref][o][s] + tx[p].moves[s] /\ tx[p].moves[s] \in Nat
  BY Committed, OwnView
<1>4. /\ "ORDER" \in Reference /\ "ORDER_DELIVERY" \in Reference
      /\ "ORDER_RETURN" \in Reference /\ "ORDER_CANCEL" \in Reference
  BY DEF Reference
<1>5. /\ Sold(s) \in [OrderIds -> Int] /\ Sold(s)' \in [OrderIds -> Int]
      /\ Held(s) \in [OrderIds -> Int] /\ Held(s)' \in [OrderIds -> Int]
  BY <1>1, <1>4 DEF Sold, Held, Units
<1>6. \A u \in OrderIds \ {o} : Sold(s)'[u] = Sold(s)[u] /\ Held(s)'[u] = Held(s)[u]
  BY <1>2, <1>4 DEF Sold, Held, Units
<1>7. Sold(s)'[o] - Sold(s)[o] =
        (IF ref = "ORDER_DELIVERY" THEN tx[p].moves[s]
         ELSE IF ref = "ORDER_RETURN" THEN 0 - tx[p].moves[s] ELSE 0)
  <2>1. /\ Sold(s)'[o] = moved'["ORDER_DELIVERY"][o][s] - moved'["ORDER_RETURN"][o][s]
        /\ Sold(s)[o] = moved["ORDER_DELIVERY"][o][s] - moved["ORDER_RETURN"][o][s]
    BY DEF Sold, Units
  <2>2. QED
    BY <1>1, <1>2, <1>3, <1>4, <2>1
<1>8. Held(s)'[o] - Held(s)[o] =
        (IF ref = "ORDER" THEN tx[p].moves[s]
         ELSE IF ref \in {"ORDER_DELIVERY", "ORDER_CANCEL"} THEN 0 - tx[p].moves[s] ELSE 0)
  <2>1. /\ Held(s)'[o] = moved'["ORDER"][o][s] - moved'["ORDER_DELIVERY"][o][s]
                           - moved'["ORDER_CANCEL"][o][s]
        /\ Held(s)[o] = moved["ORDER"][o][s] - moved["ORDER_DELIVERY"][o][s]
                           - moved["ORDER_CANCEL"][o][s]
    BY DEF Held, Units
  <2>2. QED
    BY <1>1, <1>2, <1>3, <1>4, <2>1
<1>9. /\ SumFunction(Sold(s)') = SumFunction(Sold(s)) + (Sold(s)'[o] - Sold(s)[o])
      /\ SumFunction(Held(s)') = SumFunction(Held(s)) + (Held(s)'[o] - Held(s)[o])
      /\ SumFunction(Sold(s)) \in Int /\ SumFunction(Held(s)) \in Int
  BY <1>5, <1>6, SumOfOrders
<1>10. QED
  BY <1>7, <1>8, <1>9

(* What a commit makes of the columns of a row.                            *)
LEMMA ColumnsCommitted ==
  ASSUME Invariant, StockInv, NEW p \in Requests, NEW o \in OrderIds, NEW ref \in Reference,
         CommitStock(p, ref, o), NEW s \in Stocks, NEW d \in Int, NEW h \in Int,
         stock'[s].qty = stock[s].qty - d,
         SumFunction(Sold(s)') = SumFunction(Sold(s)) + d,
         "cancel" \notin Ops => stock'[s].reserved = stock[s].reserved + h,
         SumFunction(Held(s)') = SumFunction(Held(s)) + h
  PROVE  /\ stock'[s].qty = InitialQty[s] - SumFunction(Sold(s)')
         /\ "cancel" \notin Ops => stock'[s].reserved = SumFunction(Held(s)')
         /\ "cancel" \notin Ops => stock'[s].reserved <= stock'[s].qty
<1>1. SumFunction(Sold(s)) \in Int /\ SumFunction(Held(s)) \in Int /\ InitialQty[s] \in Nat
  BY SumsCommitted, StockAssumption
<1>2. stock[s].qty = InitialQty[s] - SumFunction(Sold(s))
  BY DEF StockInv, QuantityMatchesMovements, Sold
<1>3. "cancel" \notin Ops => stock[s].reserved = SumFunction(Held(s))
  BY DEF StockInv, ReservedMatchesOrders, Held
<1>4. "cancel" \notin Ops => View(p, s).reserved <= View(p, s).qty
  BY DEF StockInv, VersionInv, NoOversell, View
<1>5. stock'[s] = View(p, s)
  BY Committed
<1>6. QED
  BY <1>1, <1>2, <1>3, <1>4, <1>5

LEMMA ColumnsKept ==
  ASSUME \A s \in Stocks :
           /\ stock'[s].qty = InitialQty[s] - SumFunction(Sold(s)')
           /\ "cancel" \notin Ops => stock'[s].reserved = SumFunction(Held(s)')
           /\ "cancel" \notin Ops => stock'[s].reserved <= stock'[s].qty
  PROVE  /\ QuantityMatchesMovements'
         /\ "cancel" \notin Ops => ReservedMatchesOrders' /\ NoOversell'
BY DEF QuantityMatchesMovements, ReservedMatchesOrders, NoOversell, Sold, Held

(* The commit of createOrder: the new order's movements are those of its   *)
(* lines, and the rows are reserved by as much.                            *)
LEMMA CloseStock ==
  ASSUME Invariant, StockInv, NEW p \in Requests, CreateClose(p)
  PROVE  StockInv'
<1>0. PICK o \in OrderIds, c \in Carts :
        /\ o = call[p].order /\ c = call[p].cart /\ ~Exists(o) /\ pc[p] = "create.close"
  BY DEF CreateClose, Invariant, RequestInv, CreateInv, Numbered
<1>1. /\ status' = [status EXCEPT ![o] = "PENDING"] /\ source' = [source EXCEPT ![o] = c]
      /\ CommitStock(p, "ORDER", o) /\ "ORDER" \in Reference
      /\ pc' = [pc EXCEPT ![p] = "create.invoice"]
      /\ tx' = [tx EXCEPT ![p] = NoTx] /\ seen' = [seen EXCEPT ![p] = NothingSeen]
      /\ call' = call
  BY <1>0 DEF CreateClose, Goto, Reference
<1>2. /\ OthersKeep(p) /\ tx'[p] = NoTx /\ pc'[p] = "create.invoice"
      /\ status'[o] = "PENDING" /\ source'[o] = c
      /\ \A u \in OrderIds \ {o} : status'[u] = status[u] /\ source'[u] = source[u]
  BY <1>0, <1>1 DEF Invariant, TypeOK, OthersKeep
<1>3. RequestStock(p)'
  BY <1>2, EmptyTx DEF Numbered, SettleLabels, Writing, CancelLabels
<1>4. \A q \in Requests \ {p} : RequestStock(q)'
  <2>1. pc[p] \in HoldsOrder
    BY <1>0 DEF HoldsOrder
  <2>2. QED
    BY <1>0, <1>1, <1>2, <2>1, CommitOthers
<1>5. /\ \A s \in Stocks : moved'["ORDER"][o][s] = moved["ORDER"][o][s] + tx[p].moves[s]
      /\ \A r \in Reference, u \in OrderIds :
           r # "ORDER" \/ u # o => moved'[r][u] = moved[r][u]
  BY <1>1, Committed
<1>6. \A s \in Stocks : moved["ORDER"][o][s] = 0 /\ tx[p].moves[s] \in Nat
  BY <1>0, OwnView DEF StockInv, MovementInv, Units
<1>7. \A u \in OrderIds : MovementInv(u)'
  BY <1>1, <1>2, <1>5 DEF StockInv, MovementInv, Units, Exists
<1>8. SettledOnce'
  <2> SUFFICES ASSUME NEW u \in OrderIds, NEW s \in Stocks
               PROVE  /\ Units("ORDER_CANCEL", u, s)' =
                           IF status'[u] = "CANCELLED" THEN Units("ORDER", u, s)' ELSE 0
                      /\ Units("ORDER_DELIVERY", u, s)' =
                           IF status'[u] \in {"DELIVERED", "RETURNED"}
                           THEN Units("ORDER", u, s)' ELSE 0
                      /\ Units("ORDER_RETURN", u, s)' =
                           IF status'[u] = "RETURNED" THEN Units("ORDER", u, s)' ELSE 0
    BY DEF SettledOnce
  <2>1. \A r \in Reference \ {"ORDER"} : moved'[r][u] = moved[r][u]
    BY <1>5
  <2>2. SettledOnce
    BY DEF StockInv
  <2>3. CASE u = o
    BY <1>0, <1>2, <2>1, <2>2, <2>3 DEF SettledOnce, Units, Reference, Exists
  <2>4. CASE u # o
    BY <1>1, <1>2, <1>5, <2>1, <2>2, <2>4 DEF SettledOnce, Units, Reference
  <2>5. QED
    BY <2>3, <2>4
<1>9. LinesReserved'
  <2> SUFFICES ASSUME NEW u \in OrderIds, NEW v \in {VariantOf[s] : s \in Stocks}
               PROVE  SumFunctionOnSet(moved'["ORDER"][u], {s \in Stocks : VariantOf[s] = v}) =
                        IF Exists(u)'
                        THEN LET lines == Lines[source'[u]]
                             IN SumFunctionOnSet([i \in DOMAIN lines |-> lines[i].qty],
                                                 {i \in DOMAIN lines : lines[i].variant = v})
                        ELSE 0
    BY DEF LinesReserved
  <2>1. CASE u # o
    <3>1. moved'["ORDER"][u] = moved["ORDER"][u] /\ (Exists(u)' <=> Exists(u))
          /\ source'[u] = source[u]
      BY <1>1, <1>2, <1>5, <2>1 DEF Exists
    <3>2. LinesReserved
      BY DEF StockInv
    <3> DEFINE ordered(d) == LET lines == Lines[d]
                             IN SumFunctionOnSet([i \in DOMAIN lines |-> lines[i].qty],
                                                 {i \in DOMAIN lines : lines[i].variant = v})
    <3>3. SumFunctionOnSet(moved["ORDER"][u], {s \in Stocks : VariantOf[s] = v}) =
            IF Exists(u) THEN ordered(source[u]) ELSE 0
      BY <3>2 DEF LinesReserved
    <3> HIDE DEF ordered
    <3>4. SumFunctionOnSet(moved'["ORDER"][u], {s \in Stocks : VariantOf[s] = v}) =
            IF Exists(u)' THEN ordered(source'[u]) ELSE 0
      BY <3>1, <3>3
    <3>5. QED
      BY <3>4 DEF ordered
  <2>2. CASE u = o
    <3> DEFINE lines == Lines[c]
               qtys == [i \in DOMAIN lines |-> lines[i].qty]
               mine == {i \in DOMAIN lines : lines[i].variant = v}
    <3>1. SumFunctionOnSet(tx[p].moves, RowsFor(v)) =
            SumFunctionOnSet(Quantities(c), LinesFor(c, v, Len(lines)))
      BY <1>0 DEF StockInv, LineInv, Numbered, LinesDone
    <3>2. Quantities(c) = qtys
      BY DEF Quantities
    <3>3. LinesFor(c, v, Len(lines)) = mine
      <4>1. \A i \in DOMAIN lines : i <= Len(lines)
        BY <1>0, StockFinite, ConstantTypes
      <4>2. QED
        BY <4>1 DEF LinesFor
    <3>4. \A s \in RowsFor(v) : tx[p].moves[s] = moved'["ORDER"][o][s]
      BY <1>5, <1>6 DEF RowsFor
    <3>5. SumFunctionOnSet(tx[p].moves, RowsFor(v)) =
            SumFunctionOnSet(moved'["ORDER"][o], RowsFor(v))
      BY <3>4, StockFinite, SumSame
    <3>6. RowsFor(v) = {s \in Stocks : VariantOf[s] = v} /\ Exists(o)'
      BY <1>2 DEF RowsFor, Exists
    <3> HIDE DEF qtys, mine
    <3>7. SumFunctionOnSet(moved'["ORDER"][o], {s \in Stocks : VariantOf[s] = v}) =
            SumFunctionOnSet(qtys, mine)
      BY <3>1, <3>2, <3>3, <3>5, <3>6
    <3>8. QED
      BY <1>2, <2>2, <3>6, <3>7 DEF qtys, mine
  <2>3. QED
    BY <2>1, <2>2
<1>10. ASSUME NEW s \in Stocks
       PROVE  /\ stock'[s].qty = InitialQty[s] - SumFunction(Sold(s)')
              /\ "cancel" \notin Ops => stock'[s].reserved = SumFunction(Held(s)')
              /\ "cancel" \notin Ops => stock'[s].reserved <= stock'[s].qty
  <2>1. pc[p] \in Numbered
    BY <1>0 DEF Numbered
  <2>2. /\ View(p, s).qty = stock[s].qty
        /\ View(p, s).reserved = stock[s].reserved + tx[p].moves[s]
        /\ stock[s] \in StockRow /\ tx[p].moves[s] \in Nat
    BY <2>1, OwnView
  <2>3. stock'[s] = View(p, s)
    BY <1>1, Committed
  <2>4. /\ SumFunction(Sold(s)') = SumFunction(Sold(s)) + 0
        /\ SumFunction(Held(s)') = SumFunction(Held(s)) + tx[p].moves[s]
    BY <1>1, SumsCommitted
  <2>5. stock'[s].qty = stock[s].qty - 0 /\ 0 \in Int /\ tx[p].moves[s] \in Int
    BY <2>2, <2>3 DEF StockRow
  <2>6. QED
    BY <1>1, <2>2, <2>3, <2>4, <2>5, ColumnsCommitted
<1>11. QED
  BY <1>3, <1>4, <1>7, <1>8, <1>9, <1>10, ColumnsKept DEF StockInv, RequestStock

(* The commit of a settlement.                                             *)
LEMMA SettledStock ==
  ASSUME Invariant, StockInv, NEW p \in Requests, NEW o \in OrderIds, o = call[p].order,
         NEW ref \in Reference, NEW to, tx[p].todo = {},
         \/ pc[p] = "cancel.stock" /\ ref = "ORDER_CANCEL" /\ to = "CANCELLED"
         \/ pc[p] = "deliver.stock" /\ ref = "ORDER_DELIVERY" /\ to = "DELIVERED"
         \/ pc[p] = "return.stock" /\ ref = "ORDER_RETURN" /\ to = "RETURNED",
         CommitStock(p, ref, o), Done(p), status' = [status EXCEPT ![o] = to],
         source' = source
  PROVE  StockInv'
<1>1. OthersKeep(p) /\ tx'[p] = NoTx /\ pc'[p] = "idle"
  BY DoneOthers
<1>2. RequestStock(p)'
  BY <1>1, EmptyTx DEF Numbered, SettleLabels, Writing, CancelLabels
<1>3. \A q \in Requests \ {p} : RequestStock(q)'
  <2>1. pc[p] \in HoldsOrder
    BY DEF HoldsOrder
  <2>2. QED
    BY <1>1, <2>1, CommitOthers
<1>4. /\ status'[o] = to /\ \A u \in OrderIds \ {o} : status'[u] = status[u]
  BY DEF Invariant, TypeOK
<1>5. /\ \A s \in Stocks : moved'[ref][o][s] = moved[ref][o][s] + tx[p].moves[s]
      /\ \A r \in Reference, u \in OrderIds :
           r # ref \/ u # o => moved'[r][u] = moved[r][u]
      /\ \A r \in Reference, u \in OrderIds : moved[r][u] \in [Stocks -> Nat]
  BY Committed
<1>6. ref # "ORDER" /\ "ORDER" \in Reference
  BY DEF Reference
<1>7. Exists(o) /\ \A u \in OrderIds : Exists(u)' <=> Exists(u)
  <2>1. Exists(o)
    BY DEF Invariant, RequestInv, OnOrder, CancelLabels, DeliverLabels, ReturnLabels
  <2>2. QED
    BY <1>4, <2>1 DEF Exists
<1>8. moved'["ORDER"] = moved["ORDER"]
  BY <1>6, CommitStockTyped
<1>9. \A u \in OrderIds : MovementInv(u)'
  BY <1>7, <1>8 DEF StockInv, MovementInv, Units
<1>10. LinesReserved'
  <2> SUFFICES ASSUME NEW u \in OrderIds, NEW v \in {VariantOf[s] : s \in Stocks}
               PROVE  SumFunctionOnSet(moved'["ORDER"][u], {s \in Stocks : VariantOf[s] = v}) =
                        IF Exists(u)'
                        THEN LET lines == Lines[source'[u]]
                             IN SumFunctionOnSet([i \in DOMAIN lines |-> lines[i].qty],
                                                 {i \in DOMAIN lines : lines[i].variant = v})
                        ELSE 0
    BY DEF LinesReserved
  <2>1. LinesReserved /\ (Exists(u)' <=> Exists(u))
    BY <1>7 DEF StockInv
  <2>2. QED
    BY <1>8, <2>1 DEF LinesReserved
<1>11. \A s \in Stocks :
         tx[p].moves[s] = moved[IF pc[p] = "return.stock" THEN "ORDER_DELIVERY" ELSE "ORDER"][o][s]
  <2>1. RefOf(p) = IF pc[p] = "return.stock" THEN "ORDER_DELIVERY" ELSE "ORDER"
    BY DEF RefOf, ReturnLabels
  <2>2. pc[p] \in SettleLabels /\ TodoInv(p)
    BY DEF StockInv, SettleLabels
  <2>3. QED
    BY <2>1, <2>2 DEF TodoInv
<1>12. SettledOnce'
  <2> SUFFICES ASSUME NEW u \in OrderIds, NEW s \in Stocks
               PROVE  /\ Units("ORDER_CANCEL", u, s)' =
                           IF status'[u] = "CANCELLED" THEN Units("ORDER", u, s)' ELSE 0
                      /\ Units("ORDER_DELIVERY", u, s)' =
                           IF status'[u] \in {"DELIVERED", "RETURNED"}
                           THEN Units("ORDER", u, s)' ELSE 0
                      /\ Units("ORDER_RETURN", u, s)' =
                           IF status'[u] = "RETURNED" THEN Units("ORDER", u, s)' ELSE 0
    BY DEF SettledOnce
  <2>1. SettledOnce
    BY DEF StockInv
  <2>2. CASE u # o
    BY <1>4, <1>5, <2>1, <2>2 DEF SettledOnce, Units, Reference
  <2>3. CASE u = o
    <3>1. /\ pc[p] = "cancel.stock" => status[o] \in Cancellable
          /\ pc[p] = "deliver.stock" => status[o] = "SHIPPED"
          /\ pc[p] = "return.stock" => status[o] = "DELIVERED"
      BY DEF Invariant, RequestInv, SettleInv
    <3>2. /\ moved["ORDER_CANCEL"][o][s] =
                IF status[o] = "CANCELLED" THEN moved["ORDER"][o][s] ELSE 0
          /\ moved["ORDER_DELIVERY"][o][s] =
                IF status[o] \in {"DELIVERED", "RETURNED"} THEN moved["ORDER"][o][s] ELSE 0
          /\ moved["ORDER_RETURN"][o][s] =
                IF status[o] = "RETURNED" THEN moved["ORDER"][o][s] ELSE 0
      BY <2>1 DEF SettledOnce, Units
    <3>3. moved["ORDER"][o][s] \in Nat
      BY <1>5, <1>6
    <3>4. moved[ref][o][s] = 0
      BY <3>1, <3>2 DEF Cancellable
    <3>5. tx[p].moves[s] = moved["ORDER"][o][s]
      BY <1>11, <3>1, <3>2
    <3>6. moved'[ref][o][s] = moved["ORDER"][o][s]
      BY <1>5, <3>3, <3>4, <3>5
    <3>7. \A r \in Reference \ {ref} : moved'[r][o] = moved[r][o]
      BY <1>5
    <3>8. QED
      BY <1>4, <1>8, <2>3, <3>1, <3>2, <3>6, <3>7 DEF Units, Reference, Cancellable
  <2>4. QED
    BY <2>2, <2>3
<1>13. ASSUME NEW s \in Stocks
       PROVE  /\ stock'[s].qty = InitialQty[s] - SumFunction(Sold(s)')
              /\ "cancel" \notin Ops => stock'[s].reserved = SumFunction(Held(s)')
              /\ "cancel" \notin Ops => stock'[s].reserved <= stock'[s].qty
  <2> DEFINE q == tx[p].moves[s]
  <2>1. /\ stock'[s] = View(p, s) /\ q \in Nat /\ stock[s] \in StockRow
        /\ tx[p].stock[s] = Clean => View(p, s) = stock[s] /\ q = 0
    BY Committed, OwnView
  <2>2. VersionInv(p, s) /\ ("cancel" \notin Ops => pc[p] \notin CancelLabels)
    BY DEF StockInv, TodoInv
  <2>3. /\ pc[p] = "cancel.stock" => View(p, s).qty = stock[s].qty
        /\ pc[p] = "deliver.stock" => /\ View(p, s).qty = stock[s].qty - q
                                      /\ View(p, s).reserved = stock[s].reserved - q
        /\ pc[p] = "return.stock" => /\ View(p, s).qty = stock[s].qty + q
                                     /\ View(p, s).reserved = stock[s].reserved
    <3>1. CASE tx[p].stock[s] = Clean
      BY <2>1, <3>1 DEF StockRow
    <3>2. CASE tx[p].stock[s] # Clean
      BY <2>2, <3>2 DEF VersionInv, View, CancelLabels, DeliverLabels, ReturnLabels
    <3>3. QED
      BY <3>1, <3>2
  <2>4. stock[s].qty \in Nat /\ stock[s].reserved \in Nat
    BY <2>1 DEF StockRow
  <2> HIDE DEF q
  <2>5. CASE pc[p] = "cancel.stock"
    <3>1. SumFunction(Sold(s)') = SumFunction(Sold(s)) + 0
          /\ SumFunction(Held(s)') = SumFunction(Held(s)) + (0 - q)
      BY <2>5, SumsCommitted DEF q
    <3>2. "cancel" \in Ops /\ stock'[s].qty = stock[s].qty - 0 /\ 0 \in Int /\ 0 - q \in Int
      BY <2>1, <2>2, <2>3, <2>4, <2>5 DEF CancelLabels
    <3>3. QED
      BY <3>1, <3>2, ColumnsCommitted
  <2>6. CASE pc[p] = "deliver.stock"
    <3>1. SumFunction(Sold(s)') = SumFunction(Sold(s)) + q
          /\ SumFunction(Held(s)') = SumFunction(Held(s)) + (0 - q)
      BY <2>6, SumsCommitted DEF q
    <3>2. /\ stock'[s].qty = stock[s].qty - q /\ q \in Int /\ 0 - q \in Int
          /\ stock'[s].reserved = stock[s].reserved + (0 - q)
      BY <2>1, <2>3, <2>4, <2>6
    <3>3. QED
      BY <3>1, <3>2, ColumnsCommitted
  <2>7. CASE pc[p] = "return.stock"
    <3>1. SumFunction(Sold(s)') = SumFunction(Sold(s)) + (0 - q)
          /\ SumFunction(Held(s)') = SumFunction(Held(s)) + 0
      BY <2>7, SumsCommitted DEF q
    <3>2. /\ stock'[s].qty = stock[s].qty - (0 - q) /\ 0 \in Int /\ 0 - q \in Int
          /\ stock'[s].reserved = stock[s].reserved + 0
      BY <2>1, <2>3, <2>4, <2>7
    <3>3. QED
      BY <3>1, <3>2, ColumnsCommitted
  <2>8. QED
    BY <2>5, <2>6, <2>7
<1>14. QED
  BY <1>2, <1>3, <1>9, <1>10, <1>12, <1>13, ColumnsKept DEF StockInv, RequestStock

-----------------------------------------------------------------------------
(* The invariant.                                                          *)

LEMMA SettlingStock ==
  ASSUME Invariant, StockInv, NEW p \in Requests, Settling(p)
  PROVE  StockInv'
<1>1. CASE DeliverConflict(p) \/ DeliverPaidMeanwhile(p) \/ ReturnConflict(p)
  BY <1>1, GivenUp DEF DeliverConflict, DeliverPaidMeanwhile, ReturnConflict
<1>2. CASE CancelCommit(p) \/ DeliverCommit(p) \/ DeliverCollect(p) \/ ReturnCommit(p)
  <2>1. PICK o \in OrderIds : o = call[p].order
    BY <1>2 DEF CancelCommit, DeliverCommit, DeliverCollect, ReturnCommit, Invariant, RequestInv,
       OnOrder, CancelLabels, DeliverLabels, ReturnLabels
  <2>2. \A ref \in {"ORDER_CANCEL", "ORDER_DELIVERY", "ORDER_RETURN"} : ref \in Reference
    BY DEF Reference
  <2>3. CASE CancelCommit(p)
    BY <2>1, <2>2, <2>3, SettledStock DEF CancelCommit
  <2>4. CASE DeliverCommit(p) \/ DeliverCollect(p)
    BY <2>1, <2>2, <2>4, SettledStock DEF DeliverCommit, DeliverCollect
  <2>5. CASE ReturnCommit(p) /\ UNCHANGED tables
    BY <2>5, GivenUp DEF ReturnCommit
  <2>6. CASE ReturnCommit(p) /\ ~UNCHANGED tables
    BY <2>1, <2>2, <2>6, SettledStock DEF ReturnCommit
  <2>7. QED
    BY <1>2, <2>3, <2>4, <2>5, <2>6
<1>3. QED
  BY <1>1, <1>2, MarkStock, ReadStock, WrittenStock DEF Settling

LEMMA CreatingStock ==
  ASSUME Invariant, StockInv, NEW p \in Requests, Creating(p)
  PROVE  StockInv'
<1>1. CASE CreateOutOfStock(p) \/ CreateReserveConflict(p) \/ CreateNumberClash(p)
             \/ CreateCartConflict(p)
  BY <1>1, GivenUp DEF CreateOutOfStock, CreateReserveConflict, CreateNumberClash,
     CreateCartConflict
<1>2. QED
  BY <1>1, NumberStock, PickStock, ReserveStock, InsertStock, CloseStock, UnrelatedStock
  DEF Creating

LEMMA InitStock == Init => StockInv
<1> SUFFICES ASSUME Init
             PROVE  StockInv
  OBVIOUS
<1>1. \A p \in Requests : pc[p] = "idle" /\ tx[p] = NoTx
  BY DEF Init
<1>2. \A s \in Stocks : NoTx.stock[s] = Clean /\ NoTx.moves[s] = 0
  BY DEF NoTx
<1>3. ASSUME NEW p \in Requests
      PROVE  (\A s \in Stocks : VersionInv(p, s)) /\ TodoInv(p) /\ LineInv(p)
  <2>1. pc[p] \notin Numbered \cup SettleLabels \cup CancelLabels
    BY <1>1 DEF Numbered, SettleLabels, Writing, CancelLabels
  <2>2. \A s \in Stocks : VersionInv(p, s)
    BY <1>1, <1>2 DEF VersionInv
  <2>3. QED
    BY <1>1, <2>1, <2>2 DEF TodoInv, LineInv, SettleLabels, Numbered
<1>4. \A r \in Reference, o \in OrderIds, s \in Stocks : moved[r][o][s] = 0
  BY DEF Init
<1>5. \A o \in OrderIds : status[o] = "NONE"
  BY DEF Init
<1>6. (\A o \in OrderIds : MovementInv(o)) /\ SettledOnce
  BY <1>4, <1>5 DEF MovementInv, SettledOnce, Units, Reference
<1>7. LinesReserved
  <2> SUFFICES ASSUME NEW o \in OrderIds, NEW v \in {VariantOf[s] : s \in Stocks}
               PROVE  SumFunctionOnSet(moved["ORDER"][o], {s \in Stocks : VariantOf[s] = v}) = 0
    BY <1>5 DEF LinesReserved, Exists
  <2>1. \A s \in RowsFor(v) : moved["ORDER"][o][s] = 0
    BY <1>4 DEF RowsFor, Reference
  <2>2. QED
    BY <2>1, StockFinite, SumZero DEF RowsFor
<1>8. ASSUME NEW s \in Stocks
      PROVE  /\ stock[s].qty = InitialQty[s] - SumFunction(Sold(s))
             /\ stock[s].reserved = SumFunction(Held(s))
             /\ stock[s].reserved <= stock[s].qty
  <2>1. \A o \in OrderIds : Sold(s)[o] = 0 /\ Held(s)[o] = 0
    BY <1>4 DEF Sold, Held, Units, Reference
  <2>2. /\ SumFunction(Sold(s)) = SumFunctionOnSet(Sold(s), OrderIds)
        /\ SumFunction(Held(s)) = SumFunctionOnSet(Held(s), OrderIds)
    BY DEF SumFunction, SumFunctionOnSet, FoldFunction, Sold, Held
  <2>3. SumFunction(Sold(s)) = 0 /\ SumFunction(Held(s)) = 0
    BY <2>1, <2>2, StockFinite, SumZero
  <2>4. stock[s].qty = InitialQty[s] /\ stock[s].reserved = 0 /\ InitialQty[s] \in Nat
    BY StockAssumption DEF Init
  <2>5. QED
    BY <2>3, <2>4
<1>9. QuantityMatchesMovements /\ ReservedMatchesOrders /\ NoOversell
  BY <1>8 DEF QuantityMatchesMovements, ReservedMatchesOrders, NoOversell, Sold, Held
<1>10. QED
  BY <1>3, <1>6, <1>7, <1>9 DEF StockInv

LEMMA NextStock == Invariant /\ StockInv /\ [Next]_vars => StockInv'
<1> SUFFICES ASSUME Invariant, StockInv, [Next]_vars
             PROVE  StockInv'
  OBVIOUS
<1>1. ASSUME NEW p \in Requests, Starting(p) \/ Statement(p) \/ Fail(p)
      PROVE  StockInv'
  <2>1. CASE Fail(p)
    BY <2>1, GivenUp DEF Fail
  <2>2. QED
    BY <1>1, <2>1, StartStock, CreatingStock, UnrelatedStock, SettlingStock DEF Statement
<1>2. CASE UNCHANGED vars
  <2>1. \A p \in Requests : RequestStock(p)'
    <3> TAKE p \in Requests
    <3>1. (\A s \in Stocks : VersionInv(p, s)) /\ TodoInv(p) /\ LineInv(p)
      BY DEF StockInv
    <3>2. \A s \in Stocks : VersionInv(p, s)'
      BY <1>2, <3>1 DEF vars, VersionInv
    <3>3. TodoInv(p)' /\ LineInv(p)'
      BY <1>2, <3>1 DEF vars, TodoInv, RefOf, LineInv, LinesDone, CurrentLine
    <3>4. QED
      BY <3>2, <3>3 DEF RequestStock
  <2>2. (\A o \in OrderIds : MovementInv(o)') /\ SettledOnce'
    BY <1>2 DEF vars, StockInv, MovementInv, SettledOnce, Units, Exists
  <2>3. LinesReserved'
    BY <1>2 DEF vars, StockInv, LinesReserved, Exists
  <2>4. QuantityMatchesMovements' /\ ("cancel" \notin Ops => ReservedMatchesOrders' /\ NoOversell')
    BY <1>2 DEF vars, StockInv, QuantityMatchesMovements, ReservedMatchesOrders, NoOversell, Units
  <2>5. QED
    BY <2>1, <2>2, <2>3, <2>4 DEF StockInv, RequestStock
<1>3. QED
  BY <1>1, <1>2 DEF Next

(* In every reachable state an uncommitted version of a stock row differs  *)
(* from the committed row by exactly what its request has moved.           *)
THEOREM StockInvHolds == Spec => []StockInv
<1>1. Init => StockInv
  BY InitStock
<1>2. Invariant /\ StockInv /\ [Next]_vars => StockInv'
  BY NextStock
<1>3. QED
  BY <1>1, <1>2, InvariantHolds, PTL DEF Spec

(* An order's goods leave its reservation once, along its status, however  *)
(* cancelOrder, deliverOrder and returnOrder are repeated and interleaved. *)
THEOREM OrdersSettledOnce == Spec => []SettledOnce
<1>1. StockInv => SettledOnce
  BY DEF StockInv
<1>2. QED
  BY <1>1, StockInvHolds, PTL

(* The physical quantity of a stock row is its first one less what was     *)
(* delivered plus what came back: deliverOrder and returnOrder lose no     *)
(* update of one another or of createOrder.                                *)
THEOREM QuantitiesAccounted == Spec => []QuantityMatchesMovements
<1>1. StockInv => QuantityMatchesMovements
  BY DEF StockInv
<1>2. QED
  BY <1>1, StockInvHolds, PTL

(* createOrder reserves each line of the cart in full, and an attempt that *)
(* is rolled back reserves nothing.                                        *)
THEOREM LinesFullyReserved == Spec => []LinesReserved
<1>1. StockInv => LinesReserved
  BY DEF StockInv
<1>2. QED
  BY <1>1, StockInvHolds, PTL

(* Without cancelOrder, whose release is unconditional, the reserved       *)
(* quantity of a row is what the open orders hold of it.                   *)
THEOREM ReservationsMatch == "cancel" \notin Ops /\ Spec => []ReservedMatchesOrders
<1>1. "cancel" \notin Ops /\ StockInv => ReservedMatchesOrders
  BY DEF StockInv
<1>2. ASSUME "cancel" \notin Ops
      PROVE  Spec => []ReservedMatchesOrders
  <2>1. StockInv => ReservedMatchesOrders
    BY <1>1, <1>2
  <2>2. QED
    BY <2>1, StockInvHolds, PTL
<1>3. QED
  BY <1>2

(* Without cancelOrder no interleaving of checkouts, deliveries and        *)
(* returns promises more of a row than it holds.                           *)
THEOREM NothingOversold == "cancel" \notin Ops /\ Spec => []NoOversell
<1>1. ASSUME "cancel" \notin Ops
      PROVE  Spec => []NoOversell
  <2>1. StockInv => NoOversell
    BY <1>1 DEF StockInv
  <2>2. QED
    BY <2>1, StockInvHolds, PTL
<1>2. QED
  BY <1>1
=============================================================================
