-------------------------- MODULE InventoryService --------------------------
(***************************************************************************)
(* The staff's side of the stock: stockIn, stockOut, adjustStock and       *)
(* transferStock of inventory.service.ts, for one product variant, beside  *)
(* the orders that reserve from and deliver the same rows.                 *)
(*                                                                         *)
(* Every staff call reads the row of its branch, decides, and writes the   *)
(* quantity it computed from what it read under WHERE id only.  stockIn,   *)
(* stockOut and adjustStock do so without a transaction: the row and its   *)
(* movement are two statements.  transferStock runs in a READ COMMITTED    *)
(* transaction and holds its source row from the first UPDATE on.  Orders  *)
(* repeat the quantities they have read as the condition of their UPDATE   *)
(* (order.service.ts), so a step of theirs is one atomic step here.        *)
(* cancelOrder's unconditional release is the subject of OrderService.     *)
(*                                                                         *)
(* History variables: netMoved (the signed sum of the movements that move  *)
(* goods at a branch), unlogged (written to the row, the movement still    *)
(* missing), raced (branches where a staff call wrote over a row that had  *)
(* changed since it was read).                                             *)
(***************************************************************************)
EXTENDS Integers, FiniteSetsExt

CONSTANTS
    Branches,       \* the branches that may stock the variant
    StaffCalls,     \* the staff calls of a behaviour
    StockLines,     \* the order lines of the variant
    Amounts,        \* the amounts staff give
    MaxQuantity,    \* bound: no accepted stockIn raises a row above it
    NoCall,         \* the holder of a row nobody holds
    NoBranch        \* the branch of a call not made, of a line not reserved

ASSUME NoCallAssumption == NoCall \notin StaffCalls /\ NoBranch \notin Branches
ASSUME AmountsAssumption == Amounts \subseteq Int /\ MaxQuantity \in Nat
ASSUME LinesAssumption == IsFiniteSet(StockLines)

VARIABLES
    stock,      \* per branch: the InventoryStock row, as committed
    netMoved,   \* per branch: the signed sum of its movements of goods
    unlogged,   \* per branch: written to the row without a movement so far
    rowHolder,  \* per branch: the transfer whose transaction holds the row
    staffJob,   \* per staff call: its arguments and the rows it has read
    staffAt,    \* per staff call: the statement it executes next
    stockLine,  \* per order line: where it has reserved, and how it stands
    raced       \* branches where a write went over a changed row

inventoryVars == << stock, netMoved, unlogged, rowHolder, staffJob, staffAt,
                    stockLine, raced >>

Row == [exists : BOOLEAN, quantity : Int, reserved : Nat]
NoRow == [exists |-> FALSE, quantity |-> 0, reserved |-> 0]

StaffOps == {"in", "out", "adjust", "transfer"}
StaffStages == {"start", "write", "log", "destination", "deliver", "done"}
StaffJob == [op : StaffOps, at : Branches \cup {NoBranch}, to : Branches \cup {NoBranch},
             amount : Int, seen : Row, seenTo : Row]
NoJob == [op |-> "adjust", at |-> NoBranch, to |-> NoBranch, amount |-> 0,
          seen |-> NoRow, seenTo |-> NoRow]
LineStates == {"open", "reserved", "delivered", "returned"}
StockLine == [at : Branches \cup {NoBranch}, quantity : Nat, state : LineStates]

(* Rows that exist at the start were stocked and logged before. *)
InventoryInit ==
    /\ stock \in [Branches -> {NoRow, [exists |-> TRUE, quantity |-> MaxQuantity,
                                                       reserved |-> 0]}]
    /\ netMoved = [b \in Branches |-> stock[b].quantity]
    /\ unlogged = [b \in Branches |-> 0]
    /\ rowHolder = [b \in Branches |-> NoCall]
    /\ staffJob = [c \in StaffCalls |-> NoJob]
    /\ staffAt = [c \in StaffCalls |-> "start"]
    /\ stockLine = [l \in StockLines |-> [at |-> NoBranch, quantity |-> 1, state |-> "open"]]
    /\ raced = {}

-----------------------------------------------------------------------------
(* The staff's calls.                                                      *)

(* What a call adds to the row of its branch. *)
Delta(job) == IF job.op \in {"out", "transfer"} THEN -job.amount ELSE job.amount

(* availableQuantity.  The faulty form forgets what orders hold. *)
AvailableUnheld(row) == row.quantity
AvailableQuantity(row) == row.quantity - row.reserved

(* The refusals before a call writes, decided from the row it has read. *)
Accepted(job, row) ==
    CASE job.op = "in" -> row.quantity + job.amount <= MaxQuantity
      [] job.op = "adjust" -> /\ row.exists
                              /\ row.quantity + job.amount >= 0
                              /\ row.quantity + job.amount >= row.reserved
      [] OTHER -> row.exists /\ job.amount <= AvailableQuantity(row)

StaffEnds(c) ==
    /\ staffJob' = [staffJob EXCEPT ![c] = NoJob]
    /\ staffAt' = [staffAt EXCEPT ![c] = "done"]

(* A call is made and reads the row of its branch; refused, it is over.
   Only adjustStock takes amounts that are not positive. *)
StaffRead(c) ==
    /\ staffAt[c] = "start"
    /\ \E op \in StaffOps, b \in Branches, to \in Branches, n \in Amounts :
         /\ op # "adjust" => n > 0
         /\ (op = "transfer") = (to # b)
         /\ LET job == [op |-> op, at |-> b, to |-> to, amount |-> n,
                        seen |-> stock[b], seenTo |-> NoRow]
            IN  IF Accepted(job, stock[b])
                THEN /\ staffJob' = [staffJob EXCEPT ![c] = job]
                     /\ staffAt' = [staffAt EXCEPT ![c] = "write"]
                ELSE StaffEnds(c)
    /\ UNCHANGED << stock, netMoved, unlogged, rowHolder, stockLine, raced >>

RowFree(b) == rowHolder[b] = NoCall

(* The row after the UPDATE or INSERT of a call: `quantity' alone is written,
   from the row that was read.  The faulty form saves all that was read. *)
SavedWhole(b, seen, delta) ==
    [exists |-> TRUE, quantity |-> seen.quantity + delta, reserved |-> seen.reserved]
Written(b, seen, delta) ==
    [exists |-> TRUE, quantity |-> seen.quantity + delta, reserved |-> stock[b].reserved]

RacedBy(b, seen) == IF stock[b] = seen THEN {} ELSE {b}

(* stockIn, stockOut, adjustStock: the UPDATE, or stockIn's INSERT. *)
StaffWrite(c) ==
    LET job == staffJob[c]
        b == job.at
    IN  /\ staffAt[c] = "write"
        /\ job.op # "transfer"
        /\ RowFree(b)
        /\ job.seen.exists = stock[b].exists
        /\ stock' = [stock EXCEPT ![b] = Written(b, job.seen, Delta(job))]
        /\ unlogged' = [unlogged EXCEPT ![b] = @ + Delta(job)]
        /\ raced' = raced \cup RacedBy(b, job.seen)
        /\ staffAt' = [staffAt EXCEPT ![c] = "log"]
        /\ UNCHANGED << netMoved, rowHolder, staffJob, stockLine >>

(* stockIn's INSERT meets a row created meanwhile: @@unique([branchId,
   productVariantId]) refuses it and the call fails. *)
StaffInsertRefused(c) ==
    LET job == staffJob[c]
    IN  /\ staffAt[c] = "write"
        /\ job.op # "transfer"
        /\ RowFree(job.at)
        /\ job.seen.exists # stock[job.at].exists
        /\ StaffEnds(c)
        /\ UNCHANGED << stock, netMoved, unlogged, rowHolder, stockLine, raced >>

(* The movement of the call is inserted. *)
StaffLog(c) ==
    LET job == staffJob[c]
    IN  /\ staffAt[c] = "log"
        /\ netMoved' = [netMoved EXCEPT ![job.at] = @ + Delta(job)]
        /\ unlogged' = [unlogged EXCEPT ![job.at] = @ - Delta(job)]
        /\ StaffEnds(c)
        /\ UNCHANGED << stock, rowHolder, stockLine, raced >>

(* transferStock: the UPDATE of the source row, which its transaction holds
   from here on. *)
TransferHold(c) ==
    /\ staffAt[c] = "write"
    /\ staffJob[c].op = "transfer"
    /\ RowFree(staffJob[c].at)
    /\ rowHolder' = [rowHolder EXCEPT ![staffJob[c].at] = c]
    /\ staffAt' = [staffAt EXCEPT ![c] = "destination"]
    /\ UNCHANGED << stock, netMoved, unlogged, staffJob, stockLine, raced >>

(* transferStock: the destination row is read. *)
TransferRead(c) ==
    /\ staffAt[c] = "destination"
    /\ staffJob' = [staffJob EXCEPT ![c].seenTo = stock[staffJob[c].to]]
    /\ staffAt' = [staffAt EXCEPT ![c] = "deliver"]
    /\ UNCHANGED << stock, netMoved, unlogged, rowHolder, stockLine, raced >>

(* What a transfer takes from its source.  The faulty form takes nothing. *)
TakenNothing(job) == 0
TakenAtSource(job) == Delta(job)

(* transferStock: the destination row is updated or inserted, both movements
   are inserted and the transaction commits.  It holds both rows meanwhile, so
   nothing that changes them comes between. *)
TransferDeliver(c) ==
    LET job == staffJob[c]
        b == job.at
        to == job.to
    IN  /\ staffAt[c] = "deliver"
        /\ RowFree(to)
        /\ job.seenTo.exists = stock[to].exists
        /\ stock' = [stock EXCEPT ![b] = Written(b, job.seen, TakenAtSource(job)),
                                  ![to] = Written(to, job.seenTo, job.amount)]
        /\ netMoved' = [netMoved EXCEPT ![b] = @ + Delta(job), ![to] = @ + job.amount]
        /\ raced' = raced \cup RacedBy(b, job.seen) \cup RacedBy(to, job.seenTo)
        /\ rowHolder' = [rowHolder EXCEPT ![b] = NoCall]
        /\ StaffEnds(c)
        /\ UNCHANGED << unlogged, stockLine >>

(* Two transfers each hold the row the other waits for, and the database
   breaks the deadlock. *)
Crosswise(c, d) ==
    /\ staffAt[c] = "deliver" /\ staffAt[d] = "deliver"
    /\ rowHolder[staffJob[c].to] = d
    /\ rowHolder[staffJob[d].to] = c

(* The transaction of a transfer is rolled back: it is the victim of a
   deadlock, or its INSERT meets a row created meanwhile. *)
TransferRollback(c) ==
    /\ staffAt[c] = "deliver"
    /\ \/ \E d \in StaffCalls : Crosswise(c, d)
       \/ RowFree(staffJob[c].to) /\ staffJob[c].seenTo.exists # stock[staffJob[c].to].exists
    /\ rowHolder' = [rowHolder EXCEPT ![staffJob[c].at] = NoCall]
    /\ StaffEnds(c)
    /\ UNCHANGED << stock, netMoved, unlogged, stockLine, raced >>

(* The process or its connection dies during a call: an open transaction is
   rolled back, a row already written keeps its missing movement. *)
StaffDies(c) ==
    /\ staffAt[c] \notin {"start", "done"}
    /\ rowHolder' = [b \in Branches |-> IF rowHolder[b] = c THEN NoCall ELSE rowHolder[b]]
    /\ StaffEnds(c)
    /\ UNCHANGED << stock, netMoved, unlogged, stockLine, raced >>

-----------------------------------------------------------------------------
(* The orders' steps on the same rows, each a conditional UPDATE.          *)

Moves(b, delta, held) ==
    stock' = [stock EXCEPT ![b].quantity = @ + delta, ![b].reserved = @ + held]

(* createOrder reserves at the branch that has most of what fits. *)
OrderReserves(l) ==
    \E b \in Branches :
        /\ stockLine[l].state = "open"
        /\ stock[b].exists /\ RowFree(b)
        /\ AvailableQuantity(stock[b]) >= stockLine[l].quantity
        /\ \A other \in Branches :
              stock[other].exists => AvailableQuantity(stock[other]) <= AvailableQuantity(stock[b])
        /\ Moves(b, 0, stockLine[l].quantity)
        /\ stockLine' = [stockLine EXCEPT ![l].at = b, ![l].state = "reserved"]
        /\ UNCHANGED << netMoved, unlogged, rowHolder, staffJob, staffAt, raced >>

(* deliverOrder settles the reservation and takes the goods. *)
OrderDelivers(l) ==
    LET b == stockLine[l].at
        n == stockLine[l].quantity
    IN  /\ stockLine[l].state = "reserved"
        /\ RowFree(b)
        /\ stock[b].reserved >= n /\ stock[b].quantity >= n
        /\ Moves(b, -n, -n)
        /\ netMoved' = [netMoved EXCEPT ![b] = @ - n]
        /\ stockLine' = [stockLine EXCEPT ![l].state = "delivered"]
        /\ UNCHANGED << unlogged, rowHolder, staffJob, staffAt, raced >>

(* returnOrder takes the goods back. *)
OrderReturns(l) ==
    LET b == stockLine[l].at
        n == stockLine[l].quantity
    IN  /\ stockLine[l].state = "delivered"
        /\ RowFree(b)
        /\ Moves(b, n, 0)
        /\ netMoved' = [netMoved EXCEPT ![b] = @ + n]
        /\ stockLine' = [stockLine EXCEPT ![l].state = "returned"]
        /\ UNCHANGED << unlogged, rowHolder, staffJob, staffAt, raced >>

-----------------------------------------------------------------------------

(* What a call does by itself, once made. *)
StaffStep(c) ==
    \/ StaffWrite(c) \/ StaffInsertRefused(c) \/ StaffLog(c)
    \/ TransferHold(c) \/ TransferRead(c) \/ TransferDeliver(c) \/ TransferRollback(c)

InventoryNext ==
    \/ \E c \in StaffCalls : StaffRead(c) \/ StaffStep(c) \/ StaffDies(c)
    \/ \E l \in StockLines : OrderReserves(l) \/ OrderDelivers(l) \/ OrderReturns(l)

InventorySpec == InventoryInit /\ [][InventoryNext]_inventoryVars

-----------------------------------------------------------------------------
(* Properties.                                                             *)

InventoryTypeOK ==
    /\ stock \in [Branches -> Row]
    /\ netMoved \in [Branches -> Int]
    /\ unlogged \in [Branches -> Int]
    /\ rowHolder \in [Branches -> StaffCalls \cup {NoCall}]
    /\ staffJob \in [StaffCalls -> StaffJob]
    /\ staffAt \in [StaffCalls -> StaffStages]
    /\ stockLine \in [StockLines -> StockLine]
    /\ raced \subseteq Branches

(* The quantity of a row is the sum of the movements of its branch, short of
   those between an UPDATE and its movement or lost there in a crash: through
   transfers, rollbacks, deadlocks, deliveries and returns, a row departs from
   its movements only by a write over a row that had changed. *)
LedgerMatches ==
    \A b \in Branches \ raced : stock[b].quantity = netMoved[b] + unlogged[b]

(* What orders have reserved stays in stock: the checks of staff calls on what
   they read and the conditional updates of orders suffice, unless a staff
   call wrote over a changed row. *)
ReservationsCovered ==
    \A b \in Branches \ raced : stock[b].reserved <= stock[b].quantity

(* No staff call, raced or not, makes the reserved quantity of a row depart
   from what the open order lines hold there: the write of a quantity computed
   from an old read never brings an old reservation back. *)
ReservationsKept ==
    \A b \in Branches :
        stock[b].reserved =
            SumFunctionOnSet([l \in StockLines |-> stockLine[l].quantity],
                             {l \in StockLines : /\ stockLine[l].state = "reserved"
                                                 /\ stockLine[l].at = b})

=============================================================================
