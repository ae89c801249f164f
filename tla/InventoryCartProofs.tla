------------------------ MODULE InventoryCartProofs -------------------------
(* Proofs about InventoryService and CartService, for every number of      *)
(* branches, order lines, carts, items, variants and calls, and all        *)
(* amounts.                                                                *)
EXTENDS InventoryService, CartService, SumTheorems, TLAPS

-----------------------------------------------------------------------------
(* InventoryService.                                                       *)

(* What a call that is under way was made with. *)
JobsMade ==
    \A c \in StaffCalls : staffAt[c] \notin {"start", "done"} =>
        /\ staffJob[c].at \in Branches
        /\ staffJob[c].to \in Branches
        /\ staffJob[c].op # "adjust" => staffJob[c].amount > 0
        /\ staffJob[c].op = "transfer" => staffJob[c].to # staffJob[c].at
        /\ staffAt[c] \in {"destination", "deliver"} => staffJob[c].op = "transfer"
        /\ staffAt[c] # "log" => Accepted(staffJob[c], staffJob[c].seen)

LinesPlaced ==
    \A l \in StockLines : stockLine[l].state \in {"reserved", "delivered"} =>
        stockLine[l].at \in Branches

InvIInv ==
    /\ InventoryTypeOK
    /\ JobsMade
    /\ LinesPlaced
    /\ LedgerMatches
    /\ ReservationsCovered

LEMMA InventoryInitial == InventoryInit => InvIInv
<1> SUFFICES ASSUME InventoryInit PROVE InvIInv
  OBVIOUS
<1> DEFINE Full == [exists |-> TRUE, quantity |-> MaxQuantity, reserved |-> 0]
<1>a. NoRow \in Row /\ Full \in Row
  BY AmountsAssumption DEF Row, NoRow
<1>b. NoRow.reserved <= NoRow.quantity /\ Full.reserved <= Full.quantity
  BY AmountsAssumption DEF NoRow
<1>c. stock \in [Branches -> {NoRow, Full}]
  BY DEF InventoryInit
<1> HIDE DEF Full
<1>d. netMoved = [b \in Branches |-> stock[b].quantity]
  BY DEF InventoryInit
<1>1. /\ \A b \in Branches : stock[b] \in Row /\ stock[b].quantity = netMoved[b]
                             /\ stock[b].reserved <= stock[b].quantity
      /\ stock \in [Branches -> Row]
  BY <1>a, <1>b, <1>c, <1>d
<1>2. NoJob \in StaffJob
  BY DEF NoJob, StaffJob, StaffOps, NoRow, Row
<1>3. InventoryTypeOK
  BY <1>1, <1>2 DEF InventoryInit, InventoryTypeOK, StaffStages, StockLine, LineStates, Row
<1>4. LedgerMatches
  BY <1>1 DEF InventoryInit, LedgerMatches, Row
<1> QED
  BY <1>1, <1>3, <1>4 DEF InventoryInit, InvIInv, JobsMade, LinesPlaced, ReservationsCovered

LEMMA NoJobType == NoJob \in StaffJob
  BY DEF NoJob, StaffJob, StaffOps, NoRow, Row

(* A call that ends leaves the rows as they are. *)
LEMMA EndKeeps ==
  ASSUME InvIInv, NEW c \in StaffCalls, StaffEnds(c)
  PROVE  /\ staffJob' \in [StaffCalls -> StaffJob]
         /\ staffAt' \in [StaffCalls -> StaffStages]
         /\ JobsMade'
  BY NoJobType DEF StaffEnds, InvIInv, InventoryTypeOK, JobsMade, StaffStages

-----------------------------------------------------------------------------
(* The staff's calls.                                                      *)

LEMMA ReadStep ==
  ASSUME InvIInv, NEW c \in StaffCalls, StaffRead(c)
  PROVE  InvIInv'
<1>1. UNCHANGED << stock, netMoved, unlogged, rowHolder, stockLine, raced >>
  BY DEF StaffRead
<1>2. CASE StaffEnds(c)
  BY <1>1, <1>2, EndKeeps
     DEF InvIInv, InventoryTypeOK, LinesPlaced, LedgerMatches, ReservationsCovered
<1>3. CASE ~StaffEnds(c)
  <2>1. PICK op \in StaffOps, b \in Branches, to \in Branches, n \in Amounts :
          /\ op # "adjust" => n > 0
          /\ (op = "transfer") = (to # b)
          /\ LET job == [op |-> op, at |-> b, to |-> to, amount |-> n,
                         seen |-> stock[b], seenTo |-> NoRow]
             IN  /\ Accepted(job, stock[b])
                 /\ staffJob' = [staffJob EXCEPT ![c] = job]
                 /\ staffAt' = [staffAt EXCEPT ![c] = "write"]
    BY <1>3 DEF StaffRead
  <2> DEFINE job == [op |-> op, at |-> b, to |-> to, amount |-> n,
                     seen |-> stock[b], seenTo |-> NoRow]
  <2>2. /\ job \in StaffJob /\ job.at = b /\ job.to = to /\ job.op = op /\ job.amount = n
        /\ job.seen = stock[b]
    BY AmountsAssumption DEF InvIInv, InventoryTypeOK, StaffJob, NoRow, Row
  <2>3. /\ Accepted(job, stock[b])
        /\ staffJob' = [staffJob EXCEPT ![c] = job]
        /\ staffAt' = [staffAt EXCEPT ![c] = "write"]
    BY <2>1
  <2> HIDE DEF job
  <2>4. InventoryTypeOK'
    BY <1>1, <2>2, <2>3 DEF InvIInv, InventoryTypeOK, StaffStages
  <2>5. JobsMade'
    BY <2>1, <2>2, <2>3 DEF InvIInv, InventoryTypeOK, JobsMade
  <2> QED
    BY <1>1, <2>4, <2>5 DEF InvIInv, LinesPlaced, LedgerMatches, ReservationsCovered
<1> QED
  BY <1>2, <1>3

(* What a row becomes by the write of an accepted amount, on the row that was
   read: its quantity moves by the amount and still covers what is reserved. *)
LEMMA AcceptedCovers ==
  ASSUME NEW job \in StaffJob, NEW row \in Row, Accepted(job, row),
         job.op # "adjust" => job.amount > 0,
         row.reserved <= row.quantity
  PROVE  row.reserved <= row.quantity + Delta(job)
<1>1. row.quantity \in Int /\ row.reserved \in Nat /\ job.amount \in Int /\ job.op \in StaffOps
  BY DEF Row, StaffJob
<1>2. CASE job.op = "in"
  BY <1>1, <1>2 DEF Delta
<1>3. CASE job.op = "adjust"
  BY <1>1, <1>3 DEF Delta, Accepted
<1>4. CASE job.op \in {"out", "transfer"}
  BY <1>1, <1>4 DEF Delta, Accepted, AvailableQuantity
<1> QED
  BY <1>1, <1>2, <1>3, <1>4 DEF StaffOps

LEMMA WriteStep ==
  ASSUME InvIInv, NEW c \in StaffCalls, StaffWrite(c)
  PROVE  InvIInv'
<1> DEFINE job == staffJob[c]
           b == job.at
           row == Written(b, job.seen, Delta(job))
<1>1. /\ job \in StaffJob /\ b \in Branches /\ stock[b] \in Row /\ job.seen \in Row
      /\ Delta(job) \in Int /\ Accepted(job, job.seen)
      /\ job.op # "adjust" => job.amount > 0
  BY DEF InvIInv, InventoryTypeOK, JobsMade, StaffWrite, Delta, StaffJob
<1>2. /\ stock' = [stock EXCEPT ![b] = row]
      /\ unlogged' = [unlogged EXCEPT ![b] = unlogged[b] + Delta(job)]
      /\ raced' = raced \cup RacedBy(b, job.seen)
      /\ staffAt' = [staffAt EXCEPT ![c] = "log"]
      /\ staffAt[c] = "write" /\ job.op # "transfer"
      /\ UNCHANGED << netMoved, rowHolder, staffJob, stockLine >>
  BY DEF StaffWrite
<1>3. row \in Row /\ row.quantity = job.seen.quantity + Delta(job) /\ row.reserved = stock[b].reserved
  BY <1>1 DEF Written, Row
<1>4. b \notin raced' => stock[b] = job.seen /\ b \notin raced
  BY <1>2 DEF RacedBy
<1> HIDE DEF row
<1>5. InventoryTypeOK'
  BY <1>1, <1>2, <1>3 DEF InvIInv, InventoryTypeOK, StaffStages, RacedBy
<1>6. JobsMade'
  BY <1>2 DEF InvIInv, InventoryTypeOK, JobsMade
<1>7. LinesPlaced'
  BY <1>2 DEF InvIInv, LinesPlaced
<1>8. LedgerMatches'
  <2> SUFFICES ASSUME NEW d \in Branches, d \notin raced'
               PROVE  stock'[d].quantity = netMoved'[d] + unlogged'[d]
    BY DEF LedgerMatches
  <2>1. CASE d = b
    <3>1. stock[b].quantity = netMoved[b] + unlogged[b]
      BY <1>1, <1>4, <2>1 DEF InvIInv, LedgerMatches
    <3>2. stock[b].quantity \in Int /\ netMoved[b] \in Int /\ unlogged[b] \in Int
      BY <1>1 DEF InvIInv, InventoryTypeOK, Row
    <3>3. stock'[b] = row /\ unlogged'[b] = unlogged[b] + Delta(job) /\ netMoved'[b] = netMoved[b]
      BY <1>1, <1>2 DEF InvIInv, InventoryTypeOK
    <3> QED
      BY <1>1, <1>3, <1>4, <2>1, <3>1, <3>2, <3>3
  <2>2. CASE d # b
    BY <1>2, <2>2 DEF InvIInv, InventoryTypeOK, LedgerMatches
  <2> QED
    BY <2>1, <2>2
<1>9. ReservationsCovered'
  <2> SUFFICES ASSUME NEW d \in Branches, d \notin raced'
               PROVE  stock'[d].reserved <= stock'[d].quantity
    BY DEF ReservationsCovered
  <2>1. CASE d = b
    BY <1>1, <1>2, <1>3, <1>4, <2>1, AcceptedCovers
       DEF InvIInv, InventoryTypeOK, ReservationsCovered
  <2>2. CASE d # b
    BY <1>2, <2>2 DEF InvIInv, InventoryTypeOK, ReservationsCovered
  <2> QED
    BY <2>1, <2>2
<1> QED
  BY <1>5, <1>6, <1>7, <1>8, <1>9 DEF InvIInv

LEMMA LogStep ==
  ASSUME InvIInv, NEW c \in StaffCalls, StaffLog(c)
  PROVE  InvIInv'
<1> DEFINE job == staffJob[c]
           b == job.at
<1>1. /\ b \in Branches /\ Delta(job) \in Int
      /\ netMoved' = [netMoved EXCEPT ![b] = netMoved[b] + Delta(job)]
      /\ unlogged' = [unlogged EXCEPT ![b] = unlogged[b] - Delta(job)]
      /\ UNCHANGED << stock, rowHolder, stockLine, raced >>
      /\ StaffEnds(c)
  BY DEF StaffLog, InvIInv, InventoryTypeOK, JobsMade, Delta, StaffJob
<1>2. InventoryTypeOK' /\ JobsMade'
  BY <1>1, EndKeeps DEF InvIInv, InventoryTypeOK
<1>3. LinesPlaced' /\ ReservationsCovered'
  BY <1>1 DEF InvIInv, LinesPlaced, ReservationsCovered
<1>4. LedgerMatches'
  <2> SUFFICES ASSUME NEW d \in Branches \ raced
               PROVE  stock[d].quantity = netMoved'[d] + unlogged'[d]
    BY <1>1 DEF LedgerMatches
  <2>1. netMoved[d] \in Int /\ unlogged[d] \in Int /\ stock[d].quantity = netMoved[d] + unlogged[d]
    BY DEF InvIInv, InventoryTypeOK, LedgerMatches
  <2>2. \/ d = b /\ netMoved'[d] = netMoved[d] + Delta(job) /\ unlogged'[d] = unlogged[d] - Delta(job)
        \/ netMoved'[d] = netMoved[d] /\ unlogged'[d] = unlogged[d]
    BY <1>1 DEF InvIInv, InventoryTypeOK
  <2> QED
    BY <1>1, <2>1, <2>2
<1> QED
  BY <1>2, <1>3, <1>4 DEF InvIInv

(* A call is refused, dies, or its transaction is rolled back; a transfer takes
   its source row or reads its destination. *)
LEMMA QuietStep ==
  ASSUME InvIInv, NEW c \in StaffCalls,
         StaffInsertRefused(c) \/ TransferHold(c) \/ TransferRead(c) \/ TransferRollback(c)
           \/ StaffDies(c)
  PROVE  InvIInv'
<1>1. UNCHANGED << stock, netMoved, unlogged, stockLine, raced >>
  BY DEF StaffInsertRefused, TransferHold, TransferRead, TransferRollback, StaffDies
<1>2. rowHolder' \in [Branches -> StaffCalls \cup {NoCall}]
  BY DEF StaffInsertRefused, TransferHold, TransferRead, TransferRollback, StaffDies, InvIInv,
         InventoryTypeOK
<1>3. /\ staffJob' \in [StaffCalls -> StaffJob]
      /\ staffAt' \in [StaffCalls -> StaffStages]
      /\ JobsMade'
  <2>1. CASE StaffEnds(c)
    BY <2>1, EndKeeps
  <2>2. CASE TransferHold(c)
    BY <2>2 DEF TransferHold, InvIInv, InventoryTypeOK, JobsMade, StaffStages
  <2>3. CASE TransferRead(c)
    <3> DEFINE job == staffJob[c]
    <3>1. /\ job.to \in Branches /\ stock[job.to] \in Row /\ job \in StaffJob
          /\ staffJob' = [staffJob EXCEPT ![c].seenTo = stock[job.to]]
          /\ staffAt' = [staffAt EXCEPT ![c] = "deliver"]
          /\ staffAt[c] = "destination"
      BY <2>3 DEF TransferRead, InvIInv, InventoryTypeOK, JobsMade
    <3>2. /\ staffJob'[c] \in StaffJob /\ staffJob'[c].at = job.at /\ staffJob'[c].to = job.to
          /\ staffJob'[c].op = job.op /\ staffJob'[c].amount = job.amount
          /\ staffJob'[c].seen = job.seen
          /\ \A d \in StaffCalls \ {c} : staffJob'[d] = staffJob[d] /\ staffAt'[d] = staffAt[d]
          /\ staffAt'[c] = "deliver"
      BY <3>1 DEF InvIInv, InventoryTypeOK, StaffJob
    <3>3. Accepted(staffJob'[c], staffJob'[c].seen) <=> Accepted(job, job.seen)
      BY <3>2 DEF Accepted
    <3>4. staffJob' \in [StaffCalls -> StaffJob] /\ staffAt' \in [StaffCalls -> StaffStages]
      BY <3>1, <3>2 DEF InvIInv, InventoryTypeOK, StaffStages
    <3>5. JobsMade'
      <4> SUFFICES ASSUME NEW d \in StaffCalls, staffAt'[d] \notin {"start", "done"}
                   PROVE  JobsMade!(d)'
        BY DEF JobsMade
      <4>1. CASE d = c
        BY <3>1, <3>2, <3>3, <4>1 DEF InvIInv, JobsMade
      <4>2. CASE d # c
        BY <3>2, <4>2 DEF InvIInv, JobsMade
      <4> QED
        BY <4>1, <4>2
    <3> QED
      BY <3>4, <3>5
  <2> QED
    BY <2>1, <2>2, <2>3 DEF StaffInsertRefused, TransferRollback, StaffDies
<1> QED
  BY <1>1, <1>2, <1>3
     DEF InvIInv, InventoryTypeOK, LinesPlaced, LedgerMatches, ReservationsCovered

LEMMA DeliverStep ==
  ASSUME InvIInv, NEW c \in StaffCalls, TransferDeliver(c)
  PROVE  InvIInv'
<1> DEFINE job == staffJob[c]
           b == job.at
           to == job.to
           left == Written(b, job.seen, TakenAtSource(job))
           got == Written(to, job.seenTo, job.amount)
<1>1. /\ job \in StaffJob /\ b \in Branches /\ to \in Branches /\ b # to
      /\ stock[b] \in Row /\ stock[to] \in Row /\ job.seen \in Row /\ job.seenTo \in Row
      /\ Accepted(job, job.seen) /\ job.op = "transfer" /\ job.amount > 0 /\ job.amount \in Int
      /\ Delta(job) = -job.amount
  BY DEF InvIInv, InventoryTypeOK, JobsMade, TransferDeliver, Delta, StaffJob
<1>2. /\ stock' = [stock EXCEPT ![b] = left, ![to] = got]
      /\ netMoved' = [netMoved EXCEPT ![b] = netMoved[b] + Delta(job),
                                      ![to] = netMoved[to] + job.amount]
      /\ raced' = raced \cup RacedBy(b, job.seen) \cup RacedBy(to, job.seenTo)
      /\ rowHolder' = [rowHolder EXCEPT ![b] = NoCall]
      /\ StaffEnds(c)
      /\ UNCHANGED << unlogged, stockLine >>
  BY <1>1 DEF TransferDeliver, InvIInv, InventoryTypeOK
<1>3. /\ left \in Row /\ left.quantity = job.seen.quantity + Delta(job)
      /\ left.reserved = stock[b].reserved
  BY <1>1 DEF Written, TakenAtSource, Row
<1>4. /\ got \in Row /\ got.quantity = job.seenTo.quantity + job.amount
      /\ got.reserved = stock[to].reserved
  BY <1>1 DEF Written, Row
<1>5. /\ b \notin raced' => stock[b] = job.seen /\ b \notin raced
      /\ to \notin raced' => stock[to] = job.seenTo /\ to \notin raced
      /\ \A d \in Branches : d \notin raced' => d \notin raced
      /\ raced' \subseteq Branches
  BY <1>1, <1>2 DEF RacedBy, InvIInv, InventoryTypeOK
<1> HIDE DEF left, got
<1>6. /\ stock'[b] = left /\ stock'[to] = got
      /\ \A d \in Branches \ {b, to} : stock'[d] = stock[d] /\ netMoved'[d] = netMoved[d]
      /\ netMoved'[b] = netMoved[b] + Delta(job) /\ netMoved'[to] = netMoved[to] + job.amount
      /\ stock' \in [Branches -> Row] /\ netMoved' \in [Branches -> Int]
  BY <1>1, <1>2, <1>3, <1>4 DEF InvIInv, InventoryTypeOK
<1>7. InventoryTypeOK' /\ JobsMade'
  BY <1>2, <1>5, <1>6, EndKeeps DEF InvIInv, InventoryTypeOK
<1>8. LinesPlaced'
  BY <1>2 DEF InvIInv, LinesPlaced
<1>9. LedgerMatches'
  <2> SUFFICES ASSUME NEW d \in Branches, d \notin raced'
               PROVE  stock'[d].quantity = netMoved'[d] + unlogged'[d]
    BY DEF LedgerMatches
  <2>1. /\ stock[d].quantity = netMoved[d] + unlogged[d] /\ unlogged'[d] = unlogged[d]
        /\ stock[d].quantity \in Int /\ netMoved[d] \in Int /\ unlogged[d] \in Int
    BY <1>2, <1>5 DEF InvIInv, InventoryTypeOK, LedgerMatches, Row
  <2>2. CASE d = b
    BY <1>1, <1>3, <1>5, <1>6, <2>1, <2>2
  <2>3. CASE d = to
    BY <1>1, <1>4, <1>5, <1>6, <2>1, <2>3
  <2>4. CASE d \notin {b, to}
    BY <1>6, <2>1, <2>4
  <2> QED
    BY <2>2, <2>3, <2>4
<1>10. ReservationsCovered'
  <2> SUFFICES ASSUME NEW d \in Branches, d \notin raced'
               PROVE  stock'[d].reserved <= stock'[d].quantity
    BY DEF ReservationsCovered
  <2>1. /\ stock[d].reserved <= stock[d].quantity
        /\ stock[d].reserved \in Int /\ stock[d].quantity \in Int
    BY <1>5 DEF InvIInv, InventoryTypeOK, ReservationsCovered, Row
  <2>2. CASE d = b
    BY <1>1, <1>3, <1>5, <1>6, <2>1, <2>2, AcceptedCovers
  <2>3. CASE d = to
    BY <1>1, <1>4, <1>5, <1>6, <2>1, <2>3
  <2>4. CASE d \notin {b, to}
    BY <1>6, <2>1, <2>4
  <2> QED
    BY <2>2, <2>3, <2>4
<1> QED
  BY <1>7, <1>8, <1>9, <1>10 DEF InvIInv

-----------------------------------------------------------------------------
(* The orders' steps.                                                      *)

(* A step that moves a row and its movements alike, and leaves the quantity
   at or above what is reserved. *)
LEMMA MoveKeeps ==
  ASSUME InvIInv, NEW b \in Branches, NEW delta \in Int, NEW held \in Int,
         Moves(b, delta, held),
         stock[b].reserved + held >= 0,
         b \notin raced => stock[b].reserved + held <= stock[b].quantity + delta,
         netMoved' = [netMoved EXCEPT ![b] = netMoved[b] + delta],
         UNCHANGED << unlogged, raced >>
  PROVE  /\ stock' \in [Branches -> Row]
         /\ netMoved' \in [Branches -> Int]
         /\ LedgerMatches'
         /\ ReservationsCovered'
<1>1. stock[b] \in Row /\ stock[b].quantity \in Int /\ stock[b].reserved \in Nat
      /\ netMoved[b] \in Int /\ unlogged[b] \in Int
  BY DEF InvIInv, InventoryTypeOK, Row
<1> DEFINE row == [exists |-> stock[b].exists, quantity |-> stock[b].quantity + delta,
                   reserved |-> stock[b].reserved + held]
<1>2. row \in Row
  BY <1>1 DEF Row
<1>3. stock' = [stock EXCEPT ![b] = row]
  <2>1. /\ DOMAIN stock' = Branches
        /\ stock' = [d \in DOMAIN stock' |-> stock'[d]]
        /\ \A d \in Branches \ {b} : stock'[d] = stock[d]
    BY DEF Moves, InvIInv, InventoryTypeOK
  <2>2. stock'[b] = [[stock[b] EXCEPT !.quantity = stock[b].quantity + delta]
                               EXCEPT !.reserved = stock[b].reserved + held]
    BY <1>1 DEF Moves, InvIInv, InventoryTypeOK, Row
  <2>3. stock'[b] = row
    BY <1>1, <2>2 DEF Row
  <2> QED
    BY <2>1, <2>3 DEF InvIInv, InventoryTypeOK
<1>4. row.quantity = stock[b].quantity + delta /\ row.reserved = stock[b].reserved + held
  OBVIOUS
<1> HIDE DEF row
<1>5. /\ stock' \in [Branches -> Row] /\ netMoved' \in [Branches -> Int]
      /\ stock'[b] = row /\ netMoved'[b] = netMoved[b] + delta
      /\ \A d \in Branches \ {b} : stock'[d] = stock[d] /\ netMoved'[d] = netMoved[d]
  BY <1>1, <1>2, <1>3 DEF InvIInv, InventoryTypeOK
<1>6. LedgerMatches'
  BY <1>1, <1>4, <1>5 DEF InvIInv, LedgerMatches
<1>7. ReservationsCovered'
  BY <1>1, <1>4, <1>5 DEF InvIInv, ReservationsCovered
<1> QED
  BY <1>5, <1>6, <1>7

LEMMA OrderStep ==
  ASSUME InvIInv, NEW l \in StockLines, OrderReserves(l) \/ OrderDelivers(l) \/ OrderReturns(l)
  PROVE  InvIInv'
<1>1. UNCHANGED << unlogged, rowHolder, staffJob, staffAt, raced >>
  BY DEF OrderReserves, OrderDelivers, OrderReturns
<1>2. PICK n \in Nat : n = stockLine[l].quantity /\ stockLine[l] \in StockLine
  BY DEF InvIInv, InventoryTypeOK, StockLine
<1>3. /\ stock' \in [Branches -> Row] /\ netMoved' \in [Branches -> Int]
      /\ LedgerMatches' /\ ReservationsCovered'
      /\ stockLine' \in [StockLines -> StockLine] /\ LinesPlaced'
  <2>1. CASE OrderReserves(l)
    <3>1. PICK b \in Branches :
            /\ AvailableQuantity(stock[b]) >= n
            /\ Moves(b, 0, n)
            /\ stockLine' = [stockLine EXCEPT ![l].at = b, ![l].state = "reserved"]
            /\ UNCHANGED netMoved
      BY <1>2, <2>1 DEF OrderReserves
    <3>2. /\ netMoved' = [netMoved EXCEPT ![b] = netMoved[b] + 0]
          /\ stock[b].quantity \in Int /\ stock[b].reserved \in Nat
      BY <3>1 DEF InvIInv, InventoryTypeOK, Row
    <3>3. stock[b].reserved + n >= 0 /\ stock[b].reserved + n <= stock[b].quantity + 0
      BY <1>2, <3>1, <3>2 DEF AvailableQuantity
    <3>4. stockLine' \in [StockLines -> StockLine] /\ LinesPlaced'
      BY <1>2, <3>1 DEF InvIInv, InventoryTypeOK, LinesPlaced, StockLine, LineStates
    <3>5. LedgerMatches' /\ ReservationsCovered' /\ stock' \in [Branches -> Row]
          /\ netMoved' \in [Branches -> Int]
      <4>1. UNCHANGED << unlogged, raced >> /\ 0 \in Int /\ n \in Int
        BY <1>1
      <4> QED
        BY <3>1, <3>2, <3>3, <4>1, MoveKeeps, Zenon
    <3> QED
      BY <3>4, <3>5
  <2>2. CASE OrderDelivers(l)
    <3>1. PICK b \in Branches :
          /\ stockLine[l].state = "reserved" /\ b = stockLine[l].at
          /\ stock[b].reserved >= n /\ stock[b].quantity >= n
          /\ Moves(b, -n, -n)
          /\ stockLine' = [stockLine EXCEPT ![l].state = "delivered"]
      BY <1>2, <2>2 DEF OrderDelivers, InvIInv, LinesPlaced
    <3>2. /\ stock[b].quantity \in Int /\ stock[b].reserved \in Nat /\ netMoved[b] \in Int
          /\ b \notin raced => stock[b].reserved <= stock[b].quantity
      BY <3>1 DEF InvIInv, InventoryTypeOK, ReservationsCovered, Row
    <3>3. netMoved' = [netMoved EXCEPT ![b] = netMoved[b] + (-n)]
      BY <1>2, <2>2, <3>1, <3>2 DEF OrderDelivers
    <3>4. stock[b].reserved + (-n) >= 0
          /\ (b \notin raced => stock[b].reserved + (-n) <= stock[b].quantity + (-n))
      BY <1>2, <3>1, <3>2
    <3>5. stockLine' \in [StockLines -> StockLine] /\ LinesPlaced'
      BY <1>2, <3>1 DEF InvIInv, InventoryTypeOK, LinesPlaced, StockLine, LineStates
    <3>6. LedgerMatches' /\ ReservationsCovered' /\ stock' \in [Branches -> Row]
          /\ netMoved' \in [Branches -> Int]
      <4>1. UNCHANGED << unlogged, raced >> /\ -n \in Int
        BY <1>1
      <4> QED
        BY <3>1, <3>3, <3>4, <4>1, MoveKeeps, Zenon
    <3> QED
      BY <3>5, <3>6
  <2>3. CASE OrderReturns(l)
    <3>1. PICK b \in Branches :
          /\ stockLine[l].state = "delivered" /\ b = stockLine[l].at
          /\ Moves(b, n, 0)
          /\ netMoved' = [netMoved EXCEPT ![b] = netMoved[b] + n]
          /\ stockLine' = [stockLine EXCEPT ![l].state = "returned"]
      BY <1>2, <2>3 DEF OrderReturns, InvIInv, LinesPlaced
    <3>2. /\ stock[b].quantity \in Int /\ stock[b].reserved \in Nat
          /\ b \notin raced => stock[b].reserved <= stock[b].quantity
      BY <3>1 DEF InvIInv, InventoryTypeOK, ReservationsCovered, Row
    <3>3. stock[b].reserved + 0 >= 0
          /\ (b \notin raced => stock[b].reserved + 0 <= stock[b].quantity + n)
      BY <1>2, <3>2
    <3>4. stockLine' \in [StockLines -> StockLine] /\ LinesPlaced'
      BY <1>2, <3>1 DEF InvIInv, InventoryTypeOK, LinesPlaced, StockLine, LineStates
    <3>5. LedgerMatches' /\ ReservationsCovered' /\ stock' \in [Branches -> Row]
          /\ netMoved' \in [Branches -> Int]
      <4>1. UNCHANGED << unlogged, raced >> /\ 0 \in Int /\ n \in Int
        BY <1>1
      <4> QED
        BY <3>1, <3>3, <4>1, MoveKeeps, Zenon
    <3> QED
      BY <3>4, <3>5
  <2> QED
    BY <2>1, <2>2, <2>3
<1>4. InventoryTypeOK' /\ JobsMade'
  BY <1>1, <1>3 DEF InvIInv, InventoryTypeOK, JobsMade
<1> QED
  BY <1>3, <1>4 DEF InvIInv

-----------------------------------------------------------------------------
(* The invariant.                                                          *)

LEMMA InventoryStep == InvIInv /\ [InventoryNext]_inventoryVars => InvIInv'
<1> SUFFICES ASSUME InvIInv, [InventoryNext]_inventoryVars PROVE InvIInv'
  OBVIOUS
<1>1. ASSUME NEW c \in StaffCalls, StaffRead(c) \/ StaffStep(c) \/ StaffDies(c)
      PROVE  InvIInv'
  BY <1>1, ReadStep, WriteStep, LogStep, QuietStep, DeliverStep DEF StaffStep
<1>2. ASSUME NEW l \in StockLines, OrderReserves(l) \/ OrderDelivers(l) \/ OrderReturns(l)
      PROVE  InvIInv'
  BY <1>2, OrderStep
<1>3. CASE UNCHANGED inventoryVars
  BY <1>3 DEF inventoryVars, InvIInv, InventoryTypeOK, JobsMade, LinesPlaced, LedgerMatches,
              ReservationsCovered
<1> QED
  BY <1>1, <1>2, <1>3 DEF InventoryNext

(* The strengthening of the stock properties is invariant: a staff call in its
   write stage was accepted on the row it has read. *)
THEOREM InventoryInvariant == InventorySpec => []InvIInv
  BY InventoryInitial, InventoryStep, PTL DEF InventorySpec

(* Every row is the sum of its movements, short of those not yet inserted or
   lost in a crash (stockIn, stockOut, adjustStock, transferStock, and the
   order steps), unless a staff call wrote over a changed row. *)
THEOREM LedgerMatchesHolds == InventorySpec => []LedgerMatches
<1>1. InvIInv => LedgerMatches
  BY DEF InvIInv
<1> QED
  BY <1>1, InventoryInvariant, PTL

(* What orders reserve stays in stock under the same condition: the refusals
   of stockOut, adjustStock and transferStock and the conditional updates of
   orders suffice. *)
THEOREM ReservationsCoveredHolds == InventorySpec => []ReservationsCovered
<1>1. InvIInv => ReservationsCovered
  BY DEF InvIInv
<1> QED
  BY <1>1, InventoryInvariant, PTL

-----------------------------------------------------------------------------
(* What is reserved is what the open lines hold.                           *)

HeldAt(b) == {l \in StockLines : stockLine[l].state = "reserved" /\ stockLine[l].at = b}
LineQuantities == [l \in StockLines |-> stockLine[l].quantity]
LinesHold(b) == stock[b].reserved = SumFunctionOnSet(LineQuantities, HeldAt(b))

LEMMA KeptByBranch == ReservationsKept <=> \A b \in Branches : LinesHold(b)
  BY DEF ReservationsKept, LinesHold, HeldAt, LineQuantities

LEMMA HeldSums ==
  ASSUME InventoryTypeOK
  PROVE  /\ \A l \in StockLines : LineQuantities[l] = stockLine[l].quantity /\ LineQuantities[l] \in Nat
         /\ \A b \in Branches : /\ IsFiniteSet(HeldAt(b)) /\ HeldAt(b) \subseteq StockLines
                                /\ SumFunctionOnSet(LineQuantities, HeldAt(b)) \in Int
<1>1. \A l \in StockLines : LineQuantities[l] = stockLine[l].quantity /\ LineQuantities[l] \in Nat
  BY DEF InventoryTypeOK, StockLine, LineQuantities
<1>2. ASSUME NEW b \in Branches
      PROVE  /\ IsFiniteSet(HeldAt(b)) /\ HeldAt(b) \subseteq StockLines
             /\ SumFunctionOnSet(LineQuantities, HeldAt(b)) \in Int
  <2>1. HeldAt(b) \subseteq StockLines
    BY DEF HeldAt
  <2>2. IsFiniteSet(HeldAt(b))
    BY <2>1, LinesAssumption, FS_Subset
  <2>3. \A l \in HeldAt(b) : LineQuantities[l] \in Int
    BY <1>1, <2>1
  <2> QED
    BY <2>1, <2>2, <2>3, SumInt
<1> QED
  BY <1>1, <1>2

(* A step that moves no line keeps the sums, if it keeps every reserved
   quantity: whatever row a staff call has read, it writes back the quantity
   alone. *)
LEMMA ReservedWrittenBack ==
  ASSUME ReservationsKept, UNCHANGED stockLine,
         \A b \in Branches : stock'[b].reserved = stock[b].reserved
  PROVE  ReservationsKept'
<1>1. LineQuantities' = LineQuantities /\ \A b \in Branches : HeldAt(b)' = HeldAt(b)
  BY DEF LineQuantities, HeldAt
<1>2. \A b \in Branches : LinesHold(b)'
  BY <1>1, KeptByBranch DEF LinesHold
<1> QED
  BY <1>2 DEF ReservationsKept, LinesHold, HeldAt, LineQuantities

LEMMA StaffKeepsReserved ==
  ASSUME InvIInv, NEW c \in StaffCalls, StaffRead(c) \/ StaffStep(c) \/ StaffDies(c)
  PROVE  UNCHANGED stockLine /\ \A b \in Branches : stock'[b].reserved = stock[b].reserved
<1>1. CASE StaffWrite(c)
  <2> DEFINE b == staffJob[c].at
             row == Written(b, staffJob[c].seen, Delta(staffJob[c]))
  <2>1. stock' = [stock EXCEPT ![b] = row] /\ UNCHANGED stockLine
    BY <1>1 DEF StaffWrite
  <2>2. row.reserved = stock[b].reserved
    BY DEF Written
  <2> HIDE DEF row
  <2> QED
    BY <2>1, <2>2 DEF InvIInv, InventoryTypeOK
<1>2. CASE TransferDeliver(c)
  <2> DEFINE b == staffJob[c].at
             to == staffJob[c].to
             left == Written(b, staffJob[c].seen, TakenAtSource(staffJob[c]))
             got == Written(to, staffJob[c].seenTo, staffJob[c].amount)
  <2>1. stock' = [stock EXCEPT ![b] = left, ![to] = got] /\ UNCHANGED stockLine
    BY <1>2 DEF TransferDeliver
  <2>2. left.reserved = stock[b].reserved /\ got.reserved = stock[to].reserved
    BY DEF Written
  <2> HIDE DEF left, got
  <2> QED
    BY <2>1, <2>2 DEF InvIInv, InventoryTypeOK
<1>3. CASE UNCHANGED << stock, stockLine >>
  BY <1>3
<1> QED
  BY <1>1, <1>2, <1>3
     DEF StaffRead, StaffStep, StaffInsertRefused, StaffLog, TransferHold, TransferRead,
         TransferRollback, StaffDies

(* What an order's step does to a row and to the line. *)
LEMMA MovesReserved ==
  ASSUME InvIInv, NEW b \in Branches, NEW delta, NEW held, Moves(b, delta, held)
  PROVE  /\ stock'[b].reserved = stock[b].reserved + held
         /\ \A d \in Branches \ {b} : stock'[d] = stock[d]
<1>1. stock[b] \in Row /\ stock \in [Branches -> Row]
  BY DEF InvIInv, InventoryTypeOK
<1>2. stock'[b] = [[stock[b] EXCEPT !.quantity = stock[b].quantity + delta]
                             EXCEPT !.reserved = stock[b].reserved + held]
  BY <1>1 DEF Moves, Row
<1> QED
  BY <1>1, <1>2 DEF Moves, Row

LEMMA ReservesKeeps ==
  ASSUME InvIInv, ReservationsKept, NEW l \in StockLines, OrderReserves(l)
  PROVE  ReservationsKept'
<1> DEFINE n == stockLine[l].quantity
<1>1. PICK b \in Branches :
        /\ stockLine[l].state = "open"
        /\ Moves(b, 0, n)
        /\ stockLine' = [stockLine EXCEPT ![l].at = b, ![l].state = "reserved"]
  BY DEF OrderReserves
<1>2. /\ stockLine'[l].state = "reserved" /\ stockLine'[l].at = b /\ stockLine'[l].quantity = n
      /\ \A m \in StockLines \ {l} : stockLine'[m] = stockLine[m]
  BY <1>1 DEF InvIInv, InventoryTypeOK, StockLine
<1>3. LineQuantities' = LineQuantities
  BY <1>2 DEF LineQuantities
<1>4. /\ l \notin HeldAt(b) /\ HeldAt(b)' = HeldAt(b) \cup {l}
      /\ \A d \in Branches \ {b} : HeldAt(d)' = HeldAt(d)
  BY <1>1, <1>2 DEF HeldAt
<1>5. /\ stock'[b].reserved = stock[b].reserved + n
      /\ \A d \in Branches \ {b} : stock'[d] = stock[d]
  BY <1>1, MovesReserved
<1>6. SumFunctionOnSet(LineQuantities, HeldAt(b) \cup {l})
        = LineQuantities[l] + SumFunctionOnSet(LineQuantities, HeldAt(b))
  <2>1. IsFiniteSet(HeldAt(b)) /\ \A m \in HeldAt(b) \cup {l} : LineQuantities[m] \in Int
    BY HeldSums DEF InvIInv
  <2> QED
    BY <1>4, <2>1, SumAdd
<1>7. /\ LineQuantities[l] = n /\ n \in Nat
      /\ SumFunctionOnSet(LineQuantities, HeldAt(b)) \in Int
      /\ stock[b].reserved = SumFunctionOnSet(LineQuantities, HeldAt(b))
  BY HeldSums, KeptByBranch DEF InvIInv, LinesHold
<1>8. \A d \in Branches : stock'[d].reserved = SumFunctionOnSet(LineQuantities', HeldAt(d)')
  <2>1. stock'[b].reserved = SumFunctionOnSet(LineQuantities', HeldAt(b)')
    BY <1>3, <1>4, <1>5, <1>6, <1>7
  <2>2. \A d \in Branches \ {b} : stock'[d].reserved = SumFunctionOnSet(LineQuantities', HeldAt(d)')
    BY <1>3, <1>4, <1>5, KeptByBranch DEF LinesHold
  <2> QED
    BY <2>1, <2>2
<1> QED
  BY <1>8 DEF ReservationsKept, HeldAt, LineQuantities

LEMMA DeliversKeeps ==
  ASSUME InvIInv, ReservationsKept, NEW l \in StockLines, OrderDelivers(l)
  PROVE  ReservationsKept'
<1> DEFINE n == stockLine[l].quantity
<1>1. PICK b \in Branches :
        /\ b = stockLine[l].at /\ stockLine[l].state = "reserved"
        /\ Moves(b, -n, -n)
        /\ stockLine' = [stockLine EXCEPT ![l].state = "delivered"]
  BY DEF OrderDelivers, InvIInv, LinesPlaced
<1>2. /\ stockLine'[l].state = "delivered" /\ stockLine'[l].quantity = n
      /\ \A m \in StockLines \ {l} : stockLine'[m] = stockLine[m]
  BY <1>1 DEF InvIInv, InventoryTypeOK, StockLine
<1>3. LineQuantities' = LineQuantities
  BY <1>2 DEF LineQuantities
<1>4. /\ l \in HeldAt(b) /\ HeldAt(b)' = HeldAt(b) \ {l}
      /\ \A d \in Branches \ {b} : HeldAt(d)' = HeldAt(d)
  BY <1>1, <1>2 DEF HeldAt
<1>5. /\ stock'[b].reserved = stock[b].reserved + (-n)
      /\ \A d \in Branches \ {b} : stock'[d] = stock[d]
  BY <1>1, MovesReserved
<1>6. SumFunctionOnSet(LineQuantities, HeldAt(b))
        = LineQuantities[l] + SumFunctionOnSet(LineQuantities, HeldAt(b) \ {l})
  <2>1. IsFiniteSet(HeldAt(b)) /\ \A m \in HeldAt(b) : LineQuantities[m] \in Int
    BY <1>1, HeldSums DEF InvIInv
  <2> QED
    BY <1>4, <2>1, SumRemove
<1>7. /\ LineQuantities[l] = n /\ n \in Nat
      /\ stock[b].reserved = SumFunctionOnSet(LineQuantities, HeldAt(b))
  BY <1>1, HeldSums, KeptByBranch DEF InvIInv, LinesHold
<1>8. SumFunctionOnSet(LineQuantities, HeldAt(b) \ {l}) \in Int
  <2>1. IsFiniteSet(HeldAt(b) \ {l}) /\ \A m \in HeldAt(b) \ {l} : LineQuantities[m] \in Int
    BY <1>1, HeldSums, FS_RemoveElement DEF InvIInv
  <2> QED
    BY <2>1, SumInt
<1>9. \A d \in Branches : stock'[d].reserved = SumFunctionOnSet(LineQuantities', HeldAt(d)')
  <2>1. stock'[b].reserved = SumFunctionOnSet(LineQuantities', HeldAt(b)')
    BY <1>3, <1>4, <1>5, <1>6, <1>7, <1>8
  <2>2. \A d \in Branches \ {b} : stock'[d].reserved = SumFunctionOnSet(LineQuantities', HeldAt(d)')
    BY <1>3, <1>4, <1>5, KeptByBranch DEF LinesHold
  <2> QED
    BY <2>1, <2>2
<1> QED
  BY <1>9 DEF ReservationsKept, HeldAt, LineQuantities

LEMMA ReturnsKeeps ==
  ASSUME InvIInv, ReservationsKept, NEW l \in StockLines, OrderReturns(l)
  PROVE  ReservationsKept'
<1> DEFINE n == stockLine[l].quantity
           b == stockLine[l].at
<1>1. /\ b \in Branches /\ stockLine[l].state = "delivered"
      /\ Moves(b, n, 0)
      /\ stockLine' = [stockLine EXCEPT ![l].state = "returned"]
  BY DEF OrderReturns, InvIInv, LinesPlaced
<1>2. /\ stockLine'[l].state = "returned" /\ stockLine'[l].quantity = n
      /\ \A m \in StockLines \ {l} : stockLine'[m] = stockLine[m]
  BY <1>1 DEF InvIInv, InventoryTypeOK, StockLine
<1>3. LineQuantities' = LineQuantities /\ \A d \in Branches : HeldAt(d)' = HeldAt(d)
  BY <1>1, <1>2 DEF LineQuantities, HeldAt
<1>4. \A d \in Branches : stock'[d].reserved = stock[d].reserved
  <2>1. stock[b].reserved \in Nat
    BY <1>1 DEF InvIInv, InventoryTypeOK, Row
  <2> QED
    BY <1>1, <2>1, MovesReserved
<1>5. \A d \in Branches : stock'[d].reserved = SumFunctionOnSet(LineQuantities', HeldAt(d)')
  BY <1>3, <1>4, KeptByBranch DEF LinesHold
<1> QED
  BY <1>5 DEF ReservationsKept, HeldAt, LineQuantities

LEMMA KeptStep == InvIInv /\ ReservationsKept /\ [InventoryNext]_inventoryVars => ReservationsKept'
<1> SUFFICES ASSUME InvIInv, ReservationsKept, [InventoryNext]_inventoryVars
             PROVE  ReservationsKept'
  OBVIOUS
<1>1. ASSUME NEW c \in StaffCalls, StaffRead(c) \/ StaffStep(c) \/ StaffDies(c)
      PROVE  ReservationsKept'
  BY <1>1, StaffKeepsReserved, ReservedWrittenBack
<1>2. ASSUME NEW l \in StockLines, OrderReserves(l) \/ OrderDelivers(l) \/ OrderReturns(l)
      PROVE  ReservationsKept'
  BY <1>2, ReservesKeeps, DeliversKeeps, ReturnsKeeps
<1>3. CASE UNCHANGED inventoryVars
  BY <1>3, ReservedWrittenBack DEF inventoryVars
<1> QED
  BY <1>1, <1>2, <1>3 DEF InventoryNext

(* The reserved quantity of a row is at every moment the sum of what the open
   order lines hold there (createOrder, deliverOrder and returnOrder beside the
   four staff calls): also a staff call that writes over a changed row writes
   the quantity alone. *)
THEOREM ReservationsKeptHolds == InventorySpec => []ReservationsKept
<1>1. InventoryInit => ReservationsKept
  <2> SUFFICES ASSUME InventoryInit PROVE ReservationsKept
    OBVIOUS
  <2>1. \A b \in Branches : stock[b].reserved = 0
    BY DEF InventoryInit, NoRow
  <2>2. \A b \in Branches : HeldAt(b) = {}
    BY DEF InventoryInit, HeldAt
  <2>3. \A b \in Branches : LinesHold(b)
    BY <2>1, <2>2, SumEmpty DEF LinesHold
  <2> QED
    BY <2>3, KeptByBranch
<1> QED
  BY <1>1, InventoryInvariant, KeptStep, PTL DEF InventorySpec

-----------------------------------------------------------------------------
(* CartService.  What calls put into a cart, row by row, is not kept in    *)
(* the model: the invariant says that amounts P[k][v] exist that account   *)
(* for it.  No more was put into all carts than put says; an order took no *)
(* more from its cart than was put into it; what an item, a quantity read  *)
(* before an update, or the lines of a checkout under way hold is covered. *)

Live(i) == cartItem[i].cart # NoCart

ItemsInv ==
    /\ \A i \in Items : ~Live(i) => cartItem[i] \in {Unborn, Removed}
    /\ \A i \in Items : Live(i) => cartItem[i].variant \in Variants
    /\ \A i, j \in Items :
         Live(i) /\ cartItem[i].cart = cartItem[j].cart
           /\ cartItem[i].variant = cartItem[j].variant => i = j

CallInv(c) ==
    LET call == cartCall[c]
    IN  /\ call.at \notin {"idle", "newCart"} => call.cart \in Carts
        /\ call.at \in {"addFind", "addRaise", "addInsert"} => call.variant \in Variants
        /\ call.at \in {"addRaise", "updateFind", "updateSet", "removeDelete"} =>
              call.item \in Items /\ cartItem[call.item] # Unborn
        /\ call.at = "addRaise" /\ Live(call.item) =>
              /\ cartItem[call.item].cart = call.cart
              /\ cartItem[call.item].variant = call.variant

CallCovered(P, c) ==
    LET call == cartCall[c]
    IN  /\ call.at = "addRaise" => call.seen <= P[call.cart][call.variant]
        /\ call.at = "checkoutCommit" => \A v \in Variants : call.lines[v] <= P[call.cart][v]

ItemsCovered(P) ==
    \A i \in Items : Live(i) => cartItem[i].quantity <= P[cartItem[i].cart][cartItem[i].variant]

OfVariant(P, v) == [k \in Carts |-> P[k][v]]
OrdersCovered(P) ==
    \A v \in Variants : /\ SumFunctionOnSet(OfVariant(P, v), Carts) <= put[v]
                        /\ ordered[v] <= SumFunctionOnSet(OfVariant(P, v), ClosedCarts)

Amounted == [Carts -> [Variants -> Nat]]
Accounted(P) ==
    /\ OrdersCovered(P)
    /\ ItemsCovered(P)
    /\ \A c \in CartCalls : CallCovered(P, c)

CartInv ==
    /\ CartTypeOK
    /\ ItemsInv
    /\ \A c \in CartCalls : CallInv(c)
    /\ \E P \in Amounted : Accounted(P)

-----------------------------------------------------------------------------
LEMMA RemovedType ==
  /\ Removed.cart = NoCart /\ Unborn.cart = NoCart /\ Removed # Unborn
  /\ Removed \in [cart : Carts \cup {NoCart}, variant : Variants \cup {NoVariant}, quantity : Nat]
  /\ Unborn \in [cart : Carts \cup {NoCart}, variant : Variants \cup {NoVariant}, quantity : Nat]
  BY DEF Removed, Unborn, CartRow

LEMMA NoCartCallType == NoCartCall \in CartCall
<1>1. NoLines \in [Variants -> Nat]
  BY DEF NoLines
<1> QED
  BY <1>1 DEF NoCartCall, CartCall, CartStages

LEMMA CartFinite ==
  /\ IsFiniteSet(Carts) /\ IsFiniteSet(Items)
  /\ IsFiniteSet(ClosedCarts) /\ ClosedCarts \in SUBSET Carts
<1>1. IsFiniteSet(Carts) /\ IsFiniteSet(Items) /\ ClosedCarts \in SUBSET Carts
  BY CartAssumption DEF ClosedCarts
<1> QED
  BY <1>1, FS_Subset

LEMMA MaxOfTwo ==
  ASSUME NEW n \in Int
  PROVE  Max({n, 0}) \in Nat /\ n <= Max({n, 0}) /\ (n >= 0 => Max({n, 0}) = n)
<1>1. \E x \in {n, 0} : \A y \in {n, 0} : x >= y
  OBVIOUS
<1>2. Max({n, 0}) \in {n, 0} /\ \A y \in {n, 0} : Max({n, 0}) >= y
  BY <1>1 DEF Max
<1> QED
  BY <1>2

LEMMA CartInitial == CartInit => CartInv
<1> SUFFICES ASSUME CartInit PROVE CartInv
  OBVIOUS
<1>1. CartTypeOK
  BY NoCartCallType, RemovedType DEF CartInit, CartTypeOK
<1>2. ItemsInv /\ \A i \in Items : ~Live(i)
  BY RemovedType DEF CartInit, ItemsInv, Live
<1>3. \A c \in CartCalls : cartCall[c] = NoCartCall
  BY DEF CartInit
<1>4. \A c \in CartCalls : CallInv(c)
  BY <1>3 DEF CallInv, NoCartCall
<1> DEFINE P == [k \in Carts |-> [v \in Variants |-> 0]]
<1>5. P \in Amounted
  BY DEF Amounted
<1>6. \A v \in Variants : \A k \in Carts : OfVariant(P, v)[k] = 0
  BY DEF OfVariant
<1> HIDE DEF P
<1>7. OrdersCovered(P)
  <2> SUFFICES ASSUME NEW v \in Variants
               PROVE  /\ SumFunctionOnSet(OfVariant(P, v), Carts) <= put[v]
                      /\ ordered[v] <= SumFunctionOnSet(OfVariant(P, v), ClosedCarts)
    BY DEF OrdersCovered
  <2>1. /\ SumFunctionOnSet(OfVariant(P, v), Carts) = 0
        /\ SumFunctionOnSet(OfVariant(P, v), ClosedCarts) = 0
    BY <1>6, CartFinite, SumZero
  <2> QED
    BY <2>1 DEF CartInit
<1>8. \A c \in CartCalls : CallCovered(P, c)
  BY <1>3 DEF CallCovered, NoCartCall
<1> QED
  BY <1>1, <1>2, <1>4, <1>5, <1>7, <1>8 DEF CartInv, Accounted, ItemsCovered

-----------------------------------------------------------------------------
(* Steps that only move a call.                                            *)

LEMMA CallMoves ==
  ASSUME CartInv, NEW c \in CartCalls, NEW call \in CartCall,
         cartCall' = [cartCall EXCEPT ![c] = call],
         UNCHANGED << cartStatus, cartItem, put, ordered >>,
         CallInv(c)',
         \A P \in Amounted : Accounted(P) => CallCovered(P, c)'
  PROVE  CartInv'
<1>1. cartCall'[c] = call /\ \A d \in CartCalls \ {c} : cartCall'[d] = cartCall[d]
  BY DEF CartInv, CartTypeOK
<1>2. CartTypeOK' /\ ItemsInv'
  BY DEF CartInv, CartTypeOK, ItemsInv, Live
<1>3. \A d \in CartCalls \ {c} : CallInv(d)'
  BY <1>1 DEF CartInv, CallInv, Live
<1>4. ASSUME NEW P \in Amounted, Accounted(P)
      PROVE  Accounted(P)'
  <2>1. \A d \in CartCalls \ {c} : CallCovered(P, d)'
    BY <1>1, <1>4 DEF Accounted, CallCovered
  <2>2. CallCovered(P, c)'
    BY <1>4
  <2>3. OrdersCovered(P)' /\ ItemsCovered(P)'
    BY <1>4 DEF Accounted, OrdersCovered, ItemsCovered, OfVariant, ClosedCarts, Live
  <2> QED
    BY <2>1, <2>2, <2>3 DEF Accounted
<1> QED
  BY <1>2, <1>3, <1>4 DEF CartInv

LEMMA CallEnds ==
  ASSUME CartInv, NEW c \in CartCalls, CartDone(c),
         UNCHANGED << cartStatus, cartItem, put, ordered >>
  PROVE  CartInv'
<1>1. cartCall'[c] = NoCartCall
  BY DEF CartDone, CartInv, CartTypeOK
<1>2. CallInv(c)' /\ \A P \in Amounted : CallCovered(P, c)'
  BY <1>1 DEF CallInv, CallCovered, NoCartCall
<1> QED
  BY <1>2, CallMoves, NoCartCallType DEF CartDone

(* A call begins with the cart it has looked up.                           *)
LEMMA CallBegins ==
  ASSUME CartInv, NEW c \in CartCalls,
         CartFind(c) \/ AddCheck(c) \/ UpdateCheck(c) \/ ClearCheck(c) \/ RemoveFind(c)
           \/ CheckoutCart(c)
  PROVE  CartInv'
<1>1. PICK call \in CartCall :
        /\ cartCall' = [cartCall EXCEPT ![c] = call]
        /\ call.at \in {"newCart", "addFind", "updateFind", "clear", "removeDelete", "checkoutItems"}
        /\ call.at # "newCart" => call.cart \in Carts
        /\ call.at = "addFind" => call.variant \in Variants
        /\ call.at \in {"updateFind", "removeDelete"} =>
              call.item \in Items /\ cartItem[call.item] # Unborn
  <2>0. NoCartCall \in CartCall
    BY NoCartCallType
  <2>1. CASE CartFind(c)
    <3> DEFINE call == [NoCartCall EXCEPT !.at = "newCart"]
    <3>1. call \in CartCall /\ call.at = "newCart"
      BY <2>0 DEF CartCall, CartStages, NoCartCall
    <3> QED
      BY <2>1, <3>1 DEF CartFind, CartBegin
  <2>2. CASE AddCheck(c)
    <3>1. PICK k \in Carts, v \in Variants :
            /\ OpenFor(k)
            /\ CartBegin(c, [NoCartCall EXCEPT !.at = "addFind", !.cart = k, !.variant = v,
                                               !.asked = 1])
      BY <2>2 DEF AddCheck
    <3> DEFINE call == [NoCartCall EXCEPT !.at = "addFind", !.cart = k, !.variant = v,
                                          !.asked = 1]
    <3>3. /\ call \in CartCall /\ call.at = "addFind" /\ call.cart = k
          /\ call.variant = v
      BY <2>0 DEF CartCall, CartStages, NoCartCall
    <3> QED
      BY <3>1, <3>3 DEF CartBegin
  <2>3. CASE UpdateCheck(c)
    <3>1. PICK k \in Carts, i \in Items, n \in 1 .. MaxPut :
            /\ OpenFor(k) /\ cartItem[i] # Unborn
            /\ CartBegin(c, [NoCartCall EXCEPT !.at = "updateFind", !.cart = k, !.item = i,
                                               !.asked = n])
      BY <2>3 DEF UpdateCheck
    <3> DEFINE call == [NoCartCall EXCEPT !.at = "updateFind", !.cart = k, !.item = i,
                                          !.asked = n]
    <3>2. n \in Nat
      BY CartAssumption
    <3>3. /\ call \in CartCall /\ call.at = "updateFind" /\ call.cart = k
          /\ call.item = i
      BY <2>0, <3>2 DEF CartCall, CartStages, NoCartCall
    <3> QED
      BY <3>1, <3>3 DEF CartBegin
  <2>4. CASE ClearCheck(c)
    <3>1. PICK k \in Carts :
            /\ OpenFor(k)
            /\ CartBegin(c, [NoCartCall EXCEPT !.at = "clear", !.cart = k])
      BY <2>4 DEF ClearCheck
    <3> DEFINE call == [NoCartCall EXCEPT !.at = "clear", !.cart = k]
    <3>3. call \in CartCall /\ call.at = "clear" /\ call.cart = k
      BY <2>0 DEF CartCall, CartStages, NoCartCall
    <3> QED
      BY <3>1, <3>3 DEF CartBegin
  <2>5. CASE RemoveFind(c)
    <3>1. PICK k \in Created : \E i \in ItemsOf(k) :
            CartBegin(c, [NoCartCall EXCEPT !.at = "removeDelete", !.cart = k, !.item = i])
      BY <2>5 DEF RemoveFind
    <3>4. PICK i \in ItemsOf(k) :
            CartBegin(c, [NoCartCall EXCEPT !.at = "removeDelete", !.cart = k, !.item = i])
      BY <3>1
    <3> DEFINE call == [NoCartCall EXCEPT !.at = "removeDelete", !.cart = k, !.item = i]
    <3>2. k \in Carts /\ i \in Items /\ cartItem[i] # Unborn
      BY CartAssumption, RemovedType DEF Created, ItemsOf
    <3>3. /\ call \in CartCall /\ call.at = "removeDelete" /\ call.cart = k
          /\ call.item = i
      BY <2>0, <3>2 DEF CartCall, CartStages, NoCartCall
    <3> QED
      BY <3>2, <3>3, <3>4 DEF CartBegin
  <2>6. CASE CheckoutCart(c)
    <3>1. PICK k \in ActiveCarts :
            CartBegin(c, [NoCartCall EXCEPT !.at = "checkoutItems", !.cart = k])
      BY <2>6 DEF CheckoutCart
    <3> DEFINE call == [NoCartCall EXCEPT !.at = "checkoutItems", !.cart = k]
    <3>2. k \in Carts
      BY DEF ActiveCarts
    <3>3. call \in CartCall /\ call.at = "checkoutItems" /\ call.cart = k
      BY <2>0, <3>2 DEF CartCall, CartStages, NoCartCall
    <3> QED
      BY <3>1, <3>2, <3>3 DEF CartBegin
  <2> QED
    BY <2>1, <2>2, <2>3, <2>4, <2>5, <2>6
<1>2. UNCHANGED << cartStatus, cartItem, put, ordered >>
  BY DEF CartFind, AddCheck, UpdateCheck, ClearCheck, RemoveFind, CheckoutCart
<1>3. cartCall'[c] = call
  BY <1>1 DEF CartInv, CartTypeOK
<1>4. CallInv(c)' /\ \A P \in Amounted : CallCovered(P, c)'
  BY <1>1, <1>2, <1>3 DEF CallInv, CallCovered
<1> QED
  BY <1>1, <1>2, <1>4, CallMoves

(* A call goes on with what it has read.                                   *)
LEMMA OneItem ==
  ASSUME CartInv, NEW P \in Amounted, Accounted(P), NEW k \in Carts, NEW v \in Variants
  PROVE  LET sum == SumFunctionOnSet([i \in Items |-> cartItem[i].quantity], ItemsFor(k, v))
         IN  sum \in Nat /\ sum <= P[k][v]
<1> DEFINE f == [i \in Items |-> cartItem[i].quantity]
<1>0. P[k][v] \in Nat
  BY DEF Amounted
<1>1. CASE ItemsFor(k, v) = {}
  BY <1>0, <1>1, SumEmpty
<1>2. CASE ItemsFor(k, v) # {}
  <2>1. PICK i \in ItemsFor(k, v) : TRUE
    BY <1>2
  <2>2. i \in Items /\ cartItem[i].cart = k /\ cartItem[i].variant = v /\ Live(i)
    BY CartAssumption DEF ItemsFor, ItemsOf, Live
  <2>3. ItemsFor(k, v) = {i}
    BY <2>2 DEF CartInv, ItemsInv, ItemsFor, ItemsOf
  <2>4. f[i] \in Nat /\ f[i] <= P[k][v]
    BY <2>2 DEF CartInv, CartTypeOK, Accounted, ItemsCovered
  <2> HIDE DEF f
  <2>5. SumFunctionOnSet(f, {i}) = f[i] + SumFunctionOnSet(f, {i} \ {i})
    <3>1. IsFiniteSet({i})
      BY FS_Singleton, Zenon
    <3>2. \A j \in {i} : f[j] \in Int
      BY <2>4
    <3> QED
      BY <3>1, <3>2, SumRemove
  <2>6. SumFunctionOnSet(f, {i} \ {i}) = 0
    BY SumEmpty, {i} \ {i} = {}
  <2> QED
    BY <2>3, <2>4, <2>5, <2>6 DEF f
<1> QED
  BY <1>1, <1>2

LEMMA CallGoesOn ==
  ASSUME CartInv, NEW c \in CartCalls, AddFind(c) \/ UpdateFind(c) \/ CheckoutItems(c)
  PROVE  CartInv'
<1> DEFINE old == cartCall[c]
<1>0. old \in CartCall /\ CallInv(c) /\ UNCHANGED << cartStatus, cartItem, put, ordered >>
  BY DEF CartInv, CartTypeOK, AddFind, UpdateFind, CheckoutItems
<1>1. CASE CartDone(c)
  BY <1>0, <1>1, CallEnds
<1>2. ASSUME NEW stage \in {"addInsert", "updateSet"}, CartGoto(c, stage),
             \/ stage = "addInsert" /\ old.at = "addFind"
             \/ stage = "updateSet" /\ old.at = "updateFind"
      PROVE  CartInv'
  <2> DEFINE call == [old EXCEPT !.at = stage]
  <2>1. cartCall' = [cartCall EXCEPT ![c] = call]
    BY <1>2 DEF CartGoto
  <2>2. /\ call \in CartCall /\ call.at = stage /\ call.cart = old.cart /\ call.item = old.item
        /\ call.variant = old.variant
    BY <1>0, <1>2 DEF CartCall, CartStages
  <2> HIDE DEF call
  <2>3. cartCall'[c] = call
    BY <2>1 DEF CartInv, CartTypeOK
  <2>4. CallInv(c)' /\ \A P \in Amounted : CallCovered(P, c)'
    BY <1>0, <1>2, <2>2, <2>3 DEF CallInv, CallCovered
  <2> QED
    BY <1>0, <2>1, <2>2, <2>4, CallMoves
<1>3. ASSUME NEW i \in ItemsFor(old.cart, old.variant), old.at = "addFind",
             cartCall' = [cartCall EXCEPT ![c].at = "addRaise", ![c].item = i,
                                          ![c].seen = cartItem[i].quantity]
      PROVE  CartInv'
  <2> DEFINE call == [[[old EXCEPT !.at = "addRaise"] EXCEPT !.item = i]
                           EXCEPT !.seen = cartItem[i].quantity]
  <2>1. /\ i \in Items /\ cartItem[i].cart = old.cart /\ cartItem[i].variant = old.variant
        /\ old.cart \in Carts /\ old.variant \in Variants /\ Live(i) /\ cartItem[i] # Unborn
        /\ cartItem[i].quantity \in Nat
    BY <1>0, <1>3, CartAssumption, RemovedType
       DEF CallInv, ItemsFor, ItemsOf, Live, CartInv, CartTypeOK
  <2>2. cartCall' = [cartCall EXCEPT ![c] = call]
    BY <1>0, <1>3 DEF CartInv, CartTypeOK, CartCall
  <2>3. /\ call \in CartCall /\ call.at = "addRaise" /\ call.cart = old.cart /\ call.item = i
        /\ call.variant = old.variant /\ call.seen = cartItem[i].quantity
    BY <1>0, <2>1 DEF CartCall, CartStages
  <2> HIDE DEF call
  <2>4. cartCall'[c] = call
    BY <2>2 DEF CartInv, CartTypeOK
  <2>5. CallInv(c)'
    BY <1>0, <2>1, <2>3, <2>4 DEF CallInv
  <2>6. \A P \in Amounted : Accounted(P) => CallCovered(P, c)'
    BY <2>1, <2>3, <2>4 DEF CallCovered, Accounted, ItemsCovered
  <2> QED
    BY <1>0, <2>2, <2>3, <2>5, <2>6, CallMoves
<1>4. CASE CheckoutItems(c) /\ ~CartDone(c)
  <2> DEFINE k == old.cart
             f == [i \in Items |-> cartItem[i].quantity]
             lines == [v \in Variants |-> SumFunctionOnSet(f, ItemsFor(k, v))]
             call == [[old EXCEPT !.at = "checkoutCommit"] EXCEPT !.lines = lines]
  <2>1. old.at = "checkoutItems" /\ k \in Carts
    BY <1>0, <1>4 DEF CheckoutItems, CallInv
  <2>2. \A P \in Amounted : Accounted(P) => \A v \in Variants :
          SumFunctionOnSet(f, ItemsFor(k, v)) \in Nat
            /\ SumFunctionOnSet(f, ItemsFor(k, v)) <= P[k][v]
    BY <2>1, OneItem
  <2>3. cartCall' = [cartCall EXCEPT ![c].at = "checkoutCommit", ![c].lines = lines]
    BY <1>4 DEF CheckoutItems
  <2> HIDE DEF f
  <2>4. lines \in [Variants -> Nat]
    BY <2>2 DEF CartInv
  <2>5. \A P \in Amounted : Accounted(P) => \A v \in Variants : lines[v] <= P[k][v]
    BY <2>2
  <2> HIDE DEF lines
  <2>6. cartCall' = [cartCall EXCEPT ![c] = call]
    BY <1>0, <2>3 DEF CartInv, CartTypeOK, CartCall
  <2>7. /\ call \in CartCall /\ call.at = "checkoutCommit" /\ call.cart = k
        /\ call.lines = lines
    BY <1>0, <2>4 DEF CartCall, CartStages
  <2> HIDE DEF call
  <2>8. cartCall'[c] = call
    BY <2>6 DEF CartInv, CartTypeOK
  <2>9. CallInv(c)'
    BY <1>0, <2>1, <2>7, <2>8 DEF CallInv
  <2>10. \A P \in Amounted : Accounted(P) => CallCovered(P, c)'
    BY <2>5, <2>7, <2>8 DEF CallCovered
  <2> QED
    BY <1>0, <2>6, <2>7, <2>9, <2>10, CallMoves
<1>5. CASE AddFind(c)
  BY <1>2, <1>3, <1>5 DEF AddFind
<1>6. CASE UpdateFind(c)
  BY <1>1, <1>2, <1>6 DEF UpdateFind
<1> QED
  BY <1>1, <1>4, <1>5, <1>6

-----------------------------------------------------------------------------
(* Steps that write.                                                       *)

AtLeast(P, Q) == \A k \in Carts, v \in Variants : P[k][v] <= Q[k][v]
Credits(P, Q, k, v, n) == AtLeast(P, Q) /\ Q[k][v] = P[k][v] + n

(* A row that was born stays so, and keeps its cart and variant while it   *)
(* lives.                                                                  *)
RowsStay ==
  \A i \in Items : cartItem[i] # Unborn =>
    /\ cartItem'[i] # Unborn
    /\ cartItem'[i].cart # NoCart => /\ cartItem'[i].cart = cartItem[i].cart
                                     /\ cartItem'[i].variant = cartItem[i].variant

(* Another call goes on as it was; that its cart has closed it is not told. *)
GoesOn(d) ==
  /\ cartCall'[d].at = cartCall[d].at /\ cartCall'[d].cart = cartCall[d].cart
  /\ cartCall'[d].item = cartCall[d].item /\ cartCall'[d].variant = cartCall[d].variant
  /\ cartCall'[d].asked = cartCall[d].asked /\ cartCall'[d].seen = cartCall[d].seen
  /\ cartCall'[d].lines = cartCall[d].lines

Leaves(c) == cartCall'[c] = NoCartCall /\ \A d \in CartCalls \ {c} : GoesOn(d)

LEMMA DoneLeaves ==
  ASSUME CartInv, NEW c \in CartCalls, CartDone(c)
  PROVE  Leaves(c)
  BY DEF CartDone, CartInv, CartTypeOK, Leaves, GoesOn

LEMMA CatchesLeaves ==
  ASSUME CartInv, NEW c \in CartCalls, NEW k, Catches(c, k)
  PROVE  Leaves(c) /\ cartCall' \in [CartCalls -> CartCall]
<1>1. /\ cartCall'[c] = NoCartCall
      /\ \A d \in CartCalls \ {c} :
            cartCall'[d] = [cartCall[d] EXCEPT !.caught = cartCall[d].caught \/ cartCall[d].cart = k]
  BY DEF Catches
<1>2. ASSUME NEW d \in CartCalls \ {c}
      PROVE  GoesOn(d) /\ cartCall'[d] \in CartCall
  <2> DEFINE caught == cartCall[d].caught \/ cartCall[d].cart = k
  <2>1. cartCall[d] \in CartCall /\ cartCall'[d] = [cartCall[d] EXCEPT !.caught = caught]
    BY <1>1 DEF CartInv, CartTypeOK
  <2>2. caught \in BOOLEAN
    BY DEF CartInv, CartTypeOK, CartCall
  <2> HIDE DEF caught
  <2> QED
    BY <2>1, <2>2 DEF GoesOn, CartCall
<1>3. cartCall' \in [CartCalls -> CartCall]
  <2>1. \A d \in CartCalls : cartCall'[d] \in CartCall
    BY <1>1, <1>2, NoCartCallType
  <2>2. cartCall' = [d \in CartCalls |-> cartCall'[d]]
    BY DEF Catches
  <2> QED
    BY <2>1, <2>2
<1> QED
  BY <1>1, <1>2, <1>3 DEF Leaves

LEMMA WriteEnds ==
  ASSUME CartInv, NEW c \in CartCalls, Leaves(c), CartTypeOK', ItemsInv', RowsStay,
         \A P \in Amounted : Accounted(P) =>
           \E Q \in Amounted : AtLeast(P, Q) /\ OrdersCovered(Q)' /\ ItemsCovered(Q)'
  PROVE  CartInv'
<1>1. cartCall'[c] = NoCartCall /\ \A d \in CartCalls \ {c} : GoesOn(d)
  BY DEF Leaves
<1>2. \A d \in CartCalls : CallInv(d)'
  <2> SUFFICES ASSUME NEW d \in CartCalls
               PROVE  CallInv(d)'
    OBVIOUS
  <2>1. CASE d = c
    BY <1>1, <2>1 DEF CallInv, NoCartCall
  <2>2. CASE d # c
    BY <1>1, <2>2 DEF CartInv, CallInv, RowsStay, Live, GoesOn
  <2> QED
    BY <2>1, <2>2
<1>3. PICK P \in Amounted : Accounted(P)
  BY DEF CartInv
<1>4. PICK Q \in Amounted : AtLeast(P, Q) /\ OrdersCovered(Q)' /\ ItemsCovered(Q)'
  BY <1>3
<1>5. ASSUME NEW d \in CartCalls
      PROVE  CallCovered(Q, d)'
  <2>1. CASE d = c
    BY <1>1, <2>1 DEF CallCovered, NoCartCall
  <2>2. CASE d # c
    <3> DEFINE call == cartCall[d]
    <3>1. GoesOn(d) /\ CallInv(d) /\ CallCovered(P, d) /\ call \in CartCall
      BY <1>1, <1>3, <2>2 DEF Accounted, CartInv, CartTypeOK
    <3>2. /\ call.seen \in Nat /\ \A v \in Variants : call.lines[v] \in Nat
          /\ \A k \in Carts, v \in Variants :
               P[k][v] \in Nat /\ Q[k][v] \in Nat /\ P[k][v] <= Q[k][v]
      BY <1>4, <3>1 DEF CartCall, Amounted, AtLeast
    <3>3. /\ call.at \in {"addRaise", "checkoutCommit"} => call.cart \in Carts
          /\ call.at = "addRaise" => call.variant \in Variants
      BY <3>1 DEF CallInv
    <3> HIDE DEF call
    <3>4. /\ call.at = "addRaise" => call.seen <= Q[call.cart][call.variant]
          /\ call.at = "checkoutCommit" => \A v \in Variants : call.lines[v] <= Q[call.cart][v]
      BY <3>1, <3>2, <3>3 DEF CallCovered, call
    <3> QED
      BY <3>1, <3>4 DEF CallCovered, GoesOn, call
  <2> QED
    BY <2>1, <2>2
<1> QED
  BY <1>2, <1>4, <1>5 DEF CartInv, Accounted

(* What is put into a cart counts for that cart.                           *)
LEMMA PutCounts ==
  ASSUME NEW P \in Amounted, OrdersCovered(P), CartTypeOK,
         NEW k \in Carts, NEW v \in Variants, NEW n \in Nat,
         put' = [put EXCEPT ![v] = put[v] + n], cartStatus' = cartStatus, ordered' = ordered
  PROVE  \E Q \in Amounted : Credits(P, Q, k, v, n) /\ OrdersCovered(Q)'
<1> DEFINE row == [P[k] EXCEPT ![v] = P[k][v] + n]
           Q == [P EXCEPT ![k] = row]
<1>1. \A j \in Carts, w \in Variants : P[j][w] \in Nat
  BY DEF Amounted
<1>2. row \in [Variants -> Nat] /\ row[v] = P[k][v] + n
      /\ \A w \in Variants \ {v} : row[w] = P[k][w]
  BY <1>1 DEF Amounted
<1> HIDE DEF row
<1>3. Q \in Amounted /\ Q[k] = row /\ \A j \in Carts \ {k} : Q[j] = P[j]
  BY <1>2 DEF Amounted
<1> HIDE DEF Q
<1>4. AtLeast(P, Q)
  BY <1>1, <1>2, <1>3 DEF AtLeast
<1>5. ClosedCarts' = ClosedCarts
  BY DEF ClosedCarts
<1>6. ASSUME NEW w \in Variants
      PROVE  /\ SumFunctionOnSet(OfVariant(Q, w), Carts) <= put'[w]
             /\ ordered'[w] <= SumFunctionOnSet(OfVariant(Q, w), ClosedCarts)
  <2> DEFINE f == OfVariant(P, w)
             g == OfVariant(Q, w)
             more == IF w = v THEN n ELSE 0
  <2>1. /\ \A j \in Carts : f[j] \in Int /\ g[j] \in Int
        /\ g[k] = f[k] + more /\ \A j \in Carts \ {k} : g[j] = f[j]
    BY <1>1, <1>2, <1>3 DEF OfVariant
  <2>2. more \in Nat
    OBVIOUS
  <2>3. /\ put[w] \in Nat /\ ordered[w] \in Nat /\ put'[w] = put[w] + more /\ ordered'[w] = ordered[w]
    BY DEF CartTypeOK
  <2>4. /\ SumFunctionOnSet(f, Carts) <= put[w]
        /\ ordered[w] <= SumFunctionOnSet(f, ClosedCarts)
    BY DEF OrdersCovered
  <2> HIDE DEF f, g, more
  <2>5. SumFunctionOnSet(g, Carts) = SumFunctionOnSet(f, Carts) + (g[k] - f[k])
    BY <2>1, CartFinite, SumChange
  <2>6. SumFunctionOnSet(f, Carts) \in Int /\ SumFunctionOnSet(f, ClosedCarts) \in Int
    BY <2>1, CartFinite, SumInt
  <2>7. g[k] - f[k] = more
    BY <2>1, <2>2
  <2>8. SumFunctionOnSet(f, ClosedCarts) <= SumFunctionOnSet(g, ClosedCarts)
    <3>1. CASE k \in ClosedCarts
      <4>1. SumFunctionOnSet(g, ClosedCarts) = SumFunctionOnSet(f, ClosedCarts) + (g[k] - f[k])
        BY <2>1, <3>1, CartFinite, SumChange
      <4> QED
        BY <2>2, <2>6, <2>7, <4>1
    <3>2. CASE k \notin ClosedCarts
      <4>1. \A j \in ClosedCarts : f[j] = g[j]
        BY <2>1, <3>2, CartFinite
      <4>2. SumFunctionOnSet(f, ClosedCarts) = SumFunctionOnSet(g, ClosedCarts)
        BY <4>1, CartFinite, SumSame
      <4> QED
        BY <2>6, <4>2
    <3> QED
      BY <3>1, <3>2
  <2>9. SumFunctionOnSet(g, ClosedCarts) \in Int
    BY <2>1, CartFinite, SumInt
  <2>10. SumFunctionOnSet(g, Carts) <= put'[w] /\ ordered'[w] <= SumFunctionOnSet(g, ClosedCarts)
    BY <2>2, <2>3, <2>4, <2>5, <2>6, <2>7, <2>8, <2>9
  <2> QED
    BY <2>10 DEF g
<1>7. OrdersCovered(Q)'
  BY <1>5, <1>6 DEF OrdersCovered
<1> QED
  BY <1>2, <1>3, <1>4, <1>7 DEF Credits

(* A row is inserted or its quantity updated, and what it gains is put     *)
(* into its cart.                                                          *)
LEMMA RowWritten ==
  ASSUME CartInv, NEW c \in CartCalls, CartDone(c),
         NEW i \in Items, NEW k \in Carts, NEW v \in Variants, NEW q \in Nat, NEW n \in Nat,
         cartItem' = [cartItem EXCEPT ![i] = CartRow(k, v, q)],
         put' = [put EXCEPT ![v] = put[v] + n], UNCHANGED << cartStatus, ordered >>,
         \/ cartItem[i] = Unborn /\ ItemsFor(k, v) = {}
         \/ Live(i) /\ cartItem[i].cart = k /\ cartItem[i].variant = v,
         \A P \in Amounted : Accounted(P) => q <= P[k][v] + n
  PROVE  CartInv'
<1> DEFINE row == CartRow(k, v, q)
<1>1. /\ row.cart = k /\ row.variant = v /\ row.quantity = q /\ k # NoCart
      /\ row \in [cart : Carts \cup {NoCart}, variant : Variants \cup {NoVariant}, quantity : Nat]
  BY CartAssumption DEF CartRow
<1> HIDE DEF row
<1>2. cartItem'[i] = row /\ \A j \in Items \ {i} : cartItem'[j] = cartItem[j]
  BY DEF CartInv, CartTypeOK, row
<1>3. CartTypeOK'
  <2>1. put' \in [Variants -> Nat]
    BY DEF CartInv, CartTypeOK
  <2>2. cartItem' \in [Items -> [cart : Carts \cup {NoCart}, variant : Variants \cup {NoVariant},
                                 quantity : Nat]]
    BY <1>1 DEF CartInv, CartTypeOK, row
  <2>3. cartCall' \in [CartCalls -> CartCall]
    BY NoCartCallType DEF CartInv, CartTypeOK, CartDone
  <2> QED
    BY <2>1, <2>2, <2>3 DEF CartInv, CartTypeOK
<1>4. row # Unborn /\ Live(i)' /\ \A j \in Items \ {i} : Live(j)' <=> Live(j)
  BY <1>1, <1>2, RemovedType DEF Live
<1>5. ItemsInv'
  <2>1. \A j \in Items \ {i} : Live(j) => ~(cartItem[j].cart = k /\ cartItem[j].variant = v)
    BY DEF CartInv, ItemsInv, ItemsFor, ItemsOf
  <2> QED
    BY <1>1, <1>2, <1>4, <2>1 DEF CartInv, ItemsInv, Live
<1>6. RowsStay
  BY <1>1, <1>2, <1>4 DEF RowsStay
<1>7. ASSUME NEW P \in Amounted, Accounted(P)
      PROVE  \E Q \in Amounted : AtLeast(P, Q) /\ OrdersCovered(Q)' /\ ItemsCovered(Q)'
  <2>1. PICK Q \in Amounted : Credits(P, Q, k, v, n) /\ OrdersCovered(Q)'
    <3>1. OrdersCovered(P) /\ CartTypeOK
      BY <1>7 DEF Accounted, CartInv
    <3>2. /\ put' = [put EXCEPT ![v] = put[v] + n]
          /\ cartStatus' = cartStatus /\ ordered' = ordered
      OBVIOUS
    <3>3. k \in Carts /\ v \in Variants /\ n \in Nat /\ P \in Amounted
      BY <1>7
    <3> QED
      BY <3>1, <3>2, <3>3, PutCounts
  <2>2. q <= Q[k][v]
    BY <1>7, <2>1 DEF Credits
  <2>3. ASSUME NEW j \in Items \ {i}, Live(j)
        PROVE  cartItem[j].quantity <= Q[cartItem[j].cart][cartItem[j].variant]
    <3>1. cartItem[j].cart \in Carts /\ cartItem[j].variant \in Variants /\ cartItem[j].quantity \in Nat
      BY <2>3 DEF CartInv, CartTypeOK, ItemsInv, Live
    <3>2. cartItem[j].quantity <= P[cartItem[j].cart][cartItem[j].variant]
      BY <1>7, <2>3 DEF Accounted, ItemsCovered
    <3> QED
      BY <2>1, <3>1, <3>2 DEF Credits, AtLeast, Amounted
  <2>4. ItemsCovered(Q)'
    BY <1>1, <1>2, <1>4, <2>2, <2>3 DEF ItemsCovered
  <2> QED
    BY <2>1, <2>4 DEF Credits
<1> QED
  BY <1>3, <1>5, <1>6, <1>7, DoneLeaves, WriteEnds

LEMMA AddWrites ==
  ASSUME CartInv, NEW c \in CartCalls, AddRaise(c) \/ AddInsert(c) \/ UpdateSet(c)
  PROVE  CartInv'
<1> DEFINE call == cartCall[c]
           i == call.item
           k == call.cart
           v == call.variant
<1>1. /\ call \in CartCall /\ call.asked \in Nat /\ call.seen \in Nat /\ CallInv(c)
      /\ CartDone(c) /\ UNCHANGED << cartStatus, ordered >>
  BY DEF CartInv, CartTypeOK, CartCall, AddRaise, AddInsert, UpdateSet
<1>2. CASE UNCHANGED << cartItem, put >>
  BY <1>1, <1>2, CallEnds
<1>3. CASE AddRaise(c) /\ ~UNCHANGED << cartItem, put >>
  <2>1. /\ call.at = "addRaise" /\ cartItem[i] # Removed
        /\ cartItem' = [cartItem EXCEPT ![i].quantity = call.seen + call.asked]
        /\ Raises(v, call.asked)
    BY <1>3 DEF AddRaise
  <2>2. /\ k \in Carts /\ v \in Variants /\ i \in Items /\ Live(i)
        /\ cartItem[i].cart = k /\ cartItem[i].variant = v
    BY <1>1, <2>1 DEF CallInv, CartInv, ItemsInv
  <2>3. put' = [put EXCEPT ![v] = put[v] + call.asked]
    <3>1. Max({call.asked, 0}) = call.asked
      BY <1>1, MaxOfTwo
    <3>2. put' = [put EXCEPT ![v] = put[v] + Max({call.asked, 0})]
      BY <2>1 DEF Raises
    <3> QED
      BY <3>1, <3>2
  <2>4. cartItem' = [cartItem EXCEPT ![i] = CartRow(k, v, call.seen + call.asked)]
    <3>1. [cartItem[i] EXCEPT !.quantity = call.seen + call.asked]
             = CartRow(k, v, call.seen + call.asked)
      BY <2>2 DEF CartInv, CartTypeOK, CartRow
    <3> QED
      BY <2>1, <3>1
  <2>5. \A P \in Amounted : Accounted(P) => call.seen + call.asked <= P[k][v] + call.asked
    BY <1>1, <2>1, <2>2 DEF Accounted, CallCovered, Amounted
  <2>6. call.seen + call.asked \in Nat
    BY <1>1
  <2> HIDE DEF call, i, k, v
  <2> QED
    BY <1>1, <2>2, <2>3, <2>4, <2>5, <2>6, RowWritten
<1>4. CASE AddInsert(c) /\ ~UNCHANGED << cartItem, put >>
  <2>1. call.at = "addInsert" /\ ItemsFor(k, v) = {}
    BY <1>4 DEF AddInsert
  <2>2. PICK j \in NextItem :
          /\ cartItem' = [cartItem EXCEPT ![j] = CartRow(k, v, call.asked)]
          /\ Raises(v, call.asked)
    BY <1>4 DEF AddInsert
  <2>3. j \in Items /\ cartItem[j] = Unborn /\ k \in Carts /\ v \in Variants
    BY <1>1, <2>1 DEF NextItem, CallInv
  <2>4. put' = [put EXCEPT ![v] = put[v] + call.asked]
    <3>1. Max({call.asked, 0}) = call.asked
      BY <1>1, MaxOfTwo
    <3>2. put' = [put EXCEPT ![v] = put[v] + Max({call.asked, 0})]
      BY <2>2 DEF Raises
    <3> QED
      BY <3>1, <3>2
  <2>5. \A P \in Amounted : call.asked <= P[k][v] + call.asked
    BY <1>1, <2>3 DEF Amounted
  <2> HIDE DEF call, k, v
  <2> QED
    BY <1>1, <2>1, <2>2, <2>3, <2>4, <2>5, RowWritten
<1>5. CASE UpdateSet(c) /\ ~UNCHANGED << cartItem, put >>
  <2> DEFINE kk == cartItem[i].cart
             vv == cartItem[i].variant
             by == call.asked - cartItem[i].quantity
  <2>1. /\ call.at = "updateSet" /\ cartItem[i] # Removed
        /\ cartItem' = [cartItem EXCEPT ![i].quantity = call.asked]
        /\ Raises(vv, by)
    BY <1>5 DEF UpdateSet
  <2>2. i \in Items /\ Live(i) /\ kk \in Carts /\ vv \in Variants /\ cartItem[i].quantity \in Nat
    BY <1>1, <2>1 DEF CallInv, CartInv, CartTypeOK, ItemsInv, Live
  <2>3. by \in Int /\ put' = [put EXCEPT ![vv] = put[vv] + Max({by, 0})]
    BY <1>1, <2>1, <2>2 DEF Raises
  <2>4. Max({by, 0}) \in Nat /\ by <= Max({by, 0})
    BY <2>3, MaxOfTwo
  <2>5. cartItem' = [cartItem EXCEPT ![i] = CartRow(kk, vv, call.asked)]
    <3>1. [cartItem[i] EXCEPT !.quantity = call.asked] = CartRow(kk, vv, call.asked)
      BY <2>2 DEF CartInv, CartTypeOK, CartRow
    <3> QED
      BY <2>1, <3>1
  <2>6. ASSUME NEW P \in Amounted, Accounted(P)
        PROVE  call.asked <= P[kk][vv] + Max({by, 0})
    <3>1. cartItem[i].quantity <= P[kk][vv] /\ P[kk][vv] \in Nat
      BY <2>2, <2>6 DEF Accounted, ItemsCovered, Amounted
    <3> QED
      BY <1>1, <2>2, <2>4, <3>1
  <2>7. Live(i) /\ cartItem[i].cart = kk /\ cartItem[i].variant = vv
    BY <2>2
  <2> HIDE DEF call, i, kk, vv, by
  <2> QED
    BY <1>1, <2>2, <2>3, <2>4, <2>5, <2>6, <2>7, RowWritten
<1> QED
  BY <1>2, <1>3, <1>4, <1>5

(* Rows that are deleted account for nothing more.                         *)
LEMMA RowsDeleted ==
  ASSUME CartInv, NEW c \in CartCalls, Clear(c) \/ RemoveDelete(c)
  PROVE  CartInv'
<1>1. CartDone(c) /\ UNCHANGED << cartStatus, put, ordered >>
  BY DEF Clear, RemoveDelete
<1>2. /\ \A i \in Items : cartItem'[i] = cartItem[i] \/ (cartItem'[i] = Removed /\ cartItem[i] # Unborn)
      /\ cartItem' \in [Items -> [cart : Carts \cup {NoCart}, variant : Variants \cup {NoVariant},
                                  quantity : Nat]]
  <2>1. CASE Clear(c)
    <3>1. cartCall[c].cart # NoCart
      BY <2>1, CartAssumption DEF Clear, CartInv, CallInv
    <3>2. \A i \in Items : cartItem[i] = Unborn => i \notin ItemsOf(cartCall[c].cart)
      BY <3>1, RemovedType DEF ItemsOf
    <3> QED
      BY <2>1, <3>2, RemovedType DEF Clear, CartInv, CartTypeOK
  <2>2. CASE RemoveDelete(c)
    <3>1. cartCall[c].item \in Items /\ cartItem[cartCall[c].item] # Unborn
      BY <2>2 DEF RemoveDelete, CartInv, CallInv
    <3> QED
      BY <2>2, <3>1, RemovedType DEF RemoveDelete, CartInv, CartTypeOK
  <2> QED
    BY <2>1, <2>2
<1>3. CartTypeOK'
  BY <1>1, <1>2, NoCartCallType DEF CartInv, CartTypeOK, CartDone
<1>4. \A i \in Items : Live(i)' => Live(i) /\ cartItem'[i] = cartItem[i]
  BY <1>2, RemovedType DEF Live
<1>5. ItemsInv'
  <2>1. \A i \in Items : ~Live(i)' => cartItem'[i] \in {Unborn, Removed}
    BY <1>2 DEF CartInv, ItemsInv, Live
  <2>2. \A i, j \in Items : Live(i)' /\ cartItem'[i].cart = cartItem'[j].cart => Live(j)'
    BY DEF Live
  <2> QED
    BY <1>4, <2>1, <2>2 DEF CartInv, ItemsInv
<1>6. RowsStay
  BY <1>2, RemovedType DEF RowsStay
<1>7. ASSUME NEW P \in Amounted, Accounted(P)
      PROVE  AtLeast(P, P) /\ OrdersCovered(P)' /\ ItemsCovered(P)'
  <2>1. AtLeast(P, P)
    BY DEF AtLeast, Amounted
  <2>2. OrdersCovered(P)'
    BY <1>1, <1>7 DEF Accounted, OrdersCovered, OfVariant, ClosedCarts
  <2>3. ItemsCovered(P)'
    BY <1>4, <1>7 DEF Accounted, ItemsCovered
  <2> QED
    BY <2>1, <2>2, <2>3
<1> QED
  BY <1>1, <1>3, <1>5, <1>6, <1>7, DoneLeaves, WriteEnds

(* A cart is created, and closed by the one checkout that finds it ACTIVE: *)
(* the order takes what is accounted for in that cart.                     *)
LEMMA StatusWritten ==
  ASSUME CartInv, NEW c \in CartCalls, CartCreate(c) \/ CheckoutCommit(c)
  PROVE  CartInv'
<1>1. UNCHANGED << cartItem, put >>
  BY DEF CartCreate, CheckoutCommit
<1>2. CASE CartDone(c) /\ UNCHANGED << cartStatus, ordered >>
  BY <1>1, <1>2, CallEnds
<1>3. ItemsInv' /\ RowsStay
  BY <1>1 DEF CartInv, ItemsInv, Live, RowsStay
<1>4. \A P \in Amounted : AtLeast(P, P)
  BY DEF AtLeast, Amounted
<1>5. \A P \in Amounted : Accounted(P) => ItemsCovered(P)'
  BY <1>1 DEF Accounted, ItemsCovered, Live
<1>6. CASE CartCreate(c)
  <2>1. PICK k \in NextCart :
          /\ cartStatus' = [cartStatus EXCEPT ![k] = "ACTIVE"] /\ ordered' = ordered
          /\ CartDone(c)
    BY <1>6 DEF CartCreate
  <2>2. k \in Carts /\ cartStatus[k] = "NONE"
    BY DEF NextCart, Created
  <2>3. CartTypeOK'
    BY <1>1, <2>1, NoCartCallType DEF CartInv, CartTypeOK, CartDone
  <2>4. ClosedCarts' = ClosedCarts
    BY <2>1, <2>2 DEF CartInv, CartTypeOK, ClosedCarts
  <2>5. \A P \in Amounted : Accounted(P) => OrdersCovered(P)'
    BY <1>1, <2>1, <2>4 DEF Accounted, OrdersCovered, OfVariant
  <2> QED
    BY <1>1, <1>3, <1>4, <1>5, <2>1, <2>3, <2>5, DoneLeaves, WriteEnds
<1>7. CASE CheckoutCommit(c) /\ ~(CartDone(c) /\ UNCHANGED << cartStatus, ordered >>)
  <2> DEFINE k == cartCall[c].cart
             lines == cartCall[c].lines
  <2>1. /\ cartCall[c].at = "checkoutCommit" /\ cartStatus[k] = "ACTIVE"
        /\ cartStatus' = [cartStatus EXCEPT ![k] = "CHECKED_OUT"]
        /\ ordered' = [v \in Variants |-> ordered[v] + lines[v]]
        /\ Catches(c, k)
    BY <1>7 DEF CheckoutCommit, StillOpen
  <2>2. k \in Carts /\ lines \in [Variants -> Nat] /\ k \notin ClosedCarts
    BY <2>1 DEF CartInv, CallInv, CartTypeOK, CartCall, ClosedCarts
  <2>3. CartTypeOK'
    BY <1>1, <2>1, <2>2, CatchesLeaves DEF CartInv, CartTypeOK
  <2>4. ClosedCarts' = ClosedCarts \cup {k}
    BY <2>1, <2>2 DEF CartInv, CartTypeOK, ClosedCarts
  <2>5. ASSUME NEW P \in Amounted, Accounted(P)
        PROVE  OrdersCovered(P)'
    <3> SUFFICES ASSUME NEW v \in Variants
                 PROVE  /\ SumFunctionOnSet(OfVariant(P, v), Carts) <= put'[v]
                        /\ ordered'[v] <= SumFunctionOnSet(OfVariant(P, v), ClosedCarts \cup {k})
      BY <2>4 DEF OrdersCovered, OfVariant
    <3> DEFINE f == OfVariant(P, v)
    <3>1. /\ \A j \in Carts : f[j] \in Int
          /\ f[k] = P[k][v] /\ P[k][v] \in Nat
      BY <2>2 DEF OfVariant, Amounted
    <3>2. /\ SumFunctionOnSet(f, Carts) <= put[v]
          /\ ordered[v] <= SumFunctionOnSet(f, ClosedCarts)
          /\ lines[v] <= P[k][v]
      BY <2>1, <2>5 DEF Accounted, OrdersCovered, CallCovered
    <3>3. ordered[v] \in Nat /\ lines[v] \in Nat /\ ordered'[v] = ordered[v] + lines[v]
      BY <2>1, <2>2 DEF CartInv, CartTypeOK
    <3> HIDE DEF f, lines, k
    <3>4. /\ SumFunctionOnSet(f, ClosedCarts \cup {k}) = f[k] + SumFunctionOnSet(f, ClosedCarts)
          /\ SumFunctionOnSet(f, ClosedCarts) \in Int
      <4>1. \A j \in ClosedCarts \cup {k} : f[j] \in Int
        BY <2>2, <3>1, CartFinite
      <4> QED
        BY <2>2, <4>1, CartFinite, SumAdd, SumInt
    <3>5. ordered'[v] <= SumFunctionOnSet(f, ClosedCarts \cup {k})
      BY <3>1, <3>2, <3>3, <3>4
    <3> QED
      BY <1>1, <3>2, <3>5 DEF f
  <2> QED
    BY <1>1, <1>3, <1>4, <1>5, <2>1, <2>3, <2>5, CatchesLeaves, WriteEnds
<1> QED
  BY <1>2, <1>6, <1>7

LEMMA CartStep == CartInv /\ [CartNext]_cartVars => CartInv'
<1> SUFFICES ASSUME CartInv, [CartNext]_cartVars PROVE CartInv'
  OBVIOUS
<1>1. CASE CartNext
  <2>1. PICK c \in CartCalls :
          \/ CartFind(c) \/ CartCreate(c)
          \/ AddCheck(c) \/ AddFind(c) \/ AddRaise(c) \/ AddInsert(c)
          \/ UpdateCheck(c) \/ UpdateFind(c) \/ UpdateSet(c)
          \/ ClearCheck(c) \/ Clear(c) \/ RemoveFind(c) \/ RemoveDelete(c)
          \/ CheckoutCart(c) \/ CheckoutItems(c) \/ CheckoutCommit(c) \/ CartCallFails(c)
    BY <1>1 DEF CartNext
  <2>2. CASE CartCallFails(c)
    BY <2>2, CallEnds DEF CartCallFails
  <2> QED
    BY <2>1, <2>2, CallBegins, CallGoesOn, AddWrites, RowsDeleted, StatusWritten
<1>2. CASE UNCHANGED cartVars
  <2>1. CartTypeOK' /\ ItemsInv'
    BY <1>2 DEF cartVars, CartInv, CartTypeOK, ItemsInv, Live
  <2>2. \A c \in CartCalls : CallInv(c)'
    BY <1>2 DEF cartVars, CartInv, CallInv, Live
  <2>3. \A P \in Amounted : Accounted(P) => Accounted(P)'
    BY <1>2 DEF cartVars, Accounted, OrdersCovered, ItemsCovered, CallCovered, OfVariant,
                ClosedCarts, Live
  <2> QED
    BY <2>1, <2>2, <2>3 DEF CartInv
<1> QED
  BY <1>1, <1>2

(* At every statement of the cart's calls some account of what was put     *)
(* into each cart covers its items, the quantities read before an update   *)
(* and the lines of the checkouts under way.                               *)
THEOREM CartInvariant == CartSpec => []CartInv
  BY CartInitial, CartStep, PTL DEF CartSpec

(* The orders of a customer hold no more of a variant than was put into    *)
(* carts: createOrder's conditional update of the cart lets one checkout   *)
(* take over each cart, whatever addItem, updateItem, removeItem and       *)
(* clearCart do meanwhile.                                                 *)
THEOREM OrderedIsAddedHolds == CartSpec => []OrderedIsAdded
<1>1. CartInv => OrderedIsAdded
  <2> SUFFICES ASSUME CartInv, NEW v \in Variants
               PROVE  ordered[v] <= put[v]
    BY DEF OrderedIsAdded
  <2>1. PICK P \in Amounted : Accounted(P)
    BY DEF CartInv
  <2> DEFINE f == OfVariant(P, v)
  <2>2. \A k \in Carts : f[k] \in Nat
    BY DEF OfVariant, Amounted
  <2>3. /\ SumFunctionOnSet(f, Carts) <= put[v]
        /\ ordered[v] <= SumFunctionOnSet(f, ClosedCarts)
        /\ ordered[v] \in Nat /\ put[v] \in Nat
    BY <2>1 DEF Accounted, OrdersCovered, CartInv, CartTypeOK
  <2> HIDE DEF f
  <2>4. SumFunctionOnSet(f, ClosedCarts) <= SumFunctionOnSet(f, Carts)
    BY <2>2, CartFinite, SumSubset
  <2>5. SumFunctionOnSet(f, ClosedCarts) \in Int /\ SumFunctionOnSet(f, Carts) \in Int
    BY <2>2, CartFinite, SumInt
  <2> QED
    BY <2>3, <2>4, <2>5
<1> QED
  BY <1>1, CartInvariant, PTL

(* Who writes to a closed cart: a call that has checked the status of its  *)
(* cart, and whose cart has closed, was caught by the checkout; the item   *)
(* that updateItem or removeItem has found lies in the cart of the call.   *)
WritingStages == {"addFind", "addRaise", "addInsert", "updateFind", "updateSet", "clear"}

CaughtInv(c) ==
    LET call == cartCall[c]
    IN  /\ call.at \in WritingStages /\ call.cart \in ClosedCarts => call.caught
        /\ call.at \in {"updateSet", "removeDelete"} /\ Live(call.item) =>
              cartItem[call.item].cart = call.cart

CaughtIInv == CartInv /\ \A c \in CartCalls : CaughtInv(c)

(* Rows keep their cart while they live, whatever step is taken.           *)
LEMMA RowsKeepCart ==
  ASSUME CartInv, NEW c \in CartCalls, NEW i \in Items, cartItem[i] # Unborn,
         AddRaise(c) \/ AddInsert(c) \/ UpdateSet(c) \/ Clear(c) \/ RemoveDelete(c)
           \/ UNCHANGED cartItem
  PROVE  cartItem'[i].cart \in {cartItem[i].cart, NoCart}
<1>1. CASE AddInsert(c)
  BY <1>1 DEF AddInsert, NextItem, CartInv, CartTypeOK
<1>2. CASE AddRaise(c) \/ UpdateSet(c)
  BY <1>2 DEF AddRaise, UpdateSet, CartInv, CartTypeOK
<1>3. CASE Clear(c) \/ RemoveDelete(c)
  BY <1>3, RemovedType DEF Clear, RemoveDelete, CartInv, CartTypeOK
<1> QED
  BY <1>1, <1>2, <1>3

LEMMA OthersStayCaught ==
  ASSUME CartInv, NEW c \in CartCalls, NEW d \in CartCalls, CaughtInv(d),
         GoesOn(d), cartCall'[d].caught = cartCall[d].caught, ClosedCarts' \subseteq ClosedCarts,
         AddRaise(c) \/ AddInsert(c) \/ UpdateSet(c) \/ Clear(c) \/ RemoveDelete(c)
           \/ UNCHANGED cartItem
  PROVE  CaughtInv(d)'
<1> DEFINE call == cartCall[d]
<1>1. /\ cartCall'[d].at = call.at /\ cartCall'[d].cart = call.cart
      /\ cartCall'[d].item = call.item /\ cartCall'[d].caught = call.caught
  BY DEF GoesOn
<1>2. call.at \in {"updateSet", "removeDelete"} =>
        /\ call.item \in Items /\ cartItem[call.item] # Unborn
        /\ cartItem'[call.item].cart \in {cartItem[call.item].cart, NoCart}
  BY RowsKeepCart DEF CartInv, CallInv
<1> QED
  BY <1>1, <1>2 DEF CaughtInv, Live

(* A call starts on an ACTIVE cart, or goes on to the item it has found.   *)
LEMMA CallMovesCaught ==
  ASSUME CaughtIInv, NEW c \in CartCalls,
         AddCheck(c) \/ UpdateCheck(c) \/ ClearCheck(c) \/ RemoveFind(c) \/ CheckoutCart(c)
           \/ CartFind(c) \/ AddFind(c) \/ UpdateFind(c) \/ CheckoutItems(c)
  PROVE  CaughtInv(c)'
<1>0. /\ cartCall \in [CartCalls -> CartCall] /\ CaughtInv(c)
      /\ UNCHANGED << cartStatus, cartItem >> /\ ClosedCarts' = ClosedCarts
  BY DEF CaughtIInv, CartInv, CartTypeOK, ClosedCarts, AddCheck, UpdateCheck, ClearCheck,
         RemoveFind, CheckoutCart, CartFind, AddFind, UpdateFind, CheckoutItems
<1>1. CASE AddCheck(c) \/ UpdateCheck(c) \/ ClearCheck(c)
  <2>1. /\ cartCall'[c].at \in {"addFind", "updateFind", "clear"}
        /\ cartCall'[c].cart \in ActiveCarts
    BY <1>0, <1>1 DEF AddCheck, UpdateCheck, ClearCheck, CartBegin, OpenFor, NoCartCall
  <2> QED
    BY <1>0, <2>1 DEF CaughtInv, ActiveCarts, ClosedCarts
<1>2. CASE RemoveFind(c)
  <2>1. PICK k \in Created : \E i \in ItemsOf(k) :
          CartBegin(c, [NoCartCall EXCEPT !.at = "removeDelete", !.cart = k, !.item = i])
    BY <1>2 DEF RemoveFind
  <2>2. PICK i \in ItemsOf(k) :
          CartBegin(c, [NoCartCall EXCEPT !.at = "removeDelete", !.cart = k, !.item = i])
    BY <2>1
  <2>3. /\ cartCall'[c].at = "removeDelete" /\ cartCall'[c].cart = k /\ cartCall'[c].item = i
        /\ cartItem[i].cart = k
    BY <1>0, <2>2 DEF CartBegin, NoCartCall, ItemsOf
  <2> QED
    BY <1>0, <2>3 DEF CaughtInv, WritingStages
<1>3. CASE CheckoutCart(c) \/ CartFind(c)
  <2>1. cartCall'[c].at \in {"checkoutItems", "newCart"}
    BY <1>0, <1>3 DEF CheckoutCart, CartFind, CartBegin, NoCartCall
  <2> QED
    BY <2>1 DEF CaughtInv, WritingStages
<1>4. CASE CartDone(c)
  <2>1. cartCall'[c].at = "idle"
    BY <1>0, <1>4 DEF CartDone, NoCartCall
  <2> QED
    BY <2>1 DEF CaughtInv, WritingStages
<1>5. CASE AddFind(c)
  <2> DEFINE Reads(call) == /\ call.at \in {"addInsert", "addRaise"}
                            /\ call.cart = cartCall[c].cart /\ call.caught = cartCall[c].caught
  <2>1. cartCall[c].at = "addFind" /\ Reads(cartCall'[c])
    <3>0. cartCall[c].at = "addFind"
      BY <1>5 DEF AddFind
    <3>1. CASE CartGoto(c, "addInsert")
      <4> DEFINE call == [cartCall[c] EXCEPT !.at = "addInsert"]
      <4>1. cartCall[c] \in CartCall
        BY <1>0
      <4>2. Reads(call)
        BY <4>1 DEF CartCall
      <4>3. cartCall'[c] = call
        BY <1>0, <3>1 DEF CartGoto
      <4> QED
        BY <3>0, <4>2, <4>3
    <3>2. ASSUME NEW i \in Items,
                 cartCall' = [cartCall EXCEPT ![c].at = "addRaise", ![c].item = i,
                                              ![c].seen = cartItem[i].quantity]
          PROVE  Reads(cartCall'[c])
      <4> DEFINE call == [[[cartCall[c] EXCEPT !.at = "addRaise"] EXCEPT !.item = i]
                                        EXCEPT !.seen = cartItem[i].quantity]
      <4>1. cartCall[c] \in CartCall
        BY <1>0
      <4>2. Reads(call)
        BY <4>1 DEF CartCall
      <4>3. cartCall'[c] = call
        BY <1>0, <3>2 DEF CartCall
      <4> QED
        BY <4>2, <4>3
    <3> QED
      BY <1>5, <3>1, <3>2, <3>0 DEF AddFind, ItemsFor, ItemsOf
  <2> QED
    BY <1>0, <2>1 DEF CaughtInv, WritingStages
<1>6. CASE UpdateFind(c) /\ ~CartDone(c)
  <2>1. /\ cartCall[c].at = "updateFind" /\ cartCall'[c].at = "updateSet"
        /\ cartCall'[c].cart = cartCall[c].cart /\ cartCall'[c].caught = cartCall[c].caught
        /\ cartCall'[c].item = cartCall[c].item
        /\ cartItem[cartCall[c].item].cart = cartCall[c].cart
    BY <1>0, <1>6 DEF UpdateFind, CartGoto, CartCall, InCart
  <2> QED
    BY <1>0, <2>1 DEF CaughtInv, WritingStages
<1>7. CASE CheckoutItems(c) /\ ~CartDone(c)
  <2>1. cartCall'[c].at = "checkoutCommit"
    BY <1>0, <1>7 DEF CheckoutItems, CartCall
  <2> QED
    BY <2>1 DEF CaughtInv, WritingStages
<1> QED
  BY <1>1, <1>2, <1>3, <1>4, <1>5, <1>6, <1>7

LEMMA CaughtStep == CaughtIInv /\ [CartNext]_cartVars => CaughtIInv'
<1> SUFFICES ASSUME CaughtIInv, [CartNext]_cartVars PROVE CaughtIInv'
  OBVIOUS
<1>1. /\ CartInv /\ CartInv' /\ cartCall \in [CartCalls -> CartCall]
      /\ cartStatus \in [Carts -> {"NONE", "ACTIVE", "CHECKED_OUT"}]
  BY CartStep DEF CaughtIInv, CartInv, CartTypeOK
<1>2. ASSUME NEW d \in CartCalls
      PROVE  CaughtInv(d)'
  <2>1. CASE UNCHANGED cartVars
    BY <2>1 DEF cartVars, CaughtIInv, CaughtInv, ClosedCarts, Live
  <2>2. ASSUME NEW c \in CartCalls, CartDone(c), ClosedCarts' \subseteq ClosedCarts,
               AddRaise(c) \/ AddInsert(c) \/ UpdateSet(c) \/ Clear(c) \/ RemoveDelete(c)
                 \/ UNCHANGED cartItem
        PROVE  CaughtInv(d)'
    <3>1. CASE c = d
      <4>1. cartCall'[d].at = "idle"
        BY <1>1, <2>2, <3>1 DEF CartDone, NoCartCall
      <4> QED
        BY <4>1 DEF CaughtInv, WritingStages
    <3>2. CASE c # d
      <4>1. cartCall'[d] = cartCall[d]
        BY <1>1, <2>2, <3>2 DEF CartDone
      <4>2. CaughtInv(d) /\ GoesOn(d) /\ cartCall'[d].caught = cartCall[d].caught
        BY <4>1 DEF GoesOn, CaughtIInv
      <4> QED
        BY <1>1, <2>2, <4>2, OthersStayCaught
    <3> QED
      BY <3>1, <3>2
  <2>3. ASSUME NEW c \in CartCalls,
               AddCheck(c) \/ UpdateCheck(c) \/ ClearCheck(c) \/ RemoveFind(c) \/ CheckoutCart(c)
                 \/ CartFind(c) \/ AddFind(c) \/ UpdateFind(c) \/ CheckoutItems(c)
        PROVE  CaughtInv(d)'
    <3>1. CASE c = d
      BY <2>3, <3>1, CallMovesCaught
    <3>2. CASE c # d
      <4>1. cartCall'[d] = cartCall[d] /\ UNCHANGED << cartStatus, cartItem >>
        BY <1>1, <2>3, <3>2
           DEF AddCheck, UpdateCheck, ClearCheck, RemoveFind, CheckoutCart, CartFind, AddFind,
               UpdateFind, CheckoutItems, CartBegin, CartGoto, CartDone
      <4> QED
        BY <4>1 DEF CaughtIInv, CaughtInv, ClosedCarts, Live
    <3> QED
      BY <3>1, <3>2
  <2>4. ASSUME NEW c \in CartCalls,
               AddRaise(c) \/ AddInsert(c) \/ UpdateSet(c) \/ Clear(c) \/ RemoveDelete(c)
        PROVE  CaughtInv(d)'
    <3>1. CartDone(c) /\ UNCHANGED cartStatus
      BY <2>4 DEF AddRaise, AddInsert, UpdateSet, Clear, RemoveDelete
    <3>2. ClosedCarts' = ClosedCarts
      BY <3>1 DEF ClosedCarts
    <3> QED
      BY <2>2, <2>4, <3>1, <3>2
  <2>5. ASSUME NEW c \in CartCalls, CartCallFails(c)
        PROVE  CaughtInv(d)'
    <3>1. CartDone(c) /\ UNCHANGED << cartStatus, cartItem >>
      BY <2>5 DEF CartCallFails
    <3>2. ClosedCarts' = ClosedCarts
      BY <3>1 DEF ClosedCarts
    <3> QED
      BY <2>2, <3>1, <3>2
  <2>6. ASSUME NEW c \in CartCalls, CartCreate(c)
        PROVE  CaughtInv(d)'
    <3>1. PICK k \in NextCart :
            cartStatus' = [cartStatus EXCEPT ![k] = "ACTIVE"] /\ CartDone(c) /\ UNCHANGED cartItem
      BY <2>6 DEF CartCreate
    <3>2. ClosedCarts' \subseteq ClosedCarts
      BY <1>1, <3>1 DEF ClosedCarts
    <3> QED
      BY <2>2, <3>1, <3>2
  <2>7. ASSUME NEW c \in CartCalls, CheckoutCommit(c)
        PROVE  CaughtInv(d)'
    <3> DEFINE k == cartCall[c].cart
    <3>1. CASE CartDone(c) /\ UNCHANGED cartStatus
      <4>1. ClosedCarts' = ClosedCarts /\ UNCHANGED cartItem
        BY <2>7, <3>1 DEF ClosedCarts, CheckoutCommit
      <4> QED
        BY <2>2, <3>1, <4>1
    <3>2. CASE Catches(c, k) /\ cartStatus' = [cartStatus EXCEPT ![k] = "CHECKED_OUT"]
      <4>1. ClosedCarts' \subseteq ClosedCarts \cup {k} /\ UNCHANGED cartItem
        BY <1>1, <2>7, <3>2 DEF ClosedCarts, CheckoutCommit
      <4>2. CASE c = d
        <5>1. cartCall'[d].at = "idle"
          BY <3>2, <4>2 DEF Catches, NoCartCall
        <5> QED
          BY <5>1 DEF CaughtInv, WritingStages
      <4>3. CASE c # d
        <5>1. cartCall'[d] = [cartCall[d] EXCEPT !.caught = cartCall[d].caught \/ cartCall[d].cart = k]
          BY <3>2, <4>3 DEF Catches
        <5>2. cartCall[d] \in CartCall
          BY <1>1
        <5>3. /\ cartCall'[d].at = cartCall[d].at /\ cartCall'[d].cart = cartCall[d].cart
              /\ cartCall'[d].item = cartCall[d].item
              /\ cartCall'[d].caught <=> cartCall[d].caught \/ cartCall[d].cart = k
          BY <5>1, <5>2 DEF CartCall
        <5> QED
          BY <4>1, <5>3 DEF CaughtIInv, CaughtInv, Live
      <4> QED
        BY <4>2, <4>3
    <3> QED
      BY <2>7, <3>1, <3>2 DEF CheckoutCommit
  <2> QED
    BY <2>1, <2>3, <2>4, <2>5, <2>6, <2>7 DEF CartNext
<1> QED
  BY <1>1, <1>2 DEF CaughtIInv

LEMMA CaughtInitial == CartInit => CaughtIInv
<1> SUFFICES ASSUME CartInit PROVE CaughtIInv
  OBVIOUS
<1>1. \A c \in CartCalls : cartCall[c].at = "idle"
  BY DEF CartInit, NoCartCall
<1> QED
  BY <1>1, CartInitial DEF CaughtIInv, CaughtInv, WritingStages

(* What changes a row of a cart that is closed.                            *)
LEMMA ClosedRowWritten ==
  ASSUME CaughtIInv, NEW c \in CartCalls, NEW i \in Items, NEW k \in ClosedCarts,
         AddRaise(c) \/ AddInsert(c) \/ UpdateSet(c) \/ Clear(c) \/ RemoveDelete(c),
         k \in {cartItem[i].cart, cartItem'[i].cart}, cartItem'[i] # cartItem[i]
  PROVE  /\ cartCall[c].cart = k
         /\ cartCall[c].caught \/ cartCall[c].at = "removeDelete"
         /\ cartCall'[c] = NoCartCall
<1> DEFINE call == cartCall[c]
<1>1. /\ cartItem \in [Items -> [cart : Carts \cup {NoCart}, variant : Variants \cup {NoVariant},
                                 quantity : Nat]]
      /\ CallInv(c) /\ CaughtInv(c) /\ ItemsInv /\ k \in Carts /\ k # NoCart
  BY CartAssumption DEF CaughtIInv, CartInv, CartTypeOK, ClosedCarts
<1>2. cartCall'[c] = NoCartCall
  <2>1. CartDone(c)
    BY DEF AddRaise, AddInsert, UpdateSet, Clear, RemoveDelete
  <2> QED
    BY <2>1 DEF CartDone, CaughtIInv, CartInv, CartTypeOK
<1>3. ASSUME call.cart = k, call.at \in WritingStages \cup {"removeDelete"}
      PROVE  call.caught \/ call.at = "removeDelete"
  BY <1>1, <1>3 DEF CaughtInv
<1>4. CASE AddInsert(c)
  <2>1. call.at = "addInsert" /\ cartItem[i].cart = NoCart /\ cartItem'[i].cart = call.cart
    BY <1>1, <1>4, RemovedType DEF AddInsert, NextItem, CartRow
  <2> QED
    BY <1>1, <1>2, <1>3, <2>1 DEF WritingStages
<1>5. CASE AddRaise(c) \/ UpdateSet(c)
  <2>1. /\ call.at \in {"addRaise", "updateSet"} /\ i = call.item /\ cartItem[i] # Removed
        /\ cartItem'[i].cart = cartItem[i].cart
    BY <1>1, <1>5 DEF AddRaise, UpdateSet
  <2>2. Live(i) /\ cartItem[i].cart = k
    BY <1>1, <2>1 DEF Live
  <2>3. call.cart = k
    BY <1>1, <2>1, <2>2 DEF CallInv, CaughtInv
  <2> QED
    BY <1>2, <1>3, <2>1, <2>3 DEF WritingStages
<1>6. CASE Clear(c)
  <2>1. call.at = "clear" /\ cartItem[i].cart = call.cart /\ cartItem'[i].cart = NoCart
    BY <1>1, <1>6, RemovedType DEF Clear, ItemsOf
  <2> QED
    BY <1>1, <1>2, <1>3, <2>1 DEF WritingStages
<1>7. CASE RemoveDelete(c)
  <2>1. call.at = "removeDelete" /\ i = call.item /\ cartItem'[i].cart = NoCart
    BY <1>1, <1>7, RemovedType DEF RemoveDelete
  <2>2. Live(i) /\ cartItem[i].cart = k
    BY <1>1, <2>1 DEF Live
  <2> QED
    BY <1>1, <1>2, <2>1, <2>2 DEF CaughtInv
<1> QED
  BY <1>4, <1>5, <1>6, <1>7

(* The rows of a checked-out cart change only by removeItem and by calls   *)
(* on that cart which the checkout overtook, once for each: whatever else  *)
(* addItem, updateItem and clearCart meet between their statements, none   *)
(* that began later and none on another cart of the customer reaches them. *)
THEOREM ClosedCartKeptHolds == CartSpec => ClosedCartKept
<1>1. CaughtIInv /\ [CartNext]_cartVars =>
        [\A i \in Items, k \in ClosedCarts :
           /\ k \in {cartItem[i].cart, cartItem'[i].cart}
           /\ cartItem'[i] # cartItem[i]
           => \E c \in CartCalls :
                /\ cartCall[c].cart = k
                /\ cartCall[c].caught \/ cartCall[c].at = "removeDelete"
                /\ cartCall'[c] = NoCartCall]_cartVars
  <2> SUFFICES ASSUME CaughtIInv, CartNext, NEW i \in Items, NEW k \in ClosedCarts,
                      k \in {cartItem[i].cart, cartItem'[i].cart}, cartItem'[i] # cartItem[i]
               PROVE  \E c \in CartCalls :
                        /\ cartCall[c].cart = k
                        /\ cartCall[c].caught \/ cartCall[c].at = "removeDelete"
                        /\ cartCall'[c] = NoCartCall
    OBVIOUS
  <2>1. PICK c \in CartCalls :
          AddRaise(c) \/ AddInsert(c) \/ UpdateSet(c) \/ Clear(c) \/ RemoveDelete(c)
    BY DEF CartNext, CartFind, CartCreate, AddCheck, AddFind, UpdateCheck, UpdateFind, ClearCheck,
           RemoveFind, CheckoutCart, CheckoutItems, CheckoutCommit, CartCallFails
  <2> QED
    BY <2>1, ClosedRowWritten
<1> QED
  BY <1>1, CaughtInitial, CaughtStep, PTL DEF CartSpec, ClosedCartKept

=============================================================================
