------------------------ MODULE OnlinePaymentsProofs ------------------------
(* Proofs about OnlinePayments, for every number of processes, attempts,   *)
(* orders, failures and for every provider, as long as a finalize lock     *)
(* outlives its holder.                                                    *)
EXTENDS OnlinePayments, TLAPS

-----------------------------------------------------------------------------
(* The inductive invariant.                                                *)

Settling == {"mismatch", "lock"} \union Critical

(* An attempt being started has no row yet, and only its starter knows it. *)
StartsFresh ==
  \A p \in Processes : pc[p] \in Starting =>
    /\ status[Intent(p)] = "NONE"
    /\ \A q \in Processes \ {p} : Intent(q) # Intent(p)

(* What is listed, verified, recorded or approved has a PaymentIntent row.  *)
HasRow ==
  /\ \A p \in Processes : \A i \in todo[p] : status[i] # "NONE"
  /\ \A p \in Processes :
       pc[p] \in Asking \union Settling => status[Intent(p)] # "NONE"
  /\ \A i \in Intents : rows[i] > 0 => status[i] # "NONE"
  /\ \A i \in Intents : gateway[i] \in {"approved", "captured"} => status[i] # "NONE"

(* The finalize lock excludes: who is in the critical section holds it,    *)
(* and nobody else is there for the same attempt.                          *)
LockExcludes ==
  \A p \in Processes : pc[p] \in Critical =>
    /\ Intent(p) \in lock
    /\ \A q \in Processes \ {p} : pc[q] \in Critical => Intent(q) # Intent(p)

KnowsCaptured ==
  \A p \in Processes : pc[p] \in Settling => gateway[Intent(p)] = "captured"
KnowsAgreed ==
  \A p \in Processes :
    pc[p] \in {"lock"} \union Critical => Intent(p) \notin Mismatched
KnowsRows ==
  \A p \in Processes :
    /\ pc[p] \in Recording => rows[Intent(p)] = 0
    /\ pc[p] = "complete" => rows[Intent(p)] > 0

Knowledge == StartsFresh /\ HasRow /\ LockExcludes /\ KnowsCaptured
             /\ KnowsAgreed /\ KnowsRows
Ledger == RecordedOnce /\ RecordedIsCaptured /\ VerdictIsBacked

IInv == TypeOK /\ Knowledge /\ Ledger

-----------------------------------------------------------------------------
(* What NoJob and its updates are.                                         *)
LEMMA JobType ==
  /\ NoJob \in Job
  /\ \A i \in Intents, s \in Open : [NoJob EXCEPT !.intent = i, !.seen = s] \in Job
  /\ \A i \in Intents : [NoJob EXCEPT !.intent = i] \in Job
  /\ \A j \in Job, i \in Intents \union {NoIntent} : [j EXCEPT !.holder = i] \in Job
  /\ \A j \in Job, s \in PayStatus : [j EXCEPT !.pay = s] \in Job
  /\ \A j \in Job, b \in BOOLEAN : [j EXCEPT !.covers = b] \in Job
  /\ \A i \in Intents : /\ [NoJob EXCEPT !.intent = i].intent = i
                        /\ [NoJob EXCEPT !.intent = i].seen = "INITIATED"
  /\ \A i \in Intents, s \in Open :
       /\ [NoJob EXCEPT !.intent = i, !.seen = s].intent = i
       /\ [NoJob EXCEPT !.intent = i, !.seen = s].seen = s
  /\ NoJob.intent = NoIntent
BY DEF NoJob, Job, Open, PayStatus

LEMMA JobKeepsIntent ==
  ASSUME NEW j \in Job
  PROVE  /\ \A i : [j EXCEPT !.holder = i].intent = j.intent
         /\ \A i : [j EXCEPT !.pay = i].intent = j.intent
         /\ \A i : [j EXCEPT !.covers = i].intent = j.intent
         /\ j.intent \in Intents \union {NoIntent}
         /\ j.seen \in Open
BY DEF Job

-----------------------------------------------------------------------------
(* Type correctness.                                                       *)

LEMMA InitInv == Init => IInv
<1> SUFFICES ASSUME Init PROVE IInv
  OBVIOUS
<1> USE IntentAssumption
<1>1. TypeOK
  BY JobType DEF Init, TypeOK, Status, PayStatus, Gateway, Label, Intent
<1>2. Knowledge
  BY DEF Init, Knowledge, StartsFresh, HasRow, LockExcludes, KnowsCaptured,
         KnowsAgreed, KnowsRows, Starting, Asking, Settling, Critical, Recording
<1>3. Ledger
  BY DEF Init, Ledger, RecordedOnce, RecordedIsCaptured, VerdictIsBacked
<1> QED
  BY <1>1, <1>2, <1>3 DEF IInv

Working == Label \ {"idle", "list", "next"}

(* Moving one process keeps the part of TypeOK about processes.            *)
LEMMA MoveType ==
  ASSUME TypeOK, NEW p \in Processes, NEW l \in Label, NEW j \in Job,
         pc' = [pc EXCEPT ![p] = l], job' = [job EXCEPT ![p] = j],
         l \in {"idle", "list", "next"} \/ j.intent \in Intents
  PROVE  /\ pc' \in [Processes -> Label]
         /\ job' \in [Processes -> Job]
         /\ \A q \in Processes :
              pc'[q] \notin {"idle", "list", "next"} => job'[q].intent \in Intents
BY DEF TypeOK, Intent

DataType ==
  /\ status \in [Intents -> Status]
  /\ rows \in [Intents -> Nat]
  /\ foreign \subseteq Intents
  /\ paid \in [Orders -> Nat]
  /\ payStatus \in [Orders -> PayStatus]
  /\ cancelled \subseteq Orders
  /\ slot \in [Orders -> Intents \union {NoIntent}]
  /\ lock \subseteq Intents
  /\ reconciling \in BOOLEAN
  /\ gateway \in [Intents -> Gateway]
  /\ events \in Nat
ProcType ==
  /\ pc \in [Processes -> Label]
  /\ job \in [Processes -> Job]
  /\ todo \in [Processes -> SUBSET Intents]
  /\ \A p \in Processes : pc[p] \notin {"idle", "list", "next"} => Intent(p) \in Intents

LEMMA TypeSplit == TypeOK <=> DataType /\ ProcType
BY DEF TypeOK, DataType, ProcType
LEMMA TypeJoin == ASSUME DataType', ProcType' PROVE TypeOK'
BY DEF TypeOK, DataType, ProcType

(* What the actions of a process do to pc and job. *)
Moves(p) == \E l \in Label, j \in Job :
  /\ pc' = [pc EXCEPT ![p] = l]
  /\ job' = [job EXCEPT ![p] = j]
  /\ l \in {"idle", "list", "next"} \/ j.intent \in Intents

LEMMA MovesType ==
  ASSUME ProcType, NEW p \in Processes, Moves(p), todo' \in [Processes -> SUBSET Intents]
  PROVE  ProcType'
BY DEF ProcType, Moves, Intent

LEMMA GotoMoves ==
  ASSUME ProcType, NEW p \in Processes, Intent(p) \in Intents, NEW l \in Label,
         Goto(p, l), job' = job
  PROVE  Moves(p)
<1>1. job[p] \in Job /\ job' = [job EXCEPT ![p] = job[p]]
  BY DEF ProcType
<1>2. job[p].intent \in Intents
  BY DEF Intent
<1> QED
  BY <1>1, <1>2 DEF Moves, Goto

LEMMA ReturnMoves ==
  ASSUME ProcType, NEW p \in Processes, Return(p)
  PROVE  Moves(p)
BY JobType DEF Moves, Return, Goto, Label

LEMMA UpdateMoves ==
  ASSUME NEW p \in Processes, NEW l \in Label, NEW j \in Job, j.intent \in Intents,
         Goto(p, l), job' = [job EXCEPT ![p] = j]
  PROVE  Moves(p)
BY DEF Moves, Goto

(* A process moves alone: what the others do and know of stays.            *)
Same(p) == \A q \in Processes \ {p} : pc'[q] = pc[q] /\ Intent(q)' = Intent(q)

LEMMA MovesSame ==
  ASSUME ProcType, NEW p \in Processes, Moves(p)
  PROVE  Same(p)
BY DEF Moves, Same, ProcType, Intent

LEMMA ReturnsIdle ==
  ASSUME ProcType, NEW p \in Processes, Return(p)
  PROVE  pc'[p] \in {"idle", "next"} /\ Intent(p)' = NoIntent
BY DEF Return, Goto, ProcType, Intent, NoJob

LEMMA GotoKeeps ==
  ASSUME ProcType, NEW p \in Processes, NEW l, Goto(p, l)
  PROVE  pc'[p] = l /\ (job' = job => Intent(p)' = Intent(p))
BY DEF Goto, ProcType, Intent

LEMMA Assemble ==
  ASSUME ProcType, NEW p \in Processes, Moves(p),
         todo' \in [Processes -> SUBSET Intents], DataType', Knowledge', Ledger'
  PROVE  IInv'
BY MovesType, TypeJoin DEF IInv

-----------------------------------------------------------------------------
(* One lemma per action of a process.                                      *)

LEMMA TakeSlotInv ==
  ASSUME IInv, NEW p \in Processes, TakeSlot(p)
  PROVE  IInv'
<1>1. DataType /\ ProcType /\ Knowledge /\ Ledger /\ pc[p] \in {"slot", "again"}
  BY TypeSplit DEF TakeSlot, IInv, Critical
<1>2. Intent(p) \in Intents \union {NoIntent} /\ (pc[p] \notin {"idle", "list", "next"} => Intent(p) \in Intents)
  BY <1>1, JobKeepsIntent DEF ProcType, Intent
<1>3. Moves(p)
  BY <1>1, <1>2, GotoMoves, ReturnMoves DEF TakeSlot, tryAcquireOrderSlot, Label, Starting, Asking, Critical, Recording
<1>4. DataType' /\ todo' \in [Processes -> SUBSET Intents]
  BY <1>1, <1>2, IntentAssumption DEF DataType, ProcType, TakeSlot, tryAcquireOrderSlot, store, redis
<1>5. pc'[p] \in Starting /\ Intent(p)' = Intent(p)
  BY <1>1, <1>2, GotoKeeps, ReturnsIdle DEF TakeSlot, tryAcquireOrderSlot, ProcType, DataType, Starting
<1>6. UNCHANGED <<store, lock, gateway, todo>>
  BY <1>1, <1>2, <1>5 DEF TakeSlot, tryAcquireOrderSlot, DataType, ProcType, store, redis
<1>7. Same(p)
  BY <1>1, <1>3, MovesSame
<1>8. Knowledge'
  BY <1>1, <1>2, <1>5, <1>6, <1>7, IntentAssumption
     DEF ProcType, DataType, Same, Knowledge, StartsFresh, HasRow,
        LockExcludes, KnowsCaptured, KnowsAgreed, KnowsRows, store, redis, Starting, Asking,
        Critical, Settling, Recording
<1>9. Ledger'
  BY <1>1, <1>2, <1>5, <1>6, IntentAssumption
     DEF ProcType, DataType, Ledger, RecordedOnce, RecordedIsCaptured,
        VerdictIsBacked, store, Knowledge, StartsFresh, HasRow, Starting, KnowsCaptured, KnowsAgreed, KnowsRows,
        Settling, Critical, Recording
<1> QED
  BY <1>1, <1>3, <1>4, <1>8, <1>9, Assemble

LEMMA ReadHolderInv ==
  ASSUME IInv, NEW p \in Processes, ReadHolder(p)
  PROVE  IInv'
<1>1. DataType /\ ProcType /\ Knowledge /\ Ledger /\ pc[p] = "holder"
  BY TypeSplit DEF ReadHolder, IInv, Critical
<1>2. Intent(p) \in Intents \union {NoIntent} /\ (pc[p] \notin {"idle", "list", "next"} => Intent(p) \in Intents)
  BY <1>1, JobKeepsIntent DEF ProcType, Intent
<1>3. Moves(p)
  <2>1. job[p] \in Job /\ job[p].intent \in Intents /\ Order(p) \in Orders
    BY <1>1, <1>2, IntentAssumption DEF ProcType, Intent, Order
  <2>2. [job[p] EXCEPT !.holder = slot[Order(p)]] \in Job /\ [job[p] EXCEPT !.holder = slot[Order(p)]].intent \in Intents
    BY <1>1, <2>1, JobType, JobKeepsIntent DEF DataType
  <2>3. job' = [job EXCEPT ![p] = [job[p] EXCEPT !.holder = slot[Order(p)]]]
    BY DEF ReadHolder
  <2>4. Goto(p, "create") \/ Goto(p, "existing")
    BY DEF ReadHolder
  <2> QED
    BY <2>2, <2>3, <2>4, UpdateMoves DEF Label, Starting
<1>4. DataType' /\ todo' \in [Processes -> SUBSET Intents]
  BY <1>1, <1>2, IntentAssumption DEF DataType, ProcType, ReadHolder, store, redis
<1>5. pc'[p] \in {"create", "existing"} /\ Intent(p)' = Intent(p)
  BY <1>1, <1>2, GotoKeeps, ReturnsIdle, JobKeepsIntent DEF ReadHolder, ProcType, DataType, Goto, Intent
<1>6. UNCHANGED <<store, redis, gateway, todo>>
  BY <1>1, <1>2, <1>5 DEF ReadHolder, DataType, ProcType, store, redis
<1>7. Same(p)
  BY <1>1, <1>3, MovesSame
<1>8. Knowledge'
  BY <1>1, <1>2, <1>5, <1>6, <1>7, IntentAssumption
     DEF ProcType, DataType, Same, Knowledge, StartsFresh, HasRow,
        LockExcludes, KnowsCaptured, KnowsAgreed, KnowsRows, store, redis, Starting, Asking,
        Critical, Settling, Recording
<1>9. Ledger'
  BY <1>1, <1>2, <1>5, <1>6, IntentAssumption
     DEF ProcType, DataType, Ledger, RecordedOnce, RecordedIsCaptured,
        VerdictIsBacked, store, Knowledge, StartsFresh, HasRow, Starting, KnowsCaptured, KnowsAgreed, KnowsRows,
        Settling, Critical, Recording
<1> QED
  BY <1>1, <1>3, <1>4, <1>8, <1>9, Assemble

LEMMA ReadExistingInv ==
  ASSUME IInv, NEW p \in Processes, ReadExisting(p)
  PROVE  IInv'
<1>1. DataType /\ ProcType /\ Knowledge /\ Ledger /\ pc[p] = "existing"
  BY TypeSplit DEF ReadExisting, IInv, Critical
<1>2. Intent(p) \in Intents \union {NoIntent} /\ (pc[p] \notin {"idle", "list", "next"} => Intent(p) \in Intents)
  BY <1>1, JobKeepsIntent DEF ProcType, Intent
<1>3. Moves(p)
  BY <1>1, <1>2, GotoMoves, ReturnMoves DEF ReadExisting, Label, Starting, Asking, Critical, Recording
<1>4. DataType' /\ todo' \in [Processes -> SUBSET Intents]
  BY <1>1, <1>2, IntentAssumption DEF DataType, ProcType, ReadExisting, store, redis
<1>5. \/ pc'[p] \in {"idle", "next"} /\ Intent(p)' = NoIntent
      \/ pc'[p] = "drop" /\ Intent(p)' = Intent(p)
  BY <1>1, <1>2, GotoKeeps, ReturnsIdle DEF ReadExisting, ProcType, DataType
<1>6. UNCHANGED <<store, redis, gateway, todo>>
  BY <1>1, <1>2, <1>5 DEF ReadExisting, DataType, ProcType, store, redis
<1>7. Same(p)
  BY <1>1, <1>3, MovesSame
<1>8. Knowledge'
  BY <1>1, <1>2, <1>5, <1>6, <1>7, IntentAssumption
     DEF ProcType, DataType, Same, Knowledge, StartsFresh, HasRow,
        LockExcludes, KnowsCaptured, KnowsAgreed, KnowsRows, store, redis, Starting, Asking,
        Critical, Settling, Recording
<1>9. Ledger'
  BY <1>1, <1>2, <1>5, <1>6, IntentAssumption
     DEF ProcType, DataType, Ledger, RecordedOnce, RecordedIsCaptured,
        VerdictIsBacked, store, Knowledge, StartsFresh, HasRow, Starting, KnowsCaptured, KnowsAgreed, KnowsRows,
        Settling, Critical, Recording
<1> QED
  BY <1>1, <1>3, <1>4, <1>8, <1>9, Assemble

LEMMA DropSlotInv ==
  ASSUME IInv, NEW p \in Processes, DropSlot(p)
  PROVE  IInv'
<1>1. DataType /\ ProcType /\ Knowledge /\ Ledger /\ pc[p] = "drop"
  BY TypeSplit DEF DropSlot, IInv, Critical
<1>2. Intent(p) \in Intents \union {NoIntent} /\ (pc[p] \notin {"idle", "list", "next"} => Intent(p) \in Intents)
  BY <1>1, JobKeepsIntent DEF ProcType, Intent
<1>3. Moves(p)
  BY <1>1, <1>2, GotoMoves, ReturnMoves DEF DropSlot, releaseOrderSlot, Label, Starting, Asking, Critical, Recording
<1>4. DataType' /\ todo' \in [Processes -> SUBSET Intents]
  BY <1>1, <1>2, IntentAssumption DEF DataType, ProcType, DropSlot, releaseOrderSlot, store, redis
<1>5. pc'[p] = "again" /\ Intent(p)' = Intent(p)
  BY <1>1, <1>2, GotoKeeps, ReturnsIdle DEF DropSlot, releaseOrderSlot, ProcType, DataType
<1>6. UNCHANGED <<store, lock, gateway, todo>>
  BY <1>1, <1>2, <1>5 DEF DropSlot, releaseOrderSlot, DataType, ProcType, store, redis
<1>7. Same(p)
  BY <1>1, <1>3, MovesSame
<1>8. Knowledge'
  BY <1>1, <1>2, <1>5, <1>6, <1>7, IntentAssumption
     DEF ProcType, DataType, Same, Knowledge, StartsFresh, HasRow,
        LockExcludes, KnowsCaptured, KnowsAgreed, KnowsRows, store, redis, Starting, Asking,
        Critical, Settling, Recording
<1>9. Ledger'
  BY <1>1, <1>2, <1>5, <1>6, IntentAssumption
     DEF ProcType, DataType, Ledger, RecordedOnce, RecordedIsCaptured,
        VerdictIsBacked, store, Knowledge, StartsFresh, HasRow, Starting, KnowsCaptured, KnowsAgreed, KnowsRows,
        Settling, Critical, Recording
<1> QED
  BY <1>1, <1>3, <1>4, <1>8, <1>9, Assemble

LEMMA ReadHolderAgainInv ==
  ASSUME IInv, NEW p \in Processes, ReadHolderAgain(p)
  PROVE  IInv'
<1>1. DataType /\ ProcType /\ Knowledge /\ Ledger /\ pc[p] = "againHolder"
  BY TypeSplit DEF ReadHolderAgain, IInv, Critical
<1>2. Intent(p) \in Intents \union {NoIntent} /\ (pc[p] \notin {"idle", "list", "next"} => Intent(p) \in Intents)
  BY <1>1, JobKeepsIntent DEF ProcType, Intent
<1>3. Moves(p)
  BY <1>1, <1>2, GotoMoves, ReturnMoves DEF ReadHolderAgain, Label, Starting, Asking, Critical, Recording
<1>4. DataType' /\ todo' \in [Processes -> SUBSET Intents]
  BY <1>1, <1>2, IntentAssumption DEF DataType, ProcType, ReadHolderAgain, store, redis
<1>5. \/ pc'[p] \in {"idle", "next"} /\ Intent(p)' = NoIntent
      \/ pc'[p] = "create" /\ Intent(p)' = Intent(p)
  BY <1>1, <1>2, GotoKeeps, ReturnsIdle DEF ReadHolderAgain, ProcType, DataType
<1>6. UNCHANGED <<store, redis, gateway, todo>>
  BY <1>1, <1>2, <1>5 DEF ReadHolderAgain, DataType, ProcType, store, redis
<1>7. Same(p)
  BY <1>1, <1>3, MovesSame
<1>8. Knowledge'
  BY <1>1, <1>2, <1>5, <1>6, <1>7, IntentAssumption
     DEF ProcType, DataType, Same, Knowledge, StartsFresh, HasRow,
        LockExcludes, KnowsCaptured, KnowsAgreed, KnowsRows, store, redis, Starting, Asking,
        Critical, Settling, Recording
<1>9. Ledger'
  BY <1>1, <1>2, <1>5, <1>6, IntentAssumption
     DEF ProcType, DataType, Ledger, RecordedOnce, RecordedIsCaptured,
        VerdictIsBacked, store, Knowledge, StartsFresh, HasRow, Starting, KnowsCaptured, KnowsAgreed, KnowsRows,
        Settling, Critical, Recording
<1> QED
  BY <1>1, <1>3, <1>4, <1>8, <1>9, Assemble

LEMMA CreateAtGatewayInv ==
  ASSUME IInv, NEW p \in Processes, CreateAtGateway(p)
  PROVE  IInv'
<1>1. DataType /\ ProcType /\ Knowledge /\ Ledger /\ pc[p] = "create"
  BY TypeSplit DEF CreateAtGateway, IInv, Critical
<1>2. Intent(p) \in Intents \union {NoIntent} /\ (pc[p] \notin {"idle", "list", "next"} => Intent(p) \in Intents)
  BY <1>1, JobKeepsIntent DEF ProcType, Intent
<1>3. Moves(p)
  BY <1>1, <1>2, GotoMoves, ReturnMoves DEF CreateAtGateway, Event, Label, Starting, Asking, Critical, Recording
<1>4. DataType' /\ todo' \in [Processes -> SUBSET Intents]
  BY <1>1, <1>2, IntentAssumption DEF DataType, ProcType, CreateAtGateway, Event, store, redis, Gateway
<1>5. pc'[p] \in {"store", "undo"} /\ Intent(p)' = Intent(p)
  BY <1>1, <1>2, GotoKeeps, ReturnsIdle DEF CreateAtGateway, Event, ProcType, DataType
<1>6. /\ UNCHANGED <<store, redis, todo>>
      /\ \A i \in Intents \ {Intent(p)} : gateway'[i] = gateway[i]
      /\ gateway'[Intent(p)] \in {"open", gateway[Intent(p)]}
  BY <1>1, <1>2, <1>5 DEF CreateAtGateway, Event, DataType, ProcType, store, redis
<1>7. Same(p)
  BY <1>1, <1>3, MovesSame
<1>8. Knowledge'
  BY <1>1, <1>2, <1>5, <1>6, <1>7, IntentAssumption
     DEF ProcType, DataType, Same, Knowledge, StartsFresh, HasRow,
        LockExcludes, KnowsCaptured, KnowsAgreed, KnowsRows, store, redis, Starting, Asking,
        Critical, Settling, Recording
<1>9. Ledger'
  BY <1>1, <1>2, <1>5, <1>6, IntentAssumption
     DEF ProcType, DataType, Ledger, RecordedOnce, RecordedIsCaptured,
        VerdictIsBacked, store, Knowledge, StartsFresh, HasRow, Starting, KnowsCaptured, KnowsAgreed, KnowsRows,
        Settling, Critical, Recording
<1> QED
  BY <1>1, <1>3, <1>4, <1>8, <1>9, Assemble

LEMMA InsertIntentInv ==
  ASSUME IInv, NEW p \in Processes, InsertIntent(p)
  PROVE  IInv'
<1>1. DataType /\ ProcType /\ Knowledge /\ Ledger /\ pc[p] = "store"
  BY TypeSplit DEF InsertIntent, IInv, Critical
<1>2. Intent(p) \in Intents \union {NoIntent} /\ (pc[p] \notin {"idle", "list", "next"} => Intent(p) \in Intents)
  BY <1>1, JobKeepsIntent DEF ProcType, Intent
<1>3. Moves(p)
  BY <1>1, <1>2, GotoMoves, ReturnMoves DEF InsertIntent, Event, Knowledge, StartsFresh, Starting, Label, Starting, Asking, Critical, Recording
<1>4. DataType' /\ todo' \in [Processes -> SUBSET Intents]
  BY <1>1, <1>2, IntentAssumption DEF DataType, ProcType, InsertIntent, Event, Knowledge, StartsFresh, Starting, store, redis, Status
<1>5. \/ pc'[p] \in {"idle", "next"} /\ Intent(p)' = NoIntent
      \/ pc'[p] = "undo" /\ Intent(p)' = Intent(p) /\ status' = status
  BY <1>1, <1>2, GotoKeeps, ReturnsIdle DEF InsertIntent, Event, Knowledge, StartsFresh, Starting, ProcType, DataType
<1>6. /\ UNCHANGED <<rows, redis, gateway, todo>>
      /\ \A i \in Intents \ {Intent(p)} : status'[i] = status[i]
      /\ status'[Intent(p)] \in {"NONE", "INITIATED"} /\ status[Intent(p)] = "NONE"
  BY <1>1, <1>2, <1>5 DEF InsertIntent, Event, Knowledge, StartsFresh, Starting, DataType, ProcType, store, redis
<1>7. Same(p)
  BY <1>1, <1>3, MovesSame
<1>8. Knowledge'
  BY <1>1, <1>2, <1>5, <1>6, <1>7, IntentAssumption
     DEF ProcType, DataType, Same, Knowledge, StartsFresh, HasRow,
        LockExcludes, KnowsCaptured, KnowsAgreed, KnowsRows, store, redis, Starting, Asking,
        Critical, Settling, Recording
<1>9. Ledger'
  BY <1>1, <1>2, <1>5, <1>6, IntentAssumption
     DEF ProcType, DataType, Ledger, RecordedOnce, RecordedIsCaptured,
        VerdictIsBacked, store, Knowledge, StartsFresh, HasRow, Starting, KnowsCaptured, KnowsAgreed, KnowsRows,
        Settling, Critical, Recording
<1> QED
  BY <1>1, <1>3, <1>4, <1>8, <1>9, Assemble

LEMMA UndoSlotInv ==
  ASSUME IInv, NEW p \in Processes, UndoSlot(p)
  PROVE  IInv'
<1>1. DataType /\ ProcType /\ Knowledge /\ Ledger /\ pc[p] = "undo"
  BY TypeSplit DEF UndoSlot, IInv, Critical
<1>2. Intent(p) \in Intents \union {NoIntent} /\ (pc[p] \notin {"idle", "list", "next"} => Intent(p) \in Intents)
  BY <1>1, JobKeepsIntent DEF ProcType, Intent
<1>3. Moves(p)
  BY <1>1, <1>2, GotoMoves, ReturnMoves DEF UndoSlot, releaseOrderSlot, Label, Starting, Asking, Critical, Recording
<1>4. DataType' /\ todo' \in [Processes -> SUBSET Intents]
  BY <1>1, <1>2, IntentAssumption DEF DataType, ProcType, UndoSlot, releaseOrderSlot, store, redis
<1>5. pc'[p] \in {"idle", "next"} /\ Intent(p)' = NoIntent
  BY <1>1, <1>2, GotoKeeps, ReturnsIdle DEF UndoSlot, releaseOrderSlot, ProcType, DataType
<1>6. UNCHANGED <<store, lock, gateway, todo>>
  BY <1>1, <1>2, <1>5 DEF UndoSlot, releaseOrderSlot, DataType, ProcType, store, redis
<1>7. Same(p)
  BY <1>1, <1>3, MovesSame
<1>8. Knowledge'
  BY <1>1, <1>2, <1>5, <1>6, <1>7, IntentAssumption
     DEF ProcType, DataType, Same, Knowledge, StartsFresh, HasRow,
        LockExcludes, KnowsCaptured, KnowsAgreed, KnowsRows, store, redis, Starting, Asking,
        Critical, Settling, Recording
<1>9. Ledger'
  BY <1>1, <1>2, <1>5, <1>6, IntentAssumption
     DEF ProcType, DataType, Ledger, RecordedOnce, RecordedIsCaptured,
        VerdictIsBacked, store, Knowledge, StartsFresh, HasRow, Starting, KnowsCaptured, KnowsAgreed, KnowsRows,
        Settling, Critical, Recording
<1> QED
  BY <1>1, <1>3, <1>4, <1>8, <1>9, Assemble

LEMMA ExecuteInv ==
  ASSUME IInv, NEW p \in Processes, Execute(p)
  PROVE  IInv'
<1>1. DataType /\ ProcType /\ Knowledge /\ Ledger /\ pc[p] = "execute"
  BY TypeSplit DEF Execute, IInv, Critical
<1>2. Intent(p) \in Intents \union {NoIntent} /\ (pc[p] \notin {"idle", "list", "next"} => Intent(p) \in Intents)
  BY <1>1, JobKeepsIntent DEF ProcType, Intent
<1>3. Moves(p)
  BY <1>1, <1>2, GotoMoves, ReturnMoves DEF Execute, Verified, Label, Starting, Asking, Critical, Recording
<1>4. DataType' /\ todo' \in [Processes -> SUBSET Intents]
  BY <1>1, <1>2, IntentAssumption DEF DataType, ProcType, Execute, Verified, store, redis, Gateway
<1>5. /\ Intent(p)' = Intent(p)
      /\ \/ pc'[p] = "query"
         \/ pc'[p] = "lock" /\ Intent(p) \notin Mismatched /\ gateway'[Intent(p)] = "captured"
         \/ pc'[p] = "mismatch" /\ gateway'[Intent(p)] = "captured"
  BY <1>1, <1>2, GotoKeeps, ReturnsIdle DEF Execute, Verified, ProcType, DataType, Agreed
<1>6. /\ UNCHANGED <<store, redis, todo>>
      /\ \A i \in Intents : gateway[i] = "captured" => gateway'[i] = "captured"
      /\ \A i \in Intents : gateway'[i] = "captured" => gateway[i] \in {"approved", "captured"}
      /\ \A i \in Intents : gateway'[i] = "approved" => gateway[i] = "approved"
  BY <1>1, <1>2, <1>5 DEF Execute, Verified, DataType, ProcType, store, redis
<1>7. Same(p)
  BY <1>1, <1>3, MovesSame
<1>8. Knowledge'
  BY <1>1, <1>2, <1>5, <1>6, <1>7, IntentAssumption
     DEF ProcType, DataType, Same, Knowledge, StartsFresh, HasRow,
        LockExcludes, KnowsCaptured, KnowsAgreed, KnowsRows, store, redis, Starting, Asking,
        Critical, Settling, Recording
<1>9. Ledger'
  BY <1>1, <1>2, <1>5, <1>6, IntentAssumption
     DEF ProcType, DataType, Ledger, RecordedOnce, RecordedIsCaptured,
        VerdictIsBacked, store, Knowledge, StartsFresh, HasRow, Starting, KnowsCaptured, KnowsAgreed, KnowsRows,
        Settling, Critical, Recording
<1> QED
  BY <1>1, <1>3, <1>4, <1>8, <1>9, Assemble

LEMMA QueryInv ==
  ASSUME IInv, NEW p \in Processes, Query(p)
  PROVE  IInv'
<1>1. DataType /\ ProcType /\ Knowledge /\ Ledger /\ pc[p] = "query"
  BY TypeSplit DEF Query, IInv, Critical
<1>2. Intent(p) \in Intents \union {NoIntent} /\ (pc[p] \notin {"idle", "list", "next"} => Intent(p) \in Intents)
  BY <1>1, JobKeepsIntent DEF ProcType, Intent
<1>3. Moves(p)
  BY <1>1, <1>2, GotoMoves, ReturnMoves DEF Query, Verified, Pending, Event, Label, Starting, Asking, Critical, Recording
<1>4. DataType' /\ todo' \in [Processes -> SUBSET Intents]
  BY <1>1, <1>2, IntentAssumption DEF DataType, ProcType, Query, Verified, Pending, Event, store, redis
<1>5. \/ pc'[p] \in {"idle", "next"} /\ Intent(p)' = NoIntent
      \/ Intent(p)' = Intent(p) /\ pc'[p] = "lock" /\ Intent(p) \notin Mismatched /\ gateway[Intent(p)] = "captured"
      \/ Intent(p)' = Intent(p) /\ pc'[p] = "mismatch" /\ gateway[Intent(p)] = "captured"
      \/ Intent(p)' = Intent(p) /\ pc'[p] = "failStatus"
  BY <1>1, <1>2, GotoKeeps, ReturnsIdle DEF Query, Verified, Pending, Event, ProcType, DataType, Agreed, Taken
<1>6. UNCHANGED <<store, redis, gateway, todo>>
  BY <1>1, <1>2, <1>5 DEF Query, Verified, Pending, Event, DataType, ProcType, store, redis
<1>7. Same(p)
  BY <1>1, <1>3, MovesSame
<1>8. Knowledge'
  BY <1>1, <1>2, <1>5, <1>6, <1>7, IntentAssumption
     DEF ProcType, DataType, Same, Knowledge, StartsFresh, HasRow,
        LockExcludes, KnowsCaptured, KnowsAgreed, KnowsRows, store, redis, Starting, Asking,
        Critical, Settling, Recording
<1>9. Ledger'
  BY <1>1, <1>2, <1>5, <1>6, IntentAssumption
     DEF ProcType, DataType, Ledger, RecordedOnce, RecordedIsCaptured,
        VerdictIsBacked, store, Knowledge, StartsFresh, HasRow, Starting, KnowsCaptured, KnowsAgreed, KnowsRows,
        Settling, Critical, Recording
<1> QED
  BY <1>1, <1>3, <1>4, <1>8, <1>9, Assemble

LEMMA FailStatusInv ==
  ASSUME IInv, NEW p \in Processes, FailStatus(p)
  PROVE  IInv'
<1>1. DataType /\ ProcType /\ Knowledge /\ Ledger /\ pc[p] = "failStatus"
  BY TypeSplit DEF FailStatus, IInv, Critical
<1>2. Intent(p) \in Intents \union {NoIntent} /\ (pc[p] \notin {"idle", "list", "next"} => Intent(p) \in Intents)
  BY <1>1, JobKeepsIntent DEF ProcType, Intent
<1>3. Moves(p)
  BY <1>1, <1>2, GotoMoves, ReturnMoves DEF FailStatus, setStatus, Label, Starting, Asking, Critical, Recording
<1>4. DataType' /\ todo' \in [Processes -> SUBSET Intents]
  BY <1>1, <1>2, IntentAssumption DEF DataType, ProcType, FailStatus, setStatus, store, redis, Status
<1>5. pc'[p] = "failSlot" /\ Intent(p)' = Intent(p)
  BY <1>1, <1>2, GotoKeeps, ReturnsIdle DEF FailStatus, setStatus, ProcType, DataType
<1>6. /\ UNCHANGED <<rows, redis, gateway, todo>> /\ job[p].seen \in Open
      /\ \A i \in Intents \ {Intent(p)} : status'[i] = status[i]
      /\ status'[Intent(p)] = status[Intent(p)] \/ (status'[Intent(p)] = "FAILED" /\ status[Intent(p)] \in Open)
  BY <1>1, <1>2, <1>5, JobKeepsIntent DEF FailStatus, setStatus, DataType, ProcType, store, redis
<1>7. Same(p)
  BY <1>1, <1>3, MovesSame
<1>8. Knowledge'
  BY <1>1, <1>2, <1>5, <1>6, <1>7, IntentAssumption
     DEF ProcType, DataType, Same, Knowledge, StartsFresh, HasRow,
        LockExcludes, KnowsCaptured, KnowsAgreed, KnowsRows, store, redis, Starting, Asking,
        Critical, Settling, Recording
<1>9. Ledger'
  BY <1>1, <1>2, <1>5, <1>6, IntentAssumption
     DEF ProcType, DataType, Ledger, RecordedOnce, RecordedIsCaptured,
        VerdictIsBacked, store, Knowledge, StartsFresh, HasRow, Starting, KnowsCaptured, KnowsAgreed, KnowsRows,
        Settling, Critical, Recording
<1> QED
  BY <1>1, <1>3, <1>4, <1>8, <1>9, Assemble

LEMMA FailSlotInv ==
  ASSUME IInv, NEW p \in Processes, FailSlot(p)
  PROVE  IInv'
<1>1. DataType /\ ProcType /\ Knowledge /\ Ledger /\ pc[p] = "failSlot"
  BY TypeSplit DEF FailSlot, IInv, Critical
<1>2. Intent(p) \in Intents \union {NoIntent} /\ (pc[p] \notin {"idle", "list", "next"} => Intent(p) \in Intents)
  BY <1>1, JobKeepsIntent DEF ProcType, Intent
<1>3. Moves(p)
  BY <1>1, <1>2, GotoMoves, ReturnMoves DEF FailSlot, releaseOrderSlot, Label, Starting, Asking, Critical, Recording
<1>4. DataType' /\ todo' \in [Processes -> SUBSET Intents]
  BY <1>1, <1>2, IntentAssumption DEF DataType, ProcType, FailSlot, releaseOrderSlot, store, redis
<1>5. pc'[p] \in {"idle", "next"} /\ Intent(p)' = NoIntent
  BY <1>1, <1>2, GotoKeeps, ReturnsIdle DEF FailSlot, releaseOrderSlot, ProcType, DataType
<1>6. UNCHANGED <<store, lock, gateway, todo>>
  BY <1>1, <1>2, <1>5 DEF FailSlot, releaseOrderSlot, DataType, ProcType, store, redis
<1>7. Same(p)
  BY <1>1, <1>3, MovesSame
<1>8. Knowledge'
  BY <1>1, <1>2, <1>5, <1>6, <1>7, IntentAssumption
     DEF ProcType, DataType, Same, Knowledge, StartsFresh, HasRow,
        LockExcludes, KnowsCaptured, KnowsAgreed, KnowsRows, store, redis, Starting, Asking,
        Critical, Settling, Recording
<1>9. Ledger'
  BY <1>1, <1>2, <1>5, <1>6, IntentAssumption
     DEF ProcType, DataType, Ledger, RecordedOnce, RecordedIsCaptured,
        VerdictIsBacked, store, Knowledge, StartsFresh, HasRow, Starting, KnowsCaptured, KnowsAgreed, KnowsRows,
        Settling, Critical, Recording
<1> QED
  BY <1>1, <1>3, <1>4, <1>8, <1>9, Assemble

LEMMA MismatchInv ==
  ASSUME IInv, NEW p \in Processes, Mismatch(p)
  PROVE  IInv'
<1>1. DataType /\ ProcType /\ Knowledge /\ Ledger /\ pc[p] = "mismatch"
  BY TypeSplit DEF Mismatch, IInv, Critical
<1>2. Intent(p) \in Intents \union {NoIntent} /\ (pc[p] \notin {"idle", "list", "next"} => Intent(p) \in Intents)
  BY <1>1, JobKeepsIntent DEF ProcType, Intent
<1>3. Moves(p)
  BY <1>1, <1>2, GotoMoves, ReturnMoves DEF Mismatch, setStatus, Label, Starting, Asking, Critical, Recording
<1>4. DataType' /\ todo' \in [Processes -> SUBSET Intents]
  BY <1>1, <1>2, IntentAssumption DEF DataType, ProcType, Mismatch, setStatus, store, redis, Status
<1>5. pc'[p] \in {"idle", "next"} /\ Intent(p)' = NoIntent
  BY <1>1, <1>2, GotoKeeps, ReturnsIdle DEF Mismatch, setStatus, ProcType, DataType
<1>6. /\ UNCHANGED <<rows, redis, gateway, todo>> /\ job[p].seen \in Open
      /\ \A i \in Intents \ {Intent(p)} : status'[i] = status[i]
      /\ status'[Intent(p)] = status[Intent(p)] \/ (status'[Intent(p)] = "NEEDS_REVIEW" /\ status[Intent(p)] \in Open)
  BY <1>1, <1>2, <1>5, JobKeepsIntent DEF Mismatch, setStatus, DataType, ProcType, store, redis
<1>7. Same(p)
  BY <1>1, <1>3, MovesSame
<1>8. Knowledge'
  BY <1>1, <1>2, <1>5, <1>6, <1>7, IntentAssumption
     DEF ProcType, DataType, Same, Knowledge, StartsFresh, HasRow,
        LockExcludes, KnowsCaptured, KnowsAgreed, KnowsRows, store, redis, Starting, Asking,
        Critical, Settling, Recording
<1>9. Ledger'
  BY <1>1, <1>2, <1>5, <1>6, IntentAssumption
     DEF ProcType, DataType, Ledger, RecordedOnce, RecordedIsCaptured,
        VerdictIsBacked, store, Knowledge, StartsFresh, HasRow, Starting, KnowsCaptured, KnowsAgreed, KnowsRows,
        Settling, Critical, Recording
<1> QED
  BY <1>1, <1>3, <1>4, <1>8, <1>9, Assemble

LEMMA AcquireFinalizeLockInv ==
  ASSUME IInv, NEW p \in Processes, AcquireFinalizeLock(p)
  PROVE  IInv'
<1>1. DataType /\ ProcType /\ Knowledge /\ Ledger /\ pc[p] = "lock"
  BY TypeSplit DEF AcquireFinalizeLock, IInv, Critical
<1>2. Intent(p) \in Intents \union {NoIntent} /\ (pc[p] \notin {"idle", "list", "next"} => Intent(p) \in Intents)
  BY <1>1, JobKeepsIntent DEF ProcType, Intent
<1>3. Moves(p)
  BY <1>1, <1>2, GotoMoves, ReturnMoves DEF AcquireFinalizeLock, Pending, Label, Starting, Asking, Critical, Recording
<1>4. DataType' /\ todo' \in [Processes -> SUBSET Intents]
  BY <1>1, <1>2, IntentAssumption DEF DataType, ProcType, AcquireFinalizeLock, Pending, store, redis
<1>5. \/ pc'[p] \in {"idle", "next"} /\ Intent(p)' = NoIntent /\ lock' = lock
      \/ pc'[p] = "failStatus" /\ Intent(p)' = Intent(p) /\ lock' = lock
      \/ pc'[p] = "fresh" /\ Intent(p)' = Intent(p) /\ Intent(p) \notin lock /\ lock' = lock \union {Intent(p)}
  BY <1>1, <1>2, GotoKeeps, ReturnsIdle DEF AcquireFinalizeLock, Pending, ProcType, DataType, FinalizeLockFree
<1>6. UNCHANGED <<store, gateway, todo>>
  BY <1>1, <1>2, <1>5 DEF AcquireFinalizeLock, Pending, DataType, ProcType, store, redis
<1>7. Same(p)
  BY <1>1, <1>3, MovesSame
<1>8. Knowledge'
  BY <1>1, <1>2, <1>5, <1>6, <1>7, IntentAssumption
     DEF ProcType, DataType, Same, Knowledge, StartsFresh, HasRow,
        LockExcludes, KnowsCaptured, KnowsAgreed, KnowsRows, store, redis, Starting, Asking,
        Critical, Settling, Recording
<1>9. Ledger'
  BY <1>1, <1>2, <1>5, <1>6, IntentAssumption
     DEF ProcType, DataType, Ledger, RecordedOnce, RecordedIsCaptured,
        VerdictIsBacked, store, Knowledge, StartsFresh, HasRow, Starting, KnowsCaptured, KnowsAgreed, KnowsRows,
        Settling, Critical, Recording
<1> QED
  BY <1>1, <1>3, <1>4, <1>8, <1>9, Assemble

LEMMA ReadFreshInv ==
  ASSUME IInv, NEW p \in Processes, ReadFresh(p)
  PROVE  IInv'
<1>1. DataType /\ ProcType /\ Knowledge /\ Ledger /\ pc[p] = "fresh"
  BY TypeSplit DEF ReadFresh, IInv, Critical
<1>2. Intent(p) \in Intents \union {NoIntent} /\ (pc[p] \notin {"idle", "list", "next"} => Intent(p) \in Intents)
  BY <1>1, JobKeepsIntent DEF ProcType, Intent
<1>3. Moves(p)
  BY <1>1, <1>2, GotoMoves, ReturnMoves DEF ReadFresh, Label, Starting, Asking, Critical, Recording
<1>4. DataType' /\ todo' \in [Processes -> SUBSET Intents]
  BY <1>1, <1>2, IntentAssumption DEF DataType, ProcType, ReadFresh, store, redis
<1>5. pc'[p] \in {"unlock", "already"} /\ Intent(p)' = Intent(p)
  BY <1>1, <1>2, GotoKeeps, ReturnsIdle DEF ReadFresh, ProcType, DataType
<1>6. UNCHANGED <<store, redis, gateway, todo>>
  BY <1>1, <1>2, <1>5 DEF ReadFresh, DataType, ProcType, store, redis
<1>7. Same(p)
  BY <1>1, <1>3, MovesSame
<1>8. Knowledge'
  BY <1>1, <1>2, <1>5, <1>6, <1>7, IntentAssumption
     DEF ProcType, DataType, Same, Knowledge, StartsFresh, HasRow,
        LockExcludes, KnowsCaptured, KnowsAgreed, KnowsRows, store, redis, Starting, Asking,
        Critical, Settling, Recording
<1>9. Ledger'
  BY <1>1, <1>2, <1>5, <1>6, IntentAssumption
     DEF ProcType, DataType, Ledger, RecordedOnce, RecordedIsCaptured,
        VerdictIsBacked, store, Knowledge, StartsFresh, HasRow, Starting, KnowsCaptured, KnowsAgreed, KnowsRows,
        Settling, Critical, Recording
<1> QED
  BY <1>1, <1>3, <1>4, <1>8, <1>9, Assemble

LEMMA ReadAlreadyInv ==
  ASSUME IInv, NEW p \in Processes, ReadAlready(p)
  PROVE  IInv'
<1>1. DataType /\ ProcType /\ Knowledge /\ Ledger /\ pc[p] = "already"
  BY TypeSplit DEF ReadAlready, IInv, Critical
<1>2. Intent(p) \in Intents \union {NoIntent} /\ (pc[p] \notin {"idle", "list", "next"} => Intent(p) \in Intents)
  BY <1>1, JobKeepsIntent DEF ProcType, Intent
<1>3. Moves(p)
  BY <1>1, <1>2, GotoMoves, ReturnMoves DEF ReadAlready, Label, Starting, Asking, Critical, Recording
<1>4. DataType' /\ todo' \in [Processes -> SUBSET Intents]
  BY <1>1, <1>2, IntentAssumption DEF DataType, ProcType, ReadAlready, store, redis
<1>5. /\ Intent(p)' = Intent(p)
      /\ \/ pc'[p] = "complete" /\ rows[Intent(p)] > 0
         \/ pc'[p] = "review"
         \/ pc'[p] = "check" /\ rows[Intent(p)] = 0
  BY <1>1, <1>2, GotoKeeps, ReturnsIdle DEF ReadAlready, ProcType, DataType, Already
<1>6. UNCHANGED <<store, redis, gateway, todo>>
  BY <1>1, <1>2, <1>5 DEF ReadAlready, DataType, ProcType, store, redis
<1>7. Same(p)
  BY <1>1, <1>3, MovesSame
<1>8. Knowledge'
  BY <1>1, <1>2, <1>5, <1>6, <1>7, IntentAssumption
     DEF ProcType, DataType, Same, Knowledge, StartsFresh, HasRow,
        LockExcludes, KnowsCaptured, KnowsAgreed, KnowsRows, store, redis, Starting, Asking,
        Critical, Settling, Recording
<1>9. Ledger'
  BY <1>1, <1>2, <1>5, <1>6, IntentAssumption
     DEF ProcType, DataType, Ledger, RecordedOnce, RecordedIsCaptured,
        VerdictIsBacked, store, Knowledge, StartsFresh, HasRow, Starting, KnowsCaptured, KnowsAgreed, KnowsRows,
        Settling, Critical, Recording
<1> QED
  BY <1>1, <1>3, <1>4, <1>8, <1>9, Assemble

LEMMA CheckPaymentInv ==
  ASSUME IInv, NEW p \in Processes, CheckPayment(p)
  PROVE  IInv'
<1>1. DataType /\ ProcType /\ Knowledge /\ Ledger /\ pc[p] = "check"
  BY TypeSplit DEF CheckPayment, IInv, Critical
<1>2. Intent(p) \in Intents \union {NoIntent} /\ (pc[p] \notin {"idle", "list", "next"} => Intent(p) \in Intents)
  BY <1>1, JobKeepsIntent DEF ProcType, Intent
<1>3. Moves(p)
  <2>1. job[p] \in Job /\ job[p].intent \in Intents /\ Order(p) \in Orders
    BY <1>1, <1>2, IntentAssumption DEF ProcType, Intent, Order
  <2>2. [job[p] EXCEPT !.pay = payStatus[Order(p)]] \in Job /\ [job[p] EXCEPT !.pay = payStatus[Order(p)]].intent \in Intents
    BY <1>1, <2>1, JobType, JobKeepsIntent DEF DataType
  <2>3. \/ Goto(p, "review") /\ job' = job
        \/ Goto(p, "verify") /\ job' = [job EXCEPT ![p] = [job[p] EXCEPT !.pay = payStatus[Order(p)]]]
    BY DEF CheckPayment
  <2> QED
    BY <1>1, <1>2, <2>2, <2>3, UpdateMoves, GotoMoves DEF Label, Critical, Recording
<1>4. DataType' /\ todo' \in [Processes -> SUBSET Intents]
  BY <1>1, <1>2, IntentAssumption DEF DataType, ProcType, CheckPayment, Event, store, redis
<1>5. pc'[p] \in {"review", "verify"} /\ Intent(p)' = Intent(p)
  <2>1. job[p] \in Job
    BY <1>1 DEF ProcType
  <2>2. job' = job \/ job' = [job EXCEPT ![p] = [job[p] EXCEPT !.pay = payStatus[Order(p)]]]
    BY DEF CheckPayment, Event
  <2>3. job'[p] = job[p] \/ job'[p] = [job[p] EXCEPT !.pay = payStatus[Order(p)]]
    BY <1>1, <2>2 DEF ProcType
  <2>4. [job[p] EXCEPT !.pay = payStatus[Order(p)]].intent = job[p].intent
    BY <2>1 DEF Job
  <2>5. Intent(p)' = Intent(p)
    BY <2>3, <2>4 DEF Intent
  <2> QED
    BY <1>1, <2>5 DEF CheckPayment, Event, Goto, ProcType
<1>6. UNCHANGED <<store, redis, gateway, todo>>
  BY <1>1, <1>2, <1>5 DEF CheckPayment, Event, DataType, ProcType, store, redis
<1>7. Same(p)
  BY <1>1, <1>3, MovesSame
<1>8. Knowledge'
  BY <1>1, <1>2, <1>5, <1>6, <1>7, IntentAssumption
     DEF ProcType, DataType, Same, Knowledge, StartsFresh, HasRow,
        LockExcludes, KnowsCaptured, KnowsAgreed, KnowsRows, store, redis, Starting, Asking,
        Critical, Settling, Recording
<1>9. Ledger'
  BY <1>1, <1>2, <1>5, <1>6, IntentAssumption
     DEF ProcType, DataType, Ledger, RecordedOnce, RecordedIsCaptured,
        VerdictIsBacked, store, Knowledge, StartsFresh, HasRow, Starting, KnowsCaptured, KnowsAgreed, KnowsRows,
        Settling, Critical, Recording
<1> QED
  BY <1>1, <1>3, <1>4, <1>8, <1>9, Assemble

LEMMA VerifySumInv ==
  ASSUME IInv, NEW p \in Processes, VerifySum(p)
  PROVE  IInv'
<1>1. DataType /\ ProcType /\ Knowledge /\ Ledger /\ pc[p] = "verify"
  BY TypeSplit DEF VerifySum, IInv, Critical
<1>2. Intent(p) \in Intents \union {NoIntent} /\ (pc[p] \notin {"idle", "list", "next"} => Intent(p) \in Intents)
  BY <1>1, JobKeepsIntent DEF ProcType, Intent
<1>3. Moves(p)
  <2>1. job[p] \in Job /\ job[p].intent \in Intents /\ Order(p) \in Orders
    BY <1>1, <1>2, IntentAssumption DEF ProcType, Intent, Order
  <2>a. \A b \in BOOLEAN : /\ [job[p] EXCEPT !.covers = b] \in Job
                           /\ [job[p] EXCEPT !.covers = b].intent \in Intents
    BY <2>1, JobType, JobKeepsIntent
  <2>b. (paid[Order(p)] + Amount[Intent(p)] = Total[Order(p)]) \in BOOLEAN
    OBVIOUS
  <2>2. /\ [job[p] EXCEPT !.covers = (paid[Order(p)] + Amount[Intent(p)] = Total[Order(p)])] \in Job
        /\ [job[p] EXCEPT !.covers =
                (paid[Order(p)] + Amount[Intent(p)] = Total[Order(p)])].intent \in Intents
    BY <2>a, <2>b
  <2>3. \/ (Goto(p, "review") \/ Goto(p, "check")) /\ job' = job
        \/ Goto(p, "commit") /\ job' = [job EXCEPT ![p] = [job[p] EXCEPT !.covers = (paid[Order(p)] + Amount[Intent(p)] = Total[Order(p)])]]
    BY DEF VerifySum, Conflict
  <2> QED
    BY <1>1, <1>2, <2>2, <2>3, UpdateMoves, GotoMoves DEF Label, Critical, Recording
<1>4. DataType' /\ todo' \in [Processes -> SUBSET Intents]
  BY <1>1, <1>2, IntentAssumption DEF DataType, ProcType, VerifySum, Conflict, store, redis
<1>5. pc'[p] \in {"review", "check", "commit"} /\ Intent(p)' = Intent(p)
  <2>1. job[p] \in Job
    BY <1>1 DEF ProcType
  <2>2. job' = job \/ job' = [job EXCEPT ![p] = [job[p] EXCEPT !.covers = (paid[Order(p)] + Amount[Intent(p)] = Total[Order(p)])]]
    BY DEF VerifySum, Conflict
  <2>3. job'[p] = job[p] \/ job'[p] = [job[p] EXCEPT !.covers = (paid[Order(p)] + Amount[Intent(p)] = Total[Order(p)])]
    BY <1>1, <2>2 DEF ProcType
  <2>4. [job[p] EXCEPT !.covers = (paid[Order(p)] + Amount[Intent(p)] = Total[Order(p)])].intent = job[p].intent
    BY <2>1 DEF Job
  <2>5. Intent(p)' = Intent(p)
    BY <2>3, <2>4 DEF Intent
  <2> QED
    BY <1>1, <2>5 DEF VerifySum, Conflict, Goto, ProcType
<1>6. UNCHANGED <<store, redis, gateway, todo>>
  BY <1>1, <1>2, <1>5 DEF VerifySum, Conflict, DataType, ProcType, store, redis
<1>7. Same(p)
  BY <1>1, <1>3, MovesSame
<1>8. Knowledge'
  BY <1>1, <1>2, <1>5, <1>6, <1>7, IntentAssumption
     DEF ProcType, DataType, Same, Knowledge, StartsFresh, HasRow,
        LockExcludes, KnowsCaptured, KnowsAgreed, KnowsRows, store, redis, Starting, Asking,
        Critical, Settling, Recording
<1>9. Ledger'
  BY <1>1, <1>2, <1>5, <1>6, IntentAssumption
     DEF ProcType, DataType, Ledger, RecordedOnce, RecordedIsCaptured,
        VerdictIsBacked, store, Knowledge, StartsFresh, HasRow, Starting, KnowsCaptured, KnowsAgreed, KnowsRows,
        Settling, Critical, Recording
<1> QED
  BY <1>1, <1>3, <1>4, <1>8, <1>9, Assemble

LEMMA CommitPaymentInv ==
  ASSUME IInv, NEW p \in Processes, CommitPayment(p)
  PROVE  IInv'
<1>1. DataType /\ ProcType /\ Knowledge /\ Ledger /\ pc[p] = "commit"
  BY TypeSplit DEF CommitPayment, IInv, Critical
<1>2. Intent(p) \in Intents \union {NoIntent} /\ (pc[p] \notin {"idle", "list", "next"} => Intent(p) \in Intents)
  BY <1>1, JobKeepsIntent DEF ProcType, Intent
<1>3. Moves(p)
  BY <1>1, <1>2, GotoMoves, ReturnMoves DEF CommitPayment, Conflict, Label, Starting, Asking, Critical, Recording
<1>4. DataType' /\ todo' \in [Processes -> SUBSET Intents]
  BY <1>1, <1>2, IntentAssumption DEF DataType, ProcType, CommitPayment, Conflict, store, redis, Order, PayStatus
<1>5. /\ Intent(p)' = Intent(p)
      /\ \/ pc'[p] = "complete" /\ rows' = [rows EXCEPT ![Intent(p)] = @ + 1]
         \/ pc'[p] \in {"review", "check"} /\ rows' = rows
  BY <1>1, <1>2, GotoKeeps, ReturnsIdle DEF CommitPayment, Conflict, ProcType, DataType
<1>6. /\ UNCHANGED <<status, redis, gateway, todo>>
      /\ \A i \in Intents \ {Intent(p)} : rows'[i] = rows[i]
      /\ rows'[Intent(p)] = IF pc'[p] = "complete" THEN rows[Intent(p)] + 1 ELSE rows[Intent(p)]
  BY <1>1, <1>2, <1>5 DEF CommitPayment, Conflict, DataType, ProcType, store, redis
<1>7. Same(p)
  BY <1>1, <1>3, MovesSame
<1>8. Knowledge'
  BY <1>1, <1>2, <1>5, <1>6, <1>7, IntentAssumption
     DEF ProcType, DataType, Same, Knowledge, StartsFresh, HasRow,
        LockExcludes, KnowsCaptured, KnowsAgreed, KnowsRows, store, redis, Starting, Asking,
        Critical, Settling, Recording
<1>9. Ledger'
  BY <1>1, <1>2, <1>5, <1>6, IntentAssumption
     DEF ProcType, DataType, Ledger, RecordedOnce, RecordedIsCaptured,
        VerdictIsBacked, store, Knowledge, StartsFresh, HasRow, Starting, KnowsCaptured, KnowsAgreed, KnowsRows,
        Settling, Critical, Recording
<1> QED
  BY <1>1, <1>3, <1>4, <1>8, <1>9, Assemble

LEMMA ReviewInv ==
  ASSUME IInv, NEW p \in Processes, Review(p)
  PROVE  IInv'
<1>1. DataType /\ ProcType /\ Knowledge /\ Ledger /\ pc[p] = "review"
  BY TypeSplit DEF Review, IInv, Critical
<1>2. Intent(p) \in Intents \union {NoIntent} /\ (pc[p] \notin {"idle", "list", "next"} => Intent(p) \in Intents)
  BY <1>1, JobKeepsIntent DEF ProcType, Intent
<1>3. Moves(p)
  BY <1>1, <1>2, GotoMoves, ReturnMoves DEF Review, setStatus, Label, Starting, Asking, Critical, Recording
<1>4. DataType' /\ todo' \in [Processes -> SUBSET Intents]
  BY <1>1, <1>2, IntentAssumption DEF DataType, ProcType, Review, setStatus, store, redis, Status
<1>5. pc'[p] = "unlock" /\ Intent(p)' = Intent(p)
  BY <1>1, <1>2, GotoKeeps, ReturnsIdle DEF Review, setStatus, ProcType, DataType
<1>6. /\ UNCHANGED <<rows, redis, gateway, todo>> /\ job[p].seen \in Open
      /\ \A i \in Intents \ {Intent(p)} : status'[i] = status[i]
      /\ status'[Intent(p)] = status[Intent(p)] \/ (status'[Intent(p)] = "NEEDS_REVIEW" /\ status[Intent(p)] \in Open)
  BY <1>1, <1>2, <1>5, JobKeepsIntent DEF Review, setStatus, DataType, ProcType, store, redis
<1>7. Same(p)
  BY <1>1, <1>3, MovesSame
<1>8. Knowledge'
  BY <1>1, <1>2, <1>5, <1>6, <1>7, IntentAssumption
     DEF ProcType, DataType, Same, Knowledge, StartsFresh, HasRow,
        LockExcludes, KnowsCaptured, KnowsAgreed, KnowsRows, store, redis, Starting, Asking,
        Critical, Settling, Recording
<1>9. Ledger'
  BY <1>1, <1>2, <1>5, <1>6, IntentAssumption
     DEF ProcType, DataType, Ledger, RecordedOnce, RecordedIsCaptured,
        VerdictIsBacked, store, Knowledge, StartsFresh, HasRow, Starting, KnowsCaptured, KnowsAgreed, KnowsRows,
        Settling, Critical, Recording
<1> QED
  BY <1>1, <1>3, <1>4, <1>8, <1>9, Assemble

LEMMA CompleteInv ==
  ASSUME IInv, NEW p \in Processes, Complete(p)
  PROVE  IInv'
<1>1. DataType /\ ProcType /\ Knowledge /\ Ledger /\ pc[p] = "complete"
  BY TypeSplit DEF Complete, IInv, Critical
<1>2. Intent(p) \in Intents \union {NoIntent} /\ (pc[p] \notin {"idle", "list", "next"} => Intent(p) \in Intents)
  BY <1>1, JobKeepsIntent DEF ProcType, Intent
<1>3. Moves(p)
  BY <1>1, <1>2, GotoMoves, ReturnMoves DEF Complete, setStatus, Label, Starting, Asking, Critical, Recording
<1>4. DataType' /\ todo' \in [Processes -> SUBSET Intents]
  BY <1>1, <1>2, IntentAssumption DEF DataType, ProcType, Complete, setStatus, store, redis, Status
<1>5. pc'[p] = "slotDone" /\ Intent(p)' = Intent(p)
  BY <1>1, <1>2, GotoKeeps, ReturnsIdle DEF Complete, setStatus, ProcType, DataType
<1>6. /\ UNCHANGED <<rows, redis, gateway, todo>> /\ job[p].seen \in Open
      /\ \A i \in Intents \ {Intent(p)} : status'[i] = status[i]
      /\ status'[Intent(p)] = status[Intent(p)] \/ (status'[Intent(p)] = "COMPLETED" /\ status[Intent(p)] \in Open)
  BY <1>1, <1>2, <1>5, JobKeepsIntent DEF Complete, setStatus, DataType, ProcType, store, redis
<1>7. Same(p)
  BY <1>1, <1>3, MovesSame
<1>8. Knowledge'
  BY <1>1, <1>2, <1>5, <1>6, <1>7, IntentAssumption
     DEF ProcType, DataType, Same, Knowledge, StartsFresh, HasRow,
        LockExcludes, KnowsCaptured, KnowsAgreed, KnowsRows, store, redis, Starting, Asking,
        Critical, Settling, Recording
<1>9. Ledger'
  BY <1>1, <1>2, <1>5, <1>6, IntentAssumption
     DEF ProcType, DataType, Ledger, RecordedOnce, RecordedIsCaptured,
        VerdictIsBacked, store, Knowledge, StartsFresh, HasRow, Starting, KnowsCaptured, KnowsAgreed, KnowsRows,
        Settling, Critical, Recording
<1> QED
  BY <1>1, <1>3, <1>4, <1>8, <1>9, Assemble

LEMMA ReleaseSlotInv ==
  ASSUME IInv, NEW p \in Processes, ReleaseSlot(p)
  PROVE  IInv'
<1>1. DataType /\ ProcType /\ Knowledge /\ Ledger /\ pc[p] = "slotDone"
  BY TypeSplit DEF ReleaseSlot, IInv, Critical
<1>2. Intent(p) \in Intents \union {NoIntent} /\ (pc[p] \notin {"idle", "list", "next"} => Intent(p) \in Intents)
  BY <1>1, JobKeepsIntent DEF ProcType, Intent
<1>3. Moves(p)
  BY <1>1, <1>2, GotoMoves, ReturnMoves DEF ReleaseSlot, releaseOrderSlot, Label, Starting, Asking, Critical, Recording
<1>4. DataType' /\ todo' \in [Processes -> SUBSET Intents]
  BY <1>1, <1>2, IntentAssumption DEF DataType, ProcType, ReleaseSlot, releaseOrderSlot, store, redis
<1>5. pc'[p] = "unlock" /\ Intent(p)' = Intent(p)
  BY <1>1, <1>2, GotoKeeps, ReturnsIdle DEF ReleaseSlot, releaseOrderSlot, ProcType, DataType
<1>6. UNCHANGED <<store, lock, gateway, todo>>
  BY <1>1, <1>2, <1>5 DEF ReleaseSlot, releaseOrderSlot, DataType, ProcType, store, redis
<1>7. Same(p)
  BY <1>1, <1>3, MovesSame
<1>8. Knowledge'
  BY <1>1, <1>2, <1>5, <1>6, <1>7, IntentAssumption
     DEF ProcType, DataType, Same, Knowledge, StartsFresh, HasRow,
        LockExcludes, KnowsCaptured, KnowsAgreed, KnowsRows, store, redis, Starting, Asking,
        Critical, Settling, Recording
<1>9. Ledger'
  BY <1>1, <1>2, <1>5, <1>6, IntentAssumption
     DEF ProcType, DataType, Ledger, RecordedOnce, RecordedIsCaptured,
        VerdictIsBacked, store, Knowledge, StartsFresh, HasRow, Starting, KnowsCaptured, KnowsAgreed, KnowsRows,
        Settling, Critical, Recording
<1> QED
  BY <1>1, <1>3, <1>4, <1>8, <1>9, Assemble

LEMMA UnlockInv ==
  ASSUME IInv, NEW p \in Processes, Unlock(p)
  PROVE  IInv'
<1>1. DataType /\ ProcType /\ Knowledge /\ Ledger /\ pc[p] = "unlock"
  BY TypeSplit DEF Unlock, IInv, Critical
<1>2. Intent(p) \in Intents \union {NoIntent} /\ (pc[p] \notin {"idle", "list", "next"} => Intent(p) \in Intents)
  BY <1>1, JobKeepsIntent DEF ProcType, Intent
<1>3. Moves(p)
  BY <1>1, <1>2, GotoMoves, ReturnMoves DEF Unlock, Label, Starting, Asking, Critical, Recording
<1>4. DataType' /\ todo' \in [Processes -> SUBSET Intents]
  BY <1>1, <1>2, IntentAssumption DEF DataType, ProcType, Unlock, store, redis
<1>5. pc'[p] \in {"idle", "next"} /\ Intent(p)' = NoIntent
  BY <1>1, <1>2, GotoKeeps, ReturnsIdle DEF Unlock, ProcType, DataType
<1>6. UNCHANGED <<store, gateway, todo>> /\ lock' = lock \ {Intent(p)}
  BY <1>1, <1>2, <1>5 DEF Unlock, DataType, ProcType, store, redis
<1>7. Same(p)
  BY <1>1, <1>3, MovesSame
<1>8. Knowledge'
  BY <1>1, <1>2, <1>5, <1>6, <1>7, IntentAssumption
     DEF ProcType, DataType, Same, Knowledge, StartsFresh, HasRow,
        LockExcludes, KnowsCaptured, KnowsAgreed, KnowsRows, store, redis, Starting, Asking,
        Critical, Settling, Recording
<1>9. Ledger'
  BY <1>1, <1>2, <1>5, <1>6, IntentAssumption
     DEF ProcType, DataType, Ledger, RecordedOnce, RecordedIsCaptured,
        VerdictIsBacked, store, Knowledge, StartsFresh, HasRow, Starting, KnowsCaptured, KnowsAgreed, KnowsRows,
        Settling, Critical, Recording
<1> QED
  BY <1>1, <1>3, <1>4, <1>8, <1>9, Assemble

LEMMA ThrowInv ==
  ASSUME IInv, NEW p \in Processes, Throw(p)
  PROVE  IInv'
<1>1. DataType /\ ProcType /\ Knowledge /\ Ledger /\ pc[p] \in Critical
  BY TypeSplit DEF Throw, IInv, Critical
<1>2. Intent(p) \in Intents \union {NoIntent} /\ (pc[p] \notin {"idle", "list", "next"} => Intent(p) \in Intents)
  BY <1>1, JobKeepsIntent DEF ProcType, Intent
<1>3. Moves(p)
  BY <1>1, <1>2, GotoMoves, ReturnMoves DEF Throw, Event, Label, Starting, Asking, Critical, Recording
<1>4. DataType' /\ todo' \in [Processes -> SUBSET Intents]
  BY <1>1, <1>2, IntentAssumption DEF DataType, ProcType, Throw, Event, store, redis
<1>5. pc'[p] = "unlock" /\ Intent(p)' = Intent(p)
  BY <1>1, <1>2, GotoKeeps, ReturnsIdle DEF Throw, Event, ProcType, DataType
<1>6. UNCHANGED <<store, redis, gateway, todo>>
  BY <1>1, <1>2, <1>5 DEF Throw, Event, DataType, ProcType, store, redis
<1>7. Same(p)
  BY <1>1, <1>3, MovesSame
<1>8. Knowledge'
  BY <1>1, <1>2, <1>5, <1>6, <1>7, IntentAssumption
     DEF ProcType, DataType, Same, Knowledge, StartsFresh, HasRow,
        LockExcludes, KnowsCaptured, KnowsAgreed, KnowsRows, store, redis, Starting, Asking,
        Critical, Settling, Recording
<1>9. Ledger'
  BY <1>1, <1>2, <1>5, <1>6, IntentAssumption
     DEF ProcType, DataType, Ledger, RecordedOnce, RecordedIsCaptured,
        VerdictIsBacked, store, Knowledge, StartsFresh, HasRow, Starting, KnowsCaptured, KnowsAgreed, KnowsRows,
        Settling, Critical, Recording
<1> QED
  BY <1>1, <1>3, <1>4, <1>8, <1>9, Assemble

-----------------------------------------------------------------------------
(* Calls and timer runs that start, and crashes.                           *)

LEMMA InitiateInv ==
  ASSUME IInv, NEW p \in Processes, NEW i \in Intents, Initiate(p, i)
  PROVE  IInv'
<1>1. DataType /\ ProcType /\ Knowledge /\ Ledger /\ pc[p] = "idle"
  BY TypeSplit DEF Initiate, IInv
<1>2. [NoJob EXCEPT !.intent = i] \in Job /\ [NoJob EXCEPT !.intent = i].intent = i
  BY JobType
<1>3. Moves(p)
  BY <1>2, UpdateMoves DEF Initiate, Label, Starting
<1>4. DataType' /\ todo' \in [Processes -> SUBSET Intents]
  BY <1>1 DEF DataType, ProcType, Initiate, store, redis
<1>5. pc'[p] = "slot" /\ Intent(p)' = i
  BY <1>1, <1>2 DEF Initiate, Goto, ProcType, Intent
<1>6. /\ UNCHANGED <<store, redis, gateway, todo>>
      /\ status[i] = "NONE" /\ \A q \in Processes : Intent(q) # i
  BY DEF Initiate
<1>7. Same(p)
  BY <1>1, <1>3, MovesSame
<1>8. Knowledge'
  BY <1>1, <1>5, <1>6, <1>7
     DEF ProcType, DataType, Same, Knowledge, StartsFresh, HasRow,
        LockExcludes, KnowsCaptured, KnowsAgreed, KnowsRows, store, redis, Starting, Asking,
        Critical, Settling, Recording
<1>9. Ledger'
  BY <1>1, <1>6 DEF Ledger, RecordedOnce, RecordedIsCaptured, VerdictIsBacked, store
<1> QED
  BY <1>1, <1>3, <1>4, <1>8, <1>9, Assemble

LEMMA NotifyInv ==
  ASSUME IInv, NEW p \in Processes, NEW i \in Intents,
         NEW first \in {"execute", "query"}, Notify(p, i, first)
  PROVE  IInv'
<1>1. DataType /\ ProcType /\ Knowledge /\ Ledger /\ pc[p] = "idle"
  BY TypeSplit DEF Notify, IInv
<1>2. status[i] \in Open
  BY DEF Notify
<1>3. /\ [NoJob EXCEPT !.intent = i, !.seen = status[i]] \in Job
      /\ [NoJob EXCEPT !.intent = i, !.seen = status[i]].intent = i
  BY <1>2, JobType
<1>4. Moves(p)
  BY <1>3, UpdateMoves DEF Notify, Label, Asking
<1>5. DataType' /\ todo' \in [Processes -> SUBSET Intents]
  BY <1>1 DEF DataType, ProcType, Notify, store, redis
<1>6. pc'[p] \in {"execute", "query"} /\ Intent(p)' = i
  BY <1>1, <1>3 DEF Notify, Goto, ProcType, Intent
<1>7. UNCHANGED <<store, redis, gateway, todo>> /\ status[i] # "NONE"
  BY <1>2 DEF Notify, Open
<1>8. Same(p)
  BY <1>1, <1>4, MovesSame
<1>9. Knowledge'
  BY <1>1, <1>6, <1>7, <1>8
     DEF ProcType, DataType, Same, Knowledge, StartsFresh, HasRow,
        LockExcludes, KnowsCaptured, KnowsAgreed, KnowsRows, store, redis, Starting, Asking,
        Critical, Settling, Recording
<1>10. Ledger'
  BY <1>1, <1>7 DEF Ledger, RecordedOnce, RecordedIsCaptured, VerdictIsBacked, store
<1> QED
  BY <1>1, <1>4, <1>5, <1>9, <1>10, Assemble

LEMMA ReconcileInv ==
  ASSUME IInv, NEW r \in Processes, NEW i \in Intents, Reconcile(r, i)
  PROVE  IInv'
<1>1. DataType /\ ProcType /\ Knowledge /\ Ledger /\ pc[r] = "next" /\ i \in todo[r]
  BY TypeSplit DEF Reconcile, IInv
<1>2. [NoJob EXCEPT !.intent = i] \in Job /\ [NoJob EXCEPT !.intent = i].intent = i
  BY JobType
<1>3. Moves(r)
  BY <1>2, UpdateMoves DEF Reconcile, Label, Asking
<1>4. DataType' /\ todo' \in [Processes -> SUBSET Intents]
  BY <1>1 DEF DataType, ProcType, Reconcile, store, redis
<1>5. pc'[r] = "query" /\ Intent(r)' = i
  BY <1>1, <1>2 DEF Reconcile, Goto, ProcType, Intent
<1>6. /\ UNCHANGED <<store, redis, gateway>> /\ status[i] # "NONE"
      /\ \A q \in Processes : todo'[q] \subseteq todo[q]
  BY <1>1 DEF Reconcile, ProcType, Knowledge, HasRow
<1>7. Same(r)
  BY <1>1, <1>3, MovesSame
<1>8. Knowledge'
  BY <1>1, <1>5, <1>6, <1>7
     DEF ProcType, DataType, Same, Knowledge, StartsFresh, HasRow,
        LockExcludes, KnowsCaptured, KnowsAgreed, KnowsRows, store, redis, Starting, Asking,
        Critical, Settling, Recording
<1>9. Ledger'
  BY <1>1, <1>6 DEF Ledger, RecordedOnce, RecordedIsCaptured, VerdictIsBacked, store
<1> QED
  BY <1>1, <1>3, <1>4, <1>8, <1>9, Assemble

(* The timer job between two attempts, and a process that dies: it knows   *)
(* of no attempt and the data stays.                                       *)
LEMMA RestInv ==
  ASSUME IInv, NEW p \in Processes,
         AcquireReconcileLock(p) \/ ListStale(p) \/ EndRun(p) \/ Crash(p)
  PROVE  IInv'
<1>1. DataType /\ ProcType /\ Knowledge /\ Ledger
  BY TypeSplit DEF IInv
<1>2. \E l \in {"idle", "list", "next"} : Goto(p, l)
  BY DEF AcquireReconcileLock, ListStale, EndRun, Crash
<1>3. Moves(p)
  <2>1. job' = [job EXCEPT ![p] = job[p]] \/ job' = [job EXCEPT ![p] = NoJob]
    BY <1>1 DEF AcquireReconcileLock, ListStale, EndRun, Crash, ProcType
  <2>2. job[p] \in Job /\ NoJob \in Job
    BY <1>1, JobType DEF ProcType
  <2> QED
    BY <1>2, <2>1, <2>2 DEF Moves, Goto, Label
<1>4. DataType' /\ todo' \in [Processes -> SUBSET Intents]
  <2> USE <1>1 DEF DataType, ProcType, store, redis
  <2>1. CASE AcquireReconcileLock(p)
    BY <2>1 DEF AcquireReconcileLock
  <2>2. CASE ListStale(p)
    BY <2>2 DEF ListStale
  <2>3. CASE EndRun(p)
    BY <2>3 DEF EndRun
  <2>4. CASE Crash(p)
    BY <2>4 DEF Crash, Event
  <2> QED
    BY <2>1, <2>2, <2>3, <2>4
<1>5. pc'[p] \in {"idle", "list", "next"}
  BY <1>1, <1>2 DEF Goto, ProcType
<1>6. /\ UNCHANGED <<store, lock, gateway>>
      /\ \A q \in Processes : \A i \in todo'[q] : i \in todo[q] \/ status[i] # "NONE"
  BY <1>1 DEF AcquireReconcileLock, ListStale, EndRun, Crash, Stale, store, redis, ProcType
<1>7. Same(p) /\ Intent(p)' \in {Intent(p), NoIntent}
  <2>1. Same(p)
    BY <1>1, <1>3, MovesSame
  <2>2. job'[p] = job[p] \/ job'[p] = NoJob
    BY <1>1 DEF AcquireReconcileLock, ListStale, EndRun, Crash, ProcType
  <2> QED
    BY <2>1, <2>2, JobType DEF Intent
<1>8. Knowledge'
  BY <1>1, <1>5, <1>6, <1>7, IntentAssumption
     DEF ProcType, DataType, Same, Knowledge, StartsFresh, HasRow,
        LockExcludes, KnowsCaptured, KnowsAgreed, KnowsRows, store, redis, Starting, Asking,
        Critical, Settling, Recording
<1>9. Ledger'
  BY <1>1, <1>6 DEF Ledger, RecordedOnce, RecordedIsCaptured, VerdictIsBacked, store
<1> QED
  BY <1>1, <1>3, <1>4, <1>8, <1>9, Assemble

-----------------------------------------------------------------------------
(* The environment.  An expired finalize lock had no holder left.          *)

LEMMA EnvironmentInv ==
  ASSUME LocksOutlive, IInv, Environment
  PROVE  IInv'
<1>1. DataType /\ ProcType /\ Knowledge /\ Ledger
  BY TypeSplit DEF IInv
<1>2. UNCHANGED <<pc, job, todo, rows, status>>
  BY DEF Environment, ReconcileLockExpires, SlotExpires, CancelOrder, CounterPayment,
         LockExpires, Customer, WrongOrder, store, redis
<1>3. DataType'
  <2> USE <1>1 DEF DataType, store, redis
  <2>1. CASE ReconcileLockExpires
    BY <2>1 DEF ReconcileLockExpires
  <2>2. CASE \E o \in Orders : SlotExpires(o)
    BY <2>2 DEF SlotExpires
  <2>3. CASE \E o \in Orders : CancelOrder(o)
    BY <2>3 DEF CancelOrder, Event, PayStatus
  <2>4. CASE \E o \in Orders : \E a \in 1..Total[o] : CounterPayment(o, a)
    BY <2>4, IntentAssumption DEF CounterPayment, Event, PayStatus
  <2>5. CASE \E i \in Intents : LockExpires(i)
    BY <2>5 DEF LockExpires
  <2>6. CASE \E i \in Intents : Customer(i)
    BY <2>6 DEF Customer, Gateway
  <2>7. CASE \E i \in Intents : WrongOrder(i)
    BY <2>7 DEF WrongOrder, Event
  <2> QED
    BY <2>1, <2>2, <2>3, <2>4, <2>5, <2>6, <2>7 DEF Environment
<1>4. ProcType'
  BY <1>1, <1>2 DEF ProcType, Intent
<1>5. /\ \A i \in Intents : gateway[i] = "captured" => gateway'[i] = "captured"
      /\ \A i \in Intents : gateway'[i] # gateway[i] => status[i] # "NONE"
      /\ \A i \in lock \ lock' : \A p \in Processes : ~InCritical(p, i)
  BY <1>1
     DEF Environment, ReconcileLockExpires, SlotExpires, CancelOrder, CounterPayment,
         LockExpires, Customer, WrongOrder, store, redis, DataType
<1>6. Knowledge'
  BY <1>1, <1>2, <1>4, <1>5
     DEF ProcType, DataType, Same, Knowledge, StartsFresh, HasRow,
        LockExcludes, KnowsCaptured, KnowsAgreed, KnowsRows, store, redis, Starting, Asking,
        Critical, Settling, Recording, InCritical, Intent
<1>7. Ledger'
  BY <1>1, <1>2, <1>5 DEF Ledger, RecordedOnce, RecordedIsCaptured, VerdictIsBacked, DataType
<1> QED
  BY <1>3, <1>4, <1>6, <1>7, TypeJoin DEF IInv

LEMMA NextInv ==
  ASSUME LocksOutlive
  PROVE  IInv /\ [Next]_vars => IInv'
<1> SUFFICES ASSUME IInv, [Next]_vars PROVE IInv'
  OBVIOUS
<1>1. CASE UNCHANGED vars
  BY <1>1 DEF IInv, TypeOK, Knowledge, StartsFresh, HasRow, LockExcludes,
     KnowsCaptured, KnowsAgreed, KnowsRows, Ledger, RecordedOnce, RecordedIsCaptured,
     VerdictIsBacked, Intent, vars
<1>2. ASSUME NEW p \in Processes, Start(p) PROVE IInv'
  BY <1>2, InitiateInv, NotifyInv DEF Start
<1>3. ASSUME NEW p \in Processes, Step(p) PROVE IInv'
  BY <1>3, TakeSlotInv, ReadHolderInv, ReadExistingInv, DropSlotInv, ReadHolderAgainInv,
     CreateAtGatewayInv, InsertIntentInv, UndoSlotInv, ExecuteInv, QueryInv,
     FailStatusInv, FailSlotInv, MismatchInv, AcquireFinalizeLockInv, ReadFreshInv,
     ReadAlreadyInv, CheckPaymentInv, VerifySumInv, CommitPaymentInv, ReviewInv,
     CompleteInv, ReleaseSlotInv, UnlockInv, ReconcileInv, RestInv DEF Step
<1>4. ASSUME NEW p \in Processes, Throw(p) \/ Crash(p) \/ AcquireReconcileLock(p)
      PROVE  IInv'
  BY <1>4, ThrowInv, RestInv
<1> QED
  BY <1>1, <1>2, <1>3, <1>4, EnvironmentInv DEF Next

-----------------------------------------------------------------------------
(* The inductive invariant, for every instance.                            *)
THEOREM Invariant ==
  ASSUME LocksOutlive
  PROVE  Spec => []IInv
<1>1. IInv /\ [Next]_vars => IInv'
  BY NextInv
<1> QED
  BY <1>1, InitInv, PTL DEF Spec

(* The variables keep their types.                                         *)
THEOREM TypeCorrect ==
  ASSUME LocksOutlive
  PROVE  Spec => []TypeOK
<1>1. Spec => []IInv
  BY Invariant
<1>2. IInv => TypeOK
  BY DEF IInv
<1> QED
  BY <1>1, <1>2, PTL

(* Whatever callbacks, webhooks, reconciliations and crashes there are, an *)
(* attempt gets one Payment row at most.                                   *)
THEOREM RecordedOnceHolds ==
  ASSUME LocksOutlive
  PROVE  Spec => []RecordedOnce
<1>1. Spec => []IInv
  BY Invariant
<1>2. IInv => RecordedOnce
  BY DEF IInv, Ledger
<1> QED
  BY <1>1, <1>2, PTL

(* Only money that was taken, for the amount asked, is recorded.           *)
THEOREM RecordedIsCapturedHolds ==
  ASSUME LocksOutlive
  PROVE  Spec => []RecordedIsCaptured
<1>1. Spec => []IInv
  BY Invariant
<1>2. IInv => RecordedIsCaptured
  BY DEF IInv, Ledger
<1> QED
  BY <1>1, <1>2, PTL

(* A final verdict is backed by the ledger or by the provider.             *)
THEOREM VerdictIsBackedHolds ==
  ASSUME LocksOutlive
  PROVE  Spec => []VerdictIsBacked
<1>1. Spec => []IInv
  BY Invariant
<1>2. IInv => VerdictIsBacked
  BY DEF IInv, Ledger
<1> QED
  BY <1>1, <1>2, PTL

-----------------------------------------------------------------------------
(* The refinement.                                                         *)

money == {i \in Intents : gateway[i] = "captured"}
verdict == [i \in Intents |-> Verdict(status[i])]

(* What a step can do to an attempt i, as PaymentSettlement sees it.        *)
Captures(i) == /\ gateway[i] # "captured" /\ gateway'[i] = "captured"
               /\ \A j \in Intents \ {i} : gateway'[j] = gateway[j]
               /\ UNCHANGED <<rows, status>>
Records(i) == /\ rows[i] = 0 /\ rows' = [rows EXCEPT ![i] = 1]
              /\ gateway[i] = "captured" /\ i \notin Mismatched
              /\ UNCHANGED <<gateway, status>>
Judges(i, s) == /\ status[i] \in Open /\ status' = [status EXCEPT ![i] = s]
                /\ UNCHANGED <<gateway, rows>>
Nothing ==
  /\ rows' = rows
  /\ \A i \in Intents : gateway'[i] = "captured" <=> gateway[i] = "captured"
  /\ \A i \in Intents : Verdict(status'[i]) = Verdict(status[i])

LEMMA SettlementStep ==
  ASSUME IInv,
         \/ Nothing
         \/ \E i \in Intents : Captures(i) \/ Records(i)
         \/ \E i \in Intents : rows[i] = 1 /\ Judges(i, "COMPLETED")
         \/ \E i \in Intents : gateway[i] = "captured" /\ Judges(i, "NEEDS_REVIEW")
  PROVE  [Settlement!Next]_<<money, rows, verdict>>
<1> USE DEF money, verdict
<1>0. DataType
  BY TypeSplit DEF IInv
<1>1. CASE Nothing
  <2>1. money' = money /\ rows' = rows
    BY <1>1 DEF Nothing
  <2>2. verdict' = verdict
    BY <1>1 DEF Nothing
  <2> QED
    BY <2>1, <2>2
<1>2. ASSUME NEW i \in Intents, Captures(i) PROVE Settlement!Capture(i)
  <2>1. i \notin money /\ money' = money \union {i}
    BY <1>2 DEF Captures
  <2>2. UNCHANGED <<rows, verdict>>
    BY <1>2 DEF Captures
  <2> QED
    BY <2>1, <2>2 DEF Settlement!Capture
<1>3. ASSUME NEW i \in Intents, Records(i) PROVE Settlement!Record(i)
  <2>1. i \in money \ Mismatched /\ UNCHANGED <<money, verdict>>
    BY <1>3 DEF Records
  <2> QED
    BY <1>3, <2>1 DEF Records, Settlement!Record
<1>4. ASSUME NEW i \in Intents, NEW s \in {"COMPLETED", "NEEDS_REVIEW"}, Judges(i, s)
      PROVE  /\ verdict[i] = "open" /\ verdict' = [verdict EXCEPT ![i] = Verdict(s)]
             /\ UNCHANGED <<money, rows>>
  <2>1. \A j \in Intents : status'[j] = IF j = i THEN s ELSE status[j]
    BY <1>0, <1>4 DEF Judges, DataType
  <2>2. verdict[i] = "open"
    BY <1>4 DEF Judges, Verdict, Open
  <2>3. verdict' = [verdict EXCEPT ![i] = Verdict(s)]
    BY <2>1
  <2> QED
    BY <1>4, <2>2, <2>3 DEF Judges
<1>5. ASSUME NEW i \in Intents, rows[i] = 1, Judges(i, "COMPLETED")
      PROVE  Settlement!Complete(i)
  BY <1>4, <1>5 DEF Settlement!Complete, Verdict
<1>6. ASSUME NEW i \in Intents, gateway[i] = "captured", Judges(i, "NEEDS_REVIEW")
      PROVE  Settlement!Review(i)
  BY <1>4, <1>6 DEF Settlement!Review, Verdict
<1> QED
  BY <1>1, <1>2, <1>3, <1>5, <1>6 DEF Settlement!Next

LEMMA ProcessSettles ==
  ASSUME IInv, NEW p \in Processes, Start(p) \/ Step(p)
  PROVE  \/ Nothing
         \/ \E i \in Intents : Captures(i) \/ Records(i)
         \/ \E i \in Intents : rows[i] = 1 /\ Judges(i, "COMPLETED")
         \/ \E i \in Intents : gateway[i] = "captured" /\ Judges(i, "NEEDS_REVIEW")
<1>1. DataType /\ ProcType /\ Knowledge /\ Ledger
  BY TypeSplit DEF IInv
<1>2. /\ pc[p] \notin {"idle", "list", "next"} => Intent(p) \in Intents
      /\ job[p].seen \in Open
  BY <1>1, JobKeepsIntent DEF ProcType
<1>3. CASE CreateAtGateway(p)
  <2>1. Intent(p) \in Intents /\ gateway[Intent(p)] # "captured"
    BY <1>1, <1>2, <1>3 DEF CreateAtGateway, Knowledge, StartsFresh, HasRow, Starting
  <2> QED
    BY <1>1, <1>3, <2>1 DEF CreateAtGateway, Nothing, store, DataType
<1>4. CASE InsertIntent(p)
  <2>1. Intent(p) \in Intents /\ status[Intent(p)] = "NONE"
    BY <1>1, <1>2, <1>4 DEF InsertIntent, Knowledge, StartsFresh, Starting
  <2>2. \A i \in Intents : Verdict(status'[i]) = Verdict(status[i])
    BY <1>1, <1>4, <2>1 DEF InsertIntent, DataType, Verdict
  <2> QED
    BY <1>4, <2>2 DEF InsertIntent, Nothing
<1>5. CASE Execute(p)
  <2>1. CASE gateway[Intent(p)] = "approved"
    <3>1. Captures(Intent(p)) /\ Intent(p) \in Intents
      BY <1>1, <1>2, <1>5, <2>1 DEF Execute, Captures, store, DataType
    <3> QED
      BY <3>1
  <2>2. CASE gateway[Intent(p)] # "approved"
    BY <1>5, <2>2 DEF Execute, Nothing, store
  <2> QED
    BY <2>1, <2>2
<1>6. CASE FailStatus(p)
  <2>1. \A i \in Intents : Verdict(status'[i]) = Verdict(status[i])
    BY <1>1, <1>2, <1>6 DEF FailStatus, setStatus, DataType, Verdict, Open
  <2> QED
    BY <1>6, <2>1 DEF FailStatus, Nothing
<1>7. CASE CommitPayment(p)
  <2>1. /\ Intent(p) \in Intents /\ rows[Intent(p)] = 0
        /\ gateway[Intent(p)] = "captured" /\ Intent(p) \notin Mismatched
    BY <1>1, <1>2, <1>7 DEF CommitPayment, Knowledge, KnowsRows, KnowsCaptured,
       KnowsAgreed, Recording, Settling, Critical
  <2>2. CASE rows' = rows
    BY <1>7, <2>2 DEF CommitPayment, Nothing
  <2>3. CASE rows' = [rows EXCEPT ![Intent(p)] = @ + 1]
    <3>1. Records(Intent(p))
      BY <1>1, <1>7, <2>1, <2>3 DEF CommitPayment, Records, DataType
    <3> QED
      BY <2>1, <3>1
  <2> QED
    BY <1>7, <2>2, <2>3 DEF CommitPayment
<1>8. CASE Complete(p)
  <2>1. Intent(p) \in Intents /\ rows[Intent(p)] = 1
    BY <1>1, <1>2, <1>8 DEF Complete, Knowledge, KnowsRows, Ledger, RecordedOnce, DataType
  <2>2. Nothing \/ Judges(Intent(p), "COMPLETED")
    BY <1>2, <1>8 DEF Complete, setStatus, Judges, Nothing
  <2> QED
    BY <2>1, <2>2
<1>9. CASE Review(p) \/ Mismatch(p)
  <2>1. Intent(p) \in Intents /\ gateway[Intent(p)] = "captured"
    BY <1>1, <1>2, <1>9 DEF Review, Mismatch, Knowledge, KnowsCaptured, Settling, Critical
  <2>2. Nothing \/ Judges(Intent(p), "NEEDS_REVIEW")
    BY <1>2, <1>9 DEF Review, Mismatch, setStatus, Judges, Nothing
  <2> QED
    BY <2>1, <2>2
<1>10. CASE UNCHANGED <<rows, gateway, status>>
  BY <1>10 DEF Nothing
<1> QED
  BY <1>3, <1>4, <1>5, <1>6, <1>7, <1>8, <1>9, <1>10
     DEF Start, Step, Initiate, Notify, TakeSlot, ReadHolder, ReadExisting, DropSlot,
         ReadHolderAgain, UndoSlot, Query, FailSlot, AcquireFinalizeLock, ReadFresh,
         ReadAlready, CheckPayment, VerifySum, ReleaseSlot, Unlock, ListStale, EndRun,
         Reconcile, store

LEMMA OthersSettle ==
  ASSUME IInv,
         \/ Environment
         \/ \E p \in Processes : Throw(p) \/ Crash(p) \/ AcquireReconcileLock(p)
         \/ UNCHANGED vars
  PROVE  Nothing
<1>1. UNCHANGED <<rows, status>>
  BY DEF Environment, ReconcileLockExpires, SlotExpires, CancelOrder, CounterPayment,
     LockExpires, Customer, WrongOrder, Throw, Crash, AcquireReconcileLock, store, vars
<1>2. DataType
  BY TypeSplit DEF IInv
<1>3. CASE \E i \in Intents : Customer(i)
  BY <1>1, <1>2, <1>3 DEF Customer, Nothing, DataType
<1>4. CASE gateway' = gateway
  BY <1>1, <1>4 DEF Nothing
<1> QED
  BY <1>3, <1>4 DEF Environment, ReconcileLockExpires, SlotExpires, CancelOrder,
     CounterPayment, LockExpires, WrongOrder, Throw, Crash, AcquireReconcileLock, vars

(* Every run of the service is a run of PaymentSettlement: a step of the   *)
(* detailed specification is a capture, a record, a verdict or a stutter.  *)
THEOREM Refinement ==
  ASSUME LocksOutlive
  PROVE  Spec => ImplementsSettlement
<1>1. Init => Settlement!Init
  BY DEF Init, Settlement!Init, Verdict
<1>2. IInv /\ [Next]_vars => [Settlement!Next]_<<money, rows, verdict>>
  BY SettlementStep, ProcessSettles, OthersSettle DEF Next
<1>3. Spec => []IInv
  BY Invariant
<1> QED
  BY <1>1, <1>2, <1>3, PTL
     DEF Spec, ImplementsSettlement, Settlement!Spec, Settlement!settlement, money, verdict

(* Nobody, with however old a view of an attempt, changes a final verdict. *)
THEOREM VerdictIsFinalHolds ==
  ASSUME LocksOutlive
  PROVE  Spec => VerdictIsFinal
<1>1. IInv /\ [Next]_vars =>
        [\A i \in Intents : status[i] \in {"COMPLETED", "NEEDS_REVIEW"}
                              => status'[i] = status[i]]_vars
  <2> SUFFICES ASSUME IInv, [Next]_vars, NEW i \in Intents,
                      status[i] \in {"COMPLETED", "NEEDS_REVIEW"}
               PROVE  status'[i] = status[i]
    OBVIOUS
  <2>1. DataType /\ ProcType /\ Knowledge /\ \A p \in Processes : job[p].seen \in Open
    BY TypeSplit, JobKeepsIntent DEF IInv, ProcType
  <2>2. ASSUME NEW p \in Processes, InsertIntent(p) PROVE status'[i] = status[i]
    BY <2>1, <2>2 DEF InsertIntent, Knowledge, StartsFresh, Starting, DataType
  <2>3. ASSUME NEW p \in Processes, FailStatus(p) \/ Mismatch(p) \/ Review(p) \/ Complete(p)
        PROVE  status'[i] = status[i]
    BY <2>1, <2>3 DEF FailStatus, Mismatch, Review, Complete, setStatus, Open, DataType
  <2>4. CASE status' = status
    BY <2>4
  <2>5. ASSUME NEW p \in Processes, Start(p) \/ Step(p) PROVE status'[i] = status[i]
    BY <2>2, <2>3, <2>4, <2>5
       DEF Start, Step, Initiate, Notify, TakeSlot, ReadHolder, ReadExisting, DropSlot,
           ReadHolderAgain, CreateAtGateway, UndoSlot, Execute, Query, FailSlot,
           AcquireFinalizeLock, ReadFresh, ReadAlready, CheckPayment, VerifySum,
           CommitPayment, ReleaseSlot, Unlock, ListStale, EndRun, Reconcile, store
  <2>6. ASSUME \/ Environment
               \/ \E p \in Processes : Throw(p) \/ Crash(p) \/ AcquireReconcileLock(p)
               \/ UNCHANGED vars
        PROVE  status' = status
    BY <2>6 DEF Environment, ReconcileLockExpires, SlotExpires, CancelOrder, CounterPayment,
       LockExpires, Customer, WrongOrder, Throw, Crash, AcquireReconcileLock, store, vars
  <2> QED
    BY <2>4, <2>5, <2>6 DEF Next
<1>2. Spec => []IInv
  BY Invariant
<1> QED
  BY <1>1, <1>2, PTL DEF Spec, VerdictIsFinal
=============================================================================
