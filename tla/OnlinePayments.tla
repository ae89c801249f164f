--------------------------- MODULE OnlinePayments ---------------------------
(***************************************************************************)
(* Online payments: apps/api/src/payment-gateway, from the start of an     *)
(* attempt to the Payment row, with the provider (bKash) and the order as  *)
(* its environment.                                                        *)
(*                                                                         *)
(* A Worker serves one HTTP call (initiate, callback or webhook); a        *)
(* Reconciler is a server's timer job.  Each runs one command against      *)
(* Postgres, Redis or the provider per step.  The PaymentIntent rows are   *)
(* written by compare-and-set on the status the caller read (seen).  The   *)
(* order slot and the finalize lock are Redis keys with a time to live,    *)
(* deleted by name, whoever holds them.                                    *)
(*                                                                         *)
(* Commands that fail, crashes, cancellations and payments at the counter  *)
(* are bounded together by MaxEvents; what the provider answers is not.    *)
(***************************************************************************)
EXTENDS Integers, FiniteSets

CONSTANTS
  Workers, Reconcilers,
  Intents,        \* payment attempts, one random id each
  Orders,
  OrderOf,        \* OrderOf[i]: the order attempt i pays
  Amount,         \* Amount[i]: what it pays
  Payer,          \* Payer[i]: the user who asks, with the provider chosen
  Total,          \* Total[o]: the grandTotal of o
  Mismatched,     \* attempts whose provider record disagrees with ours
  LocksOutlive,   \* TRUE: a finalize lock expires only after its holder is gone
  MayExpire,      \* TRUE: an attempt may be pending for more than 24 hours
  ErrorAnswers,   \* TRUE: the provider may answer a query with an error body
  MaxEvents,
  NoIntent

Processes == Workers \union Reconcilers

ASSUME ProcessAssumption == Workers \intersect Reconcilers = {}
ASSUME IntentAssumption ==
  /\ NoIntent \notin Intents
  /\ OrderOf \in [Intents -> Orders]
  /\ Amount \in [Intents -> Nat \ {0}]
  /\ Total \in [Orders -> Nat \ {0}]
  /\ Mismatched \subseteq Intents
  /\ MaxEvents \in Nat

VARIABLES
  status,      \* PaymentIntent.status, NONE before the row is inserted
  rows,        \* rows[i]: Payment rows of OrderOf[i] with i's transaction id
  foreign,     \* attempts whose transaction id staff entered on another order
  paid,        \* paid[o]: sum of o's PAID Payment rows
  payStatus,   \* Order.paymentStatus
  cancelled,   \* the cancelled orders
  slot,        \* slot[o]: the attempt in Redis pay:order-active:o
  lock,        \* the attempts whose Redis pay:finalize key exists
  reconciling, \* whether Redis pay:reconcile:lock exists
  gateway,     \* the payment at the provider
  pc, job,     \* per process: its next command, and what it relies on
  todo,        \* todo[r]: what reconciler r has left of its list
  events       \* failures and staff actions so far

store == <<status, rows, foreign, paid, payStatus, cancelled>>
redis == <<slot, lock, reconciling>>
vars == <<status, rows, foreign, paid, payStatus, cancelled, slot, lock,
          reconciling, gateway, pc, job, todo, events>>

-----------------------------------------------------------------------------
Status == {"NONE", "INITIATED", "COMPLETED", "FAILED", "NEEDS_REVIEW"}
Open == {"INITIATED", "FAILED"}
PayStatus == {"PENDING", "PAID", "REFUNDED"}
Gateway == {"none", "open", "approved", "captured", "declined"}

Starting == {"slot", "holder", "existing", "drop", "again", "againHolder",
             "create", "store", "undo"}
Asking == {"execute", "query", "failStatus", "failSlot"}
Recording == {"check", "verify", "commit"}
Critical == {"fresh", "already"} \union Recording \union
            {"review", "complete", "slotDone", "unlock"}
Label == {"idle", "list", "next", "mismatch", "lock"}
         \union Starting \union Asking \union Critical

NoJob == [intent |-> NoIntent, seen |-> "INITIATED", holder |-> NoIntent,
          pay |-> "PENDING", covers |-> FALSE]
Job == [intent : Intents \union {NoIntent}, seen : Open,
        holder : Intents \union {NoIntent}, pay : PayStatus, covers : BOOLEAN]

Intent(p) == job[p].intent
Order(p) == OrderOf[Intent(p)]

Goto(p, l) == pc' = [pc EXCEPT ![p] = l]

(* The call returns; a reconciler goes on with its list.                   *)
Return(p) ==
  /\ Goto(p, IF p \in Reconcilers THEN "next" ELSE "idle")
  /\ job' = [job EXCEPT ![p] = NoJob]

(* A failure or a staff action, of which a run sees MaxEvents.             *)
Event ==
  /\ events < MaxEvents
  /\ events' = events + 1

-----------------------------------------------------------------------------
(* PaymentIntentStore.                                                     *)

(* Faulty variant of setStatus: the update is not conditional.             *)
setStatusAlways(p, s) == status' = [status EXCEPT ![Intent(p)] = s]

setStatus(p, s) ==
  status' = IF status[Intent(p)] = job[p].seen
            THEN [status EXCEPT ![Intent(p)] = s]
            ELSE status

(* SET NX.  When the key is taken, a GET follows that may find it gone.    *)
tryAcquireOrderSlot(p, won, taken) ==
  IF slot[Order(p)] = NoIntent
  THEN slot' = [slot EXCEPT ![Order(p)] = Intent(p)] /\ Goto(p, won)
  ELSE slot' = slot /\ Goto(p, taken)

releaseOrderSlot(p) == slot' = [slot EXCEPT ![Order(p)] = NoIntent]

-----------------------------------------------------------------------------
(* initiate                                                                *)

(* The order exists, is not cancelled and the amount fits what is left.    *)
Initiate(p, i) ==
  /\ pc[p] = "idle" /\ p \in Workers
  /\ status[i] = "NONE" /\ gateway[i] = "none"
  /\ \A q \in Processes : Intent(q) # i
  /\ OrderOf[i] \notin cancelled
  /\ Amount[i] <= Total[OrderOf[i]] - paid[OrderOf[i]]
  /\ Goto(p, "slot")
  /\ job' = [job EXCEPT ![p] = [NoJob EXCEPT !.intent = i]]
  /\ UNCHANGED <<store, redis, gateway, todo, events>>

TakeSlot(p) ==
  /\ \/ pc[p] = "slot" /\ tryAcquireOrderSlot(p, "create", "holder")
     \/ pc[p] = "again" /\ tryAcquireOrderSlot(p, "create", "againHolder")
  /\ UNCHANGED <<store, lock, reconciling, gateway, job, todo, events>>

(* The GET of tryAcquireOrderSlot: no holder any more reads as acquired.   *)
ReadHolder(p) ==
  /\ pc[p] = "holder"
  /\ Goto(p, IF slot[Order(p)] = NoIntent THEN "create" ELSE "existing")
  /\ job' = [job EXCEPT ![p].holder = slot[Order(p)]]
  /\ UNCHANGED <<store, redis, gateway, todo, events>>

SameAttempt(i, j) ==
  status[j] = "INITIATED" /\ Amount[i] = Amount[j] /\ Payer[i] = Payer[j]

(* The same attempt once more gets the first one's redirect back.          *)
ReadExisting(p) ==
  /\ pc[p] = "existing"
  /\ IF SameAttempt(Intent(p), job[p].holder)
     THEN Return(p)
     ELSE Goto(p, "drop") /\ job' = job
  /\ UNCHANGED <<store, redis, gateway, todo, events>>

DropSlot(p) ==
  /\ pc[p] = "drop"
  /\ releaseOrderSlot(p)
  /\ Goto(p, "again")
  /\ UNCHANGED <<store, lock, reconciling, gateway, job, todo, events>>

ReadHolderAgain(p) ==
  /\ pc[p] = "againHolder"
  /\ IF slot[Order(p)] = NoIntent
     THEN Goto(p, "create") /\ job' = job
     ELSE Return(p)
  /\ UNCHANGED <<store, redis, gateway, todo, events>>

(* The provider opens a payment, or refuses, or cannot be reached.         *)
CreateAtGateway(p) ==
  /\ pc[p] = "create"
  /\ \/ /\ gateway' = [gateway EXCEPT ![Intent(p)] = "open"]
        /\ Goto(p, "store")
     \/ Goto(p, "undo") /\ UNCHANGED gateway
  /\ UNCHANGED <<store, redis, job, todo, events>>

InsertIntent(p) ==
  /\ pc[p] = "store"
  /\ \/ /\ status' = [status EXCEPT ![Intent(p)] = "INITIATED"]
        /\ Return(p)
        /\ UNCHANGED events
     \/ Event /\ Goto(p, "undo") /\ UNCHANGED <<status, job>>
  /\ UNCHANGED <<rows, foreign, paid, payStatus, cancelled, redis, gateway, todo>>

UndoSlot(p) ==
  /\ pc[p] = "undo"
  /\ releaseOrderSlot(p)
  /\ Return(p)
  /\ UNCHANGED <<store, lock, reconciling, gateway, todo, events>>

-----------------------------------------------------------------------------
(* verifyAndFinalize                                                       *)

(* A callback (EXECUTE or QUERY, by its hint) or a webhook (QUERY) finds   *)
(* the attempt by the provider's id; a settled one returns at once.        *)
Notify(p, i, first) ==
  /\ pc[p] = "idle" /\ p \in Workers
  /\ status[i] \in Open
  /\ Goto(p, first)
  /\ job' = [job EXCEPT ![p] = [NoJob EXCEPT !.intent = i, !.seen = status[i]]]
  /\ UNCHANGED <<store, redis, gateway, todo, events>>

(* The outcome is pending: the reconciler gives up an attempt of 24 hours. *)
Pending(p) ==
  \/ Return(p)
  \/ MayExpire /\ p \in Reconcilers /\ Goto(p, "failStatus") /\ job' = job

(* Faulty variant of Agreed: the provider's record is not compared.        *)
AgreedAlways(i) == TRUE
Agreed(i) == i \notin Mismatched

(* Faulty variant of Verified: the attempt is forgotten on the way.         *)
VerifiedForgets(p) ==
  Goto(p, IF Agreed(Intent(p)) THEN "lock" ELSE "mismatch")
  /\ job' = [job EXCEPT ![p] = NoJob]
Verified(p) ==
  Goto(p, IF Agreed(Intent(p)) THEN "lock" ELSE "mismatch") /\ job' = job

(* Execute captures an approved payment; its answer may get lost.          *)
Execute(p) ==
  /\ pc[p] = "execute"
  /\ IF gateway[Intent(p)] = "approved"
     THEN /\ gateway' = [gateway EXCEPT ![Intent(p)] = "captured"]
          /\ Verified(p) \/ (Goto(p, "query") /\ job' = job)
     ELSE Goto(p, "query") /\ UNCHANGED <<gateway, job>>
  /\ UNCHANGED <<store, redis, todo, events>>

(* Faulty variant of Taken: an approved payment passes for a captured one. *)
TakenWhenApproved(i) == gateway[i] \in {"approved", "captured"}
Taken(i) == gateway[i] = "captured"

Query(p) ==
  /\ pc[p] = "query"
  /\ \/ /\ Taken(Intent(p)) /\ Verified(p)
        /\ UNCHANGED events
     \/ /\ ~Taken(Intent(p)) /\ gateway[Intent(p)] \in {"open", "approved"}
        /\ Pending(p)
        /\ UNCHANGED events
     \/ /\ gateway[Intent(p)] = "declined"
        /\ Goto(p, "failStatus") /\ UNCHANGED <<job, events>>
     \/ Event /\ Pending(p)                                  \* unreachable
     \/ /\ ErrorAnswers                              \* no transactionStatus
        /\ Goto(p, "failStatus") /\ UNCHANGED <<job, events>>
  /\ UNCHANGED <<store, redis, gateway, todo>>

FailStatus(p) ==
  /\ pc[p] = "failStatus"
  /\ IF job[p].seen = "FAILED" THEN UNCHANGED status ELSE setStatus(p, "FAILED")
  /\ Goto(p, "failSlot")
  /\ UNCHANGED <<rows, foreign, paid, payStatus, cancelled, redis, gateway,
                 job, todo, events>>

FailSlot(p) ==
  /\ pc[p] = "failSlot"
  /\ releaseOrderSlot(p)
  /\ Return(p)
  /\ UNCHANGED <<store, lock, reconciling, gateway, todo, events>>

Mismatch(p) ==
  /\ pc[p] = "mismatch"
  /\ setStatus(p, "NEEDS_REVIEW")
  /\ Return(p)
  /\ UNCHANGED <<rows, foreign, paid, payStatus, cancelled, redis, gateway,
                 todo, events>>

(* Faulty variant of acquireFinalizeLock: SET without NX.                  *)
FinalizeLockFreeAlways(i) == TRUE
FinalizeLockFree(i) == i \notin lock

AcquireFinalizeLock(p) ==
  /\ pc[p] = "lock"
  /\ IF FinalizeLockFree(Intent(p))
     THEN lock' = lock \union {Intent(p)} /\ Goto(p, "fresh") /\ job' = job
     ELSE lock' = lock /\ Pending(p)
  /\ UNCHANGED <<store, slot, reconciling, gateway, todo, events>>

ReadFresh(p) ==
  /\ pc[p] = "fresh"
  /\ Goto(p, IF status[Intent(p)] = "COMPLETED" THEN "unlock" ELSE "already")
  /\ UNCHANGED <<store, redis, gateway, job, todo, events>>

(* Faulty variant of Already: the Payment row of an earlier try is missed. *)
AlreadyNever(i) == FALSE
Already(i) == rows[i] > 0

(* The first row of the organization with this transaction id, if any.     *)
ReadAlready(p) ==
  /\ pc[p] = "already"
  /\ \/ Already(Intent(p)) /\ Goto(p, "complete")
     \/ Intent(p) \in foreign /\ Goto(p, "review")
     \/ ~Already(Intent(p)) /\ Intent(p) \notin foreign /\ Goto(p, "check")
  /\ UNCHANGED <<store, redis, gateway, job, todo, events>>

-----------------------------------------------------------------------------
(* OrderService.createPayment, as verifyAndFinalize calls it: the reads,   *)
(* the sum after the insert, the conditional update with the commit.  The  *)
(* new row is visible to others from the commit on.                        *)

Conflict(p) == (Goto(p, "check") \/ Goto(p, "review")) /\ UNCHANGED job

CheckPayment(p) ==
  /\ pc[p] = "check"
  /\ \/ /\ \/ Order(p) \in cancelled
           \/ Already(Intent(p)) \/ Intent(p) \in foreign
           \/ Amount[Intent(p)] > Total[Order(p)] - paid[Order(p)]
        /\ Goto(p, "review") /\ UNCHANGED <<job, events>>
     \/ /\ Order(p) \notin cancelled
        /\ ~Already(Intent(p)) /\ Intent(p) \notin foreign
        /\ Amount[Intent(p)] <= Total[Order(p)] - paid[Order(p)]
        /\ Goto(p, "verify")
        /\ job' = [job EXCEPT ![p].pay = payStatus[Order(p)]]
        /\ UNCHANGED events
     \/ Event /\ Goto(p, "review") /\ UNCHANGED job   \* the database fails
  /\ UNCHANGED <<store, redis, gateway, todo>>

VerifySum(p) ==
  /\ pc[p] = "verify"
  /\ IF paid[Order(p)] + Amount[Intent(p)] > Total[Order(p)]
     THEN Conflict(p)
     ELSE /\ Goto(p, "commit")
          /\ job' = [job EXCEPT ![p].covers =
                       paid[Order(p)] + Amount[Intent(p)] = Total[Order(p)]]
  /\ UNCHANGED <<store, redis, gateway, todo, events>>

CommitPayment(p) ==
  /\ pc[p] = "commit"
  /\ IF payStatus[Order(p)] = job[p].pay
     THEN /\ rows' = [rows EXCEPT ![Intent(p)] = @ + 1]
          /\ paid' = [paid EXCEPT ![Order(p)] = @ + Amount[Intent(p)]]
          /\ payStatus' = [payStatus EXCEPT ![Order(p)] =
               IF job[p].covers THEN "PAID" ELSE "PENDING"]
          /\ Goto(p, "complete") /\ job' = job
     ELSE Conflict(p) /\ UNCHANGED <<rows, paid, payStatus>>
  /\ UNCHANGED <<status, foreign, cancelled, redis, gateway, todo, events>>

-----------------------------------------------------------------------------
(* The end of verifyAndFinalize.                                           *)

Review(p) ==
  /\ pc[p] = "review"
  /\ setStatus(p, "NEEDS_REVIEW")
  /\ Goto(p, "unlock")
  /\ UNCHANGED <<rows, foreign, paid, payStatus, cancelled, redis, gateway,
                 job, todo, events>>

Complete(p) ==
  /\ pc[p] = "complete"
  /\ setStatus(p, "COMPLETED")
  /\ Goto(p, "slotDone")
  /\ UNCHANGED <<rows, foreign, paid, payStatus, cancelled, redis, gateway,
                 job, todo, events>>

ReleaseSlot(p) ==
  /\ pc[p] = "slotDone"
  /\ releaseOrderSlot(p)
  /\ Goto(p, "unlock")
  /\ UNCHANGED <<store, lock, reconciling, gateway, job, todo, events>>

(* The finally clause.                                                     *)
Unlock(p) ==
  /\ pc[p] = "unlock"
  /\ lock' = lock \ {Intent(p)}
  /\ Return(p)
  /\ UNCHANGED <<store, slot, reconciling, gateway, todo, events>>

(* A command of the critical section throws: the finally clause runs.      *)
Throw(p) ==
  /\ pc[p] \in {"fresh", "already", "review", "complete", "slotDone"}
  /\ Event
  /\ Goto(p, "unlock")
  /\ UNCHANGED <<store, redis, gateway, job, todo>>

-----------------------------------------------------------------------------
(* PaymentReconciliationService.run                                        *)

AcquireReconcileLock(r) ==
  /\ pc[r] = "idle" /\ r \in Reconcilers
  /\ ~reconciling
  /\ reconciling' = TRUE
  /\ Goto(r, "list")
  /\ UNCHANGED <<store, slot, lock, gateway, job, todo, events>>

(* Faulty variant of Stale: only attempts that still have their order slot. *)
StaleInSlot(i) == status[i] = "INITIATED" /\ slot[OrderOf[i]] = i
Stale(i) == status[i] = "INITIATED"

ListStale(r) ==
  /\ pc[r] = "list"
  /\ todo' = [todo EXCEPT ![r] = {i \in Intents : Stale(i)}]
  /\ Goto(r, "next")
  /\ UNCHANGED <<store, redis, gateway, job, events>>

Reconcile(r, i) ==
  /\ pc[r] = "next" /\ i \in todo[r]
  /\ todo' = [todo EXCEPT ![r] = @ \ {i}]
  /\ job' = [job EXCEPT ![r] = [NoJob EXCEPT !.intent = i]]
  /\ Goto(r, "query")
  /\ UNCHANGED <<store, redis, gateway, events>>

EndRun(r) ==
  /\ pc[r] = "next" /\ todo[r] = {}
  /\ Goto(r, "idle")
  /\ UNCHANGED <<store, redis, gateway, job, todo, events>>

(* The lock is never deleted; it expires before the next tick.             *)
ReconcileLockExpires ==
  /\ reconciling
  /\ reconciling' = FALSE
  /\ UNCHANGED <<store, slot, lock, gateway, pc, job, todo, events>>

-----------------------------------------------------------------------------
(* The environment: processes that die, Redis keys that expire, the        *)
(* customer on the provider's page, staff at the counter.                  *)

Crash(p) ==
  /\ pc[p] # "idle"
  /\ Event
  /\ Goto(p, "idle")
  /\ job' = [job EXCEPT ![p] = NoJob]
  /\ todo' = [todo EXCEPT ![p] = {}]
  /\ UNCHANGED <<store, redis, gateway>>

SlotExpires(o) ==
  /\ slot[o] # NoIntent
  /\ slot' = [slot EXCEPT ![o] = NoIntent]
  /\ UNCHANGED <<store, lock, reconciling, gateway, pc, job, todo, events>>

InCritical(p, i) == pc[p] \in Critical /\ Intent(p) = i

LockExpires(i) ==
  /\ i \in lock
  /\ LocksOutlive => \A p \in Processes : ~InCritical(p, i)
  /\ lock' = lock \ {i}
  /\ UNCHANGED <<store, slot, reconciling, gateway, pc, job, todo, events>>

Customer(i) ==
  /\ status[i] # "NONE" /\ gateway[i] = "open"
  /\ \E g \in {"approved", "declined"} : gateway' = [gateway EXCEPT ![i] = g]
  /\ UNCHANGED <<store, redis, pc, job, todo, events>>

CounterPayment(o, a) ==
  /\ Event
  /\ o \notin cancelled /\ a <= Total[o] - paid[o]
  /\ paid' = [paid EXCEPT ![o] = @ + a]
  /\ payStatus' = [payStatus EXCEPT ![o] =
                     IF paid[o] + a = Total[o] THEN "PAID" ELSE "PENDING"]
  /\ UNCHANGED <<status, rows, foreign, cancelled, redis, gateway, pc, job, todo>>

CancelOrder(o) ==
  /\ Event
  /\ o \notin cancelled
  /\ cancelled' = cancelled \union {o}
  /\ payStatus' = [payStatus EXCEPT ![o] = IF @ = "PAID" THEN "REFUNDED" ELSE @]
  /\ UNCHANGED <<status, rows, foreign, paid, redis, gateway, pc, job, todo>>

(* Staff enter the provider's transaction id on another order.             *)
WrongOrder(i) ==
  /\ Event
  /\ gateway[i] = "captured" /\ rows[i] = 0 /\ i \notin foreign
  /\ foreign' = foreign \union {i}
  /\ UNCHANGED <<status, rows, paid, payStatus, cancelled, redis, gateway,
                 pc, job, todo>>

-----------------------------------------------------------------------------
Init ==
  /\ status = [i \in Intents |-> "NONE"]
  /\ rows = [i \in Intents |-> 0]
  /\ foreign = {}
  /\ paid = [o \in Orders |-> 0]
  /\ payStatus = [o \in Orders |-> "PENDING"]
  /\ cancelled = {}
  /\ slot = [o \in Orders |-> NoIntent]
  /\ lock = {}
  /\ reconciling = FALSE
  /\ gateway = [i \in Intents |-> "none"]
  /\ pc = [p \in Processes |-> "idle"]
  /\ job = [p \in Processes |-> NoJob]
  /\ todo = [p \in Processes |-> {}]
  /\ events = 0

Start(p) ==
  \E i \in Intents :
    Initiate(p, i) \/ \E first \in {"execute", "query"} : Notify(p, i, first)

Step(p) ==
  \/ TakeSlot(p) \/ ReadHolder(p) \/ ReadExisting(p) \/ DropSlot(p)
  \/ ReadHolderAgain(p) \/ CreateAtGateway(p) \/ InsertIntent(p) \/ UndoSlot(p)
  \/ Execute(p) \/ Query(p) \/ FailStatus(p) \/ FailSlot(p) \/ Mismatch(p)
  \/ AcquireFinalizeLock(p) \/ ReadFresh(p) \/ ReadAlready(p)
  \/ CheckPayment(p) \/ VerifySum(p) \/ CommitPayment(p)
  \/ Review(p) \/ Complete(p) \/ ReleaseSlot(p) \/ Unlock(p)
  \/ ListStale(p) \/ EndRun(p) \/ \E i \in Intents : Reconcile(p, i)

Environment ==
  \/ ReconcileLockExpires
  \/ \E o \in Orders : SlotExpires(o) \/ CancelOrder(o)
                       \/ \E a \in 1..Total[o] : CounterPayment(o, a)
  \/ \E i \in Intents : LockExpires(i) \/ Customer(i) \/ WrongOrder(i)

Next ==
  \/ \E p \in Processes : \/ Start(p) \/ Step(p) \/ Throw(p) \/ Crash(p)
                          \/ AcquireReconcileLock(p)
  \/ Environment

Spec == Init /\ [][Next]_vars

(* A live process takes its next command, a Redis key expires, and the     *)
(* timer of a server fires again and again.                                *)
FairSpec ==
  /\ Spec
  /\ \A p \in Processes : WF_vars(Step(p))
  /\ \A r \in Reconcilers : WF_vars(AcquireReconcileLock(r))
  /\ WF_vars(ReconcileLockExpires)
  /\ \A i \in Intents : WF_vars(LockExpires(i))

-----------------------------------------------------------------------------
(* Properties.                                                             *)

TypeOK ==
  /\ status \in [Intents -> Status]
  /\ rows \in [Intents -> Nat]
  /\ foreign \subseteq Intents
  /\ paid \in [Orders -> Nat]
  /\ payStatus \in [Orders -> PayStatus]
  /\ cancelled \subseteq Orders
  /\ slot \in [Orders -> Intents \union {NoIntent}]
  /\ lock \subseteq Intents
  /\ reconciling \in BOOLEAN
  /\ gateway \in [Intents -> Gateway]
  /\ pc \in [Processes -> Label]
  /\ job \in [Processes -> Job]
  /\ todo \in [Processes -> SUBSET Intents]
  /\ events \in Nat
  /\ \A p \in Processes : pc[p] \notin {"idle", "list", "next"} => Intent(p) \in Intents

(* However many callbacks, webhooks and reconciliations verify an attempt, *)
(* one Payment row is made for it (rule 5 of online-payment.service.ts).   *)
RecordedOnce == \A i \in Intents : rows[i] <= 1

(* A Payment row means the provider took the money and that its record     *)
(* agrees with the attempt (rules 2 and 3).                                *)
RecordedIsCaptured ==
  \A i \in Intents : rows[i] > 0 => gateway[i] = "captured" /\ i \notin Mismatched

(* An attempt reported as completed is in the ledger of its order, and one *)
(* left to a person is one whose money was taken.                          *)
VerdictIsBacked ==
  \A i \in Intents : /\ status[i] = "COMPLETED" => rows[i] > 0
                     /\ status[i] = "NEEDS_REVIEW" => gateway[i] = "captured"

(* No process changes a completed attempt or one left to a person, however *)
(* old the status it has read (the compare-and-set of setStatus).          *)
VerdictIsFinal ==
  [][\A i \in Intents : status[i] \in {"COMPLETED", "NEEDS_REVIEW"}
                          => status'[i] = status[i]]_vars

(* The service gives the promises of PaymentSettlement: INITIATED and      *)
(* FAILED are both open verdicts there.                                    *)
Verdict(s) == IF s = "COMPLETED" THEN "completed"
              ELSE IF s = "NEEDS_REVIEW" THEN "review" ELSE "open"

Settlement == INSTANCE PaymentSettlement WITH
  money <- {i \in Intents : gateway[i] = "captured"},
  recorded <- rows,
  verdict <- [i \in Intents |-> Verdict(status[i])]
ImplementsSettlement == Settlement!Spec

(* Money the provider took is recorded or left to a person in the end,     *)
(* whatever crashes: reconciliation finds the attempt.                     *)
CapturedIsSettled ==
  \A i \in Intents :
    gateway[i] = "captured" ~> rows[i] > 0 \/ status[i] = "NEEDS_REVIEW"
=============================================================================
