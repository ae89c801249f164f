---------------------------- MODULE CashierAccess ----------------------------
(***************************************************************************)
(* Who may work on whose orders and carts: the phone sessions of a cashier *)
(* (cashier-assignment.service.ts), the access rules of orders, carts and  *)
(* invoices, and the order actions the assistant proposes and the user     *)
(* confirms (ai-agent-tools.ts).  One action per statement; nothing is a   *)
(* transaction, and a call may die between two statements.                 *)
(*                                                                         *)
(* Role "ADMIN" stands for SUPER_ADMIN, ADMIN and MANAGER, which every     *)
(* rule names together.  Roles do not change here (RbacCache has that).    *)
(* Everyone belongs to one organization.                                   *)
(*                                                                         *)
(* History variables: sessionEnded (per user: a call of end returned, and  *)
(* no start began since or overlapped it), oneSession (the last start that *)
(* completed overlapped no other), runs, and alone and barred of a call.   *)
(***************************************************************************)
EXTENDS Naturals, FiniteSets

CONSTANTS
    Staff,          \* users
    Customers,      \* ids of Customer rows
    Assignments,    \* ids of CashierAssignment rows, numbers given out in order
    PendingIds,     \* ids of pending actions, not used again
    DeskCalls,      \* the calls under way at one time
    NoOne,          \* null: no customer (a guest's order), no user
    NoId            \* null: no row, no action

ASSUME AccessAssumption ==
    /\ NoOne \notin Staff \cup Customers
    /\ NoId \notin Assignments \cup PendingIds
    /\ Assignments \subseteq Nat

VARIABLES
    roles,          \* per user: the roles
    ownCustomer,    \* per user: the Customer row with this userId
    assignment,     \* per id: the CashierAssignment row
    pendingAction,  \* per id: the pending action in Redis
    drawn,          \* the ids of pending actions that were given out
    deskCall,       \* per call: the statement it executes next, what it has read
    sessionEnded, oneSession, runs

deskVars == << roles, ownCustomer, assignment, pendingAction, drawn, deskCall,
               sessionEnded, oneSession, runs >>

Roles == {"ADMIN", "CASHIER", "CUSTOMER"}
AssignmentRow == [cashier : Staff \cup {NoOne}, customer : Customers \cup {NoOne}, isActive : BOOLEAN]
NoAssignment == [cashier |-> NoOne, customer |-> NoOne, isActive |-> FALSE]
PendingRow == [user : Staff \cup {NoOne}, customer : Customers \cup {NoOne}]
NoPending == [user |-> NoOne, customer |-> NoOne]

DeskStages == {"idle", "startFind", "endFind", "startEnding", "endEnding", "startCreate",
               "propose", "access", "run"}
DeskCall == [at : DeskStages, user : Staff \cup {NoOne}, customer : Customers \cup {NoOne},
             ending : SUBSET Assignments, pending : PendingIds \cup {NoId},
             alone : BOOLEAN, barred : BOOLEAN]
NoDeskCall == [at |-> "idle", user |-> NoOne, customer |-> NoOne, ending |-> {}, pending |-> NoId,
               alone |-> TRUE, barred |-> FALSE]

DeskInit ==
    /\ roles \in [Staff -> SUBSET Roles]
    /\ ownCustomer \in [Staff -> Customers \cup {NoOne}]
    /\ \A u, w \in Staff : ownCustomer[u] = ownCustomer[w] => u = w \/ ownCustomer[u] = NoOne
    /\ assignment = [a \in Assignments |-> NoAssignment]
    /\ pendingAction = [p \in PendingIds |-> NoPending]
    /\ drawn = {}
    /\ deskCall = [c \in DeskCalls |-> NoDeskCall]
    /\ sessionEnded = [u \in Staff |-> FALSE]
    /\ oneSession = [u \in Staff |-> TRUE]
    /\ runs = [p \in PendingIds |-> 0]

-----------------------------------------------------------------------------
(* The access rules.  A customer NoOne is a guest's order or cart.         *)

ActiveOf(u) == {a \in Assignments : assignment[a].cashier = u /\ assignment[a].isActive}

IsStaff(u) == roles[u] \cap {"ADMIN", "CASHIER"} # {}

canAccessCustomer(u, k) ==
    \/ "ADMIN" \in roles[u]
    \/ /\ "CASHIER" \in roles[u]
       /\ \E a \in ActiveOf(u) : assignment[a].customer = k
    \/ /\ roles[u] = {"CUSTOMER"}
       /\ ownCustomer[u] = k

canAccessOrder(u, k) == IF k = NoOne THEN IsStaff(u) ELSE canAccessCustomer(u, k)

canAccessInvoice(u, k) ==
    \/ IsStaff(u)
    \/ k # NoOne /\ "CUSTOMER" \in roles[u] /\ ownCustomer[u] = k

(* The customers whose orders a list shows.  The faulty form shows those of
   every session the cashier ever had. *)
getAccessibleCustomerIdsEver(u) ==
    IF "ADMIN" \in roles[u] THEN Customers
    ELSE IF "CASHIER" \in roles[u]
         THEN {assignment[a].customer : a \in {b \in Assignments : assignment[b].cashier = u}}
         ELSE IF "CUSTOMER" \in roles[u] THEN {ownCustomer[u]} \ {NoOne} ELSE {}
getAccessibleCustomerIds(u) ==
    IF "ADMIN" \in roles[u] THEN Customers
    ELSE IF "CASHIER" \in roles[u] THEN {assignment[a].customer : a \in ActiveOf(u)}
         ELSE IF "CUSTOMER" \in roles[u] THEN {ownCustomer[u]} \ {NoOne} ELSE {}

-----------------------------------------------------------------------------
(* Sessions.                                                               *)

Starting(u) == {c \in DeskCalls : /\ deskCall[c].user = u
                                  /\ deskCall[c].at \in {"startFind", "startEnding", "startCreate"}}
DeskGoto(c, stage) == deskCall' = [deskCall EXCEPT ![c].at = stage]
DeskDone(c) == deskCall' = [deskCall EXCEPT ![c] = NoDeskCall]

(* startAssignment, after the customer was found: no call of this user runs
   alone from here, none is barred. *)
Start(c) ==
    \E u \in Staff, k \in Customers :
        /\ deskCall[c].at = "idle"
        /\ deskCall' = [d \in DeskCalls |->
              IF d = c THEN [NoDeskCall EXCEPT !.at = "startFind", !.user = u, !.customer = k,
                                               !.alone = Starting(u) = {}]
              ELSE IF deskCall[d].user = u
                   THEN [deskCall[d] EXCEPT !.alone = FALSE, !.barred = FALSE]
                   ELSE deskCall[d]]
        /\ sessionEnded' = [sessionEnded EXCEPT ![u] = FALSE]
        /\ oneSession' = [oneSession EXCEPT ![u] = @ /\ Starting(u) = {}]
        /\ UNCHANGED << roles, ownCustomer, assignment, pendingAction, drawn, runs >>

(* The handler of end. *)
End(c) ==
    \E u \in Staff :
        /\ deskCall[c].at = "idle"
        /\ deskCall' = [deskCall EXCEPT ![c] =
              [NoDeskCall EXCEPT !.at = "endFind", !.user = u, !.alone = Starting(u) = {}]]
        /\ UNCHANGED << roles, ownCustomer, assignment, pendingAction, drawn, sessionEnded,
                        oneSession, runs >>

(* endActiveAssignments reads all the active ones.  The faulty form reads one. *)
ToEndOne(u) == {S \in SUBSET ActiveOf(u) : Cardinality(S) <= 1 /\ (S = {} => ActiveOf(u) = {})}
ToEnd(u) == {ActiveOf(u)}

EndFind(c) ==
    \E found \in ToEnd(deskCall[c].user) :
        /\ deskCall[c].at \in {"startFind", "endFind"}
        /\ deskCall' = [deskCall EXCEPT
              ![c].at = IF deskCall[c].at = "startFind" THEN "startEnding" ELSE "endEnding",
              ![c].ending = found]
        /\ UNCHANGED << roles, ownCustomer, assignment, pendingAction, drawn, sessionEnded,
                        oneSession, runs >>

(* One update after the other. *)
EndOne(c) ==
    \E a \in deskCall[c].ending :
        /\ deskCall[c].at \in {"startEnding", "endEnding"}
        /\ assignment' = [assignment EXCEPT ![a].isActive = FALSE]
        /\ deskCall' = [deskCall EXCEPT ![c].ending = @ \ {a}]
        /\ UNCHANGED << roles, ownCustomer, pendingAction, drawn, sessionEnded, oneSession, runs >>

EndReturns(c) ==
    LET u == deskCall[c].user
    IN  /\ deskCall[c].at = "endEnding"
        /\ deskCall[c].ending = {}
        /\ sessionEnded' = [sessionEnded EXCEPT ![u] = @ \/ deskCall[c].alone]
        /\ DeskDone(c)
        /\ UNCHANGED << roles, ownCustomer, assignment, pendingAction, drawn, oneSession, runs >>

StartCreate(c) ==
    LET u == deskCall[c].user
        unused == {a \in Assignments : assignment[a] = NoAssignment}
    IN  /\ deskCall[c].at = "startEnding"
        /\ deskCall[c].ending = {}
        /\ \E a \in unused :
             /\ \A b \in unused : a <= b
             /\ assignment' = [assignment EXCEPT ![a] =
                   [cashier |-> u, customer |-> deskCall[c].customer, isActive |-> TRUE]]
        /\ oneSession' = [oneSession EXCEPT ![u] = @ \/ deskCall[c].alone]
        /\ DeskDone(c)
        /\ UNCHANGED << roles, ownCustomer, pendingAction, drawn, sessionEnded, runs >>

-----------------------------------------------------------------------------
(* Order actions of the assistant.                                         *)

(* update_order_status: an order the user can access. *)
Propose(c) ==
    \E u \in Staff, k \in Customers \cup {NoOne} :
        /\ deskCall[c].at = "idle"
        /\ canAccessOrder(u, k)
        /\ deskCall' = [deskCall EXCEPT ![c] =
              [NoDeskCall EXCEPT !.at = "propose", !.user = u, !.customer = k]]
        /\ UNCHANGED << roles, ownCustomer, assignment, pendingAction, drawn, sessionEnded,
                        oneSession, runs >>

(* The pending action is stored under a fresh id; nothing of the order changes. *)
ProposeStore(c) ==
    \E p \in PendingIds \ drawn :
        /\ deskCall[c].at = "propose"
        /\ pendingAction' = [pendingAction EXCEPT ![p] =
              [user |-> deskCall[c].user, customer |-> deskCall[c].customer]]
        /\ drawn' = drawn \cup {p}
        /\ DeskDone(c)
        /\ UNCHANGED << roles, ownCustomer, assignment, sessionEnded, oneSession, runs >>

(* confirmPendingOrderAction takes the action out of Redis: get and del are one
   MULTI.  The faulty form reads it only. *)
TakenOutNever(p) == pendingAction
TakenOut(p) == [pendingAction EXCEPT ![p] = NoPending]

Confirm(c) ==
    \E p \in PendingIds :
        /\ deskCall[c].at = "idle"
        /\ pendingAction[p] # NoPending
        /\ LET u == pendingAction[p].user
           IN  deskCall' = [deskCall EXCEPT ![c] =
                  [NoDeskCall EXCEPT !.at = "access", !.user = u, !.pending = p,
                                     !.customer = pendingAction[p].customer,
                                     !.barred = sessionEnded[u]]]
        /\ pendingAction' = TakenOut(p)
        /\ UNCHANGED << roles, ownCustomer, assignment, drawn, sessionEnded, oneSession, runs >>

(* The access is checked again before the action.  The faulty form trusts the
   check that was made when the action was proposed. *)
AllowsNowAlways(c) == TRUE
AllowsNow(c) == canAccessOrder(deskCall[c].user, deskCall[c].customer)

ConfirmAccess(c) ==
    /\ deskCall[c].at = "access"
    /\ IF AllowsNow(c) THEN DeskGoto(c, "run") ELSE DeskDone(c)
    /\ UNCHANGED << roles, ownCustomer, assignment, pendingAction, drawn, sessionEnded,
                    oneSession, runs >>

(* runOrderAction: the operation of OrderService, which may refuse. *)
ConfirmRun(c) ==
    /\ deskCall[c].at = "run"
    /\ runs' = [runs EXCEPT ![deskCall[c].pending] = @ + 1]
    /\ DeskDone(c)
    /\ UNCHANGED << roles, ownCustomer, assignment, pendingAction, drawn, sessionEnded, oneSession >>

(* The TTL of a pending action passes. *)
PendingExpires ==
    \E p \in PendingIds :
        /\ pendingAction[p] # NoPending
        /\ pendingAction' = [pendingAction EXCEPT ![p] = NoPending]
        /\ UNCHANGED << roles, ownCustomer, assignment, drawn, deskCall, sessionEnded, oneSession,
                        runs >>

DeskCallFails(c) ==
    /\ deskCall[c].at # "idle"
    /\ DeskDone(c)
    /\ UNCHANGED << roles, ownCustomer, assignment, pendingAction, drawn, sessionEnded,
                    oneSession, runs >>

DeskNext ==
    \/ \E c \in DeskCalls :
         \/ Start(c) \/ End(c) \/ EndFind(c) \/ EndOne(c) \/ EndReturns(c) \/ StartCreate(c)
         \/ Propose(c) \/ ProposeStore(c) \/ Confirm(c) \/ ConfirmAccess(c) \/ ConfirmRun(c)
         \/ DeskCallFails(c)
    \/ PendingExpires

DeskSpec == DeskInit /\ [][DeskNext]_deskVars

-----------------------------------------------------------------------------
(* Properties.                                                             *)

DeskTypeOK ==
    /\ roles \in [Staff -> SUBSET Roles]
    /\ ownCustomer \in [Staff -> Customers \cup {NoOne}]
    /\ assignment \in [Assignments -> AssignmentRow]
    /\ pendingAction \in [PendingIds -> PendingRow]
    /\ drawn \subseteq PendingIds
    /\ deskCall \in [DeskCalls -> DeskCall]
    /\ sessionEnded \in [Staff -> BOOLEAN]
    /\ oneSession \in [Staff -> BOOLEAN]
    /\ runs \in [PendingIds -> Nat]

(* A list shows the orders of exactly the customers whose orders the user can
   open, and whoever can open an order can open its invoice: three rules
   written apart (order-access.service.ts:32 and 86, invoice-access.service.ts:26). *)
AccessAgrees ==
    \A u \in Staff :
        /\ \A k \in Customers : canAccessOrder(u, k) <=> k \in getAccessibleCustomerIds(u)
        /\ \A k \in Customers \cup {NoOne} : canAccessOrder(u, k) => canAccessInvoice(u, k)

(* After a start that overlapped no other start of the cashier there is at most
   one active session, however many earlier overlapping starts left and
   whichever calls died (cashier-assignment.service.ts:34). *)
OneSession ==
    \A u \in Staff : oneSession[u] => Cardinality(ActiveOf(u)) <= 1

(* Once a cashier has ended the session, nothing runs on a customer's order by a
   confirmation that comes after, although the action was proposed during the
   session (ai-agent-tools.ts:315). *)
EndedSessionActsNoMore ==
    \A c \in DeskCalls :
        deskCall[c].at = "run" /\ deskCall[c].barred =>
            \/ deskCall[c].customer = NoOne
            \/ "ADMIN" \in roles[deskCall[c].user]
            \/ roles[deskCall[c].user] = {"CUSTOMER"}

(* A proposed action is run at most once, confirmed twice or not
   (ai-agent-tools.ts:294). *)
ActionRunsOnce ==
    \A p \in PendingIds : runs[p] <= 1

=============================================================================
