------------------------------ MODULE RateLimit ------------------------------
(***************************************************************************)
(* RateLimitGuard of rate-limit.guard.ts for one rule and one identity: a  *)
(* fixed window in Redis.  A request is counted and the TTL of the key     *)
(* read in one MULTI; a key without TTL is given one in a second command.  *)
(* When Redis fails the request passes; its process may die between the    *)
(* two commands.                                                           *)
(*                                                                         *)
(* A window is one life of the key.  History variables: passed and refused *)
(* of the current window, and window, its number.                          *)
(***************************************************************************)
EXTENDS Naturals, FiniteSets

CONSTANTS
    Requests,       \* the requests under way at one time
    Limit,          \* rule.limit
    MaxCount,       \* bound: requests counted in a window
    MaxWindows      \* bound: windows

ASSUME RateAssumption ==
    /\ Limit \in Nat /\ MaxCount \in Nat /\ MaxWindows \in Nat
    /\ IsFiniteSet(Requests)

VARIABLES
    rateKey,        \* the key: its count, 0 when it does not exist, and whether it expires
    rateCall,       \* per request: the command it executes next, what it was counted as
    window,         \* how many times the key has expired
    passed,         \* requests counted in this window that passed with their count
    refused         \* a request counted in this window was refused

rateVars == << rateKey, rateCall, window, passed, refused >>

RateCall == [at : {"idle", "expire", "decide"}, count : Nat, window : Nat]
NotCounted == [at |-> "idle", count |-> 0, window |-> 0]

RateInit ==
    /\ rateKey = [count |-> 0, expires |-> FALSE]
    /\ rateCall = [r \in Requests |-> NotCounted]
    /\ window = 0
    /\ passed = 0
    /\ refused = FALSE

RateDone(r) == rateCall' = [rateCall EXCEPT ![r] = NotCounted]

(* Whether the request starts the window.  The faulty form leaves that to the
   request that created the key. *)
NeedsWindowFirst(count, expires) == count = 1
NeedsWindow(count, expires) == ~expires

(* incr and ttl. *)
CountRequest(r) ==
    LET count == rateKey.count + 1
    IN  /\ rateCall[r].at = "idle"
        /\ count <= MaxCount
        /\ rateKey' = [rateKey EXCEPT !.count = count]
        /\ rateCall' = [rateCall EXCEPT ![r] =
              [at |-> IF NeedsWindow(count, rateKey.expires) THEN "expire" ELSE "decide",
               count |-> count, window |-> window]]
        /\ UNCHANGED << window, passed, refused >>

(* expire, which leaves an absent key absent. *)
StartWindow(r) ==
    /\ rateCall[r].at = "expire"
    /\ rateKey' = [rateKey EXCEPT !.expires = rateKey.count > 0]
    /\ rateCall' = [rateCall EXCEPT ![r].at = "decide"]
    /\ UNCHANGED << window, passed, refused >>

(* The request is refused, or goes on to the next rule. *)
Decide(r) ==
    LET current == rateCall[r].window = window
        over == rateCall[r].count > Limit
    IN  /\ rateCall[r].at = "decide"
        /\ refused' = (refused \/ (current /\ over))
        /\ passed' = IF current /\ ~over THEN passed + 1 ELSE passed
        /\ RateDone(r)
        /\ UNCHANGED << rateKey, window >>

(* Redis fails at the second command, and the request passes uncounted; or its
   process dies. *)
RequestSkipped(r) ==
    /\ rateCall[r].at # "idle"
    /\ RateDone(r)
    /\ UNCHANGED << rateKey, window, passed, refused >>

WindowEnds ==
    /\ rateKey.expires
    /\ window < MaxWindows
    /\ rateKey' = [count |-> 0, expires |-> FALSE]
    /\ window' = window + 1
    /\ passed' = 0
    /\ refused' = FALSE
    /\ UNCHANGED rateCall

RateNext ==
    \/ \E r \in Requests : CountRequest(r) \/ StartWindow(r) \/ Decide(r) \/ RequestSkipped(r)
    \/ WindowEnds

RateSpec == RateInit /\ [][RateNext]_rateVars

-----------------------------------------------------------------------------
(* Properties.                                                             *)

RateTypeOK ==
    /\ rateKey \in [count : Nat, expires : BOOLEAN]
    /\ rateCall \in [Requests -> RateCall]
    /\ window \in Nat
    /\ passed \in Nat
    /\ refused \in BOOLEAN

(* Nobody is refused for good: a window in which a request was refused has a
   TTL, although processes die between the count and its expire
   (rate-limit.guard.ts:66-71); and no more than Limit of the requests counted
   in it have passed by their count. *)
RefusalEnds ==
    /\ refused => rateKey.expires
    /\ passed <= Limit

=============================================================================
