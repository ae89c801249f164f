------------------------- MODULE PaymentSettlement -------------------------
(***************************************************************************)
(* What apps/api/src/payment-gateway promises about the money of an online *)
(* payment, whoever learns of it and in whatever order: a payment enters   *)
(* the order's ledger once, only after the provider took the money and     *)
(* only when the provider's record agrees with ours, and the verdict on it *)
(* is given once.                                                          *)
(***************************************************************************)
EXTENDS Integers

CONSTANTS
  Intents,     \* the payment attempts
  Mismatched   \* those whose provider record disagrees with ours

VARIABLES
  money,       \* the attempts whose money the provider has taken
  recorded,    \* recorded[i]: the Payment rows made for attempt i
  verdict      \* verdict[i]: open, completed, or review by a person

settlement == <<money, recorded, verdict>>

Init ==
  /\ money = {}
  /\ recorded = [i \in Intents |-> 0]
  /\ verdict = [i \in Intents |-> "open"]

Capture(i) ==
  /\ i \notin money
  /\ money' = money \union {i}
  /\ UNCHANGED <<recorded, verdict>>

Record(i) ==
  /\ i \in money \ Mismatched
  /\ recorded[i] = 0
  /\ recorded' = [recorded EXCEPT ![i] = 1]
  /\ UNCHANGED <<money, verdict>>

Complete(i) ==
  /\ recorded[i] = 1
  /\ verdict[i] = "open"
  /\ verdict' = [verdict EXCEPT ![i] = "completed"]
  /\ UNCHANGED <<money, recorded>>

(* Money that was taken but not, or not yet, recorded is left to a person. *)
Review(i) ==
  /\ i \in money
  /\ verdict[i] = "open"
  /\ verdict' = [verdict EXCEPT ![i] = "review"]
  /\ UNCHANGED <<money, recorded>>

Next == \E i \in Intents : Capture(i) \/ Record(i) \/ Complete(i) \/ Review(i)

Spec == Init /\ [][Next]_settlement
=============================================================================
