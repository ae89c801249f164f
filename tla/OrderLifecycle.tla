--------------------------- MODULE OrderLifecycle ---------------------------
(***************************************************************************)
(* What the order service promises: every operation on an order is one     *)
(* atomic step on its row and its ledger, whatever other calls are being   *)
(* served.  OrderService, which interleaves the statements of the handlers,*)
(* implements this specification.                                          *)
(***************************************************************************)
EXTENDS Integers

CONSTANTS OrderIds, Carts, Method, Total, Shipping, Amounts, NoCart

VARIABLES status, paymentStatus, source, paid, refunded

vars == <<status, paymentStatus, source, paid, refunded>>

Init ==
  /\ status = [o \in OrderIds |-> "NONE"]
  /\ paymentStatus = [o \in OrderIds |-> "PENDING"]
  /\ source = [o \in OrderIds |-> NoCart]
  /\ paid = [o \in OrderIds |-> 0]
  /\ refunded = [o \in OrderIds |-> 0]

COD(o) == Method[source[o]] = "COD"
Due(o) == Total[source[o]]

(* A cart becomes an order once; numbers are given without a gap.          *)
Place(o, c) ==
  /\ status[o] = "NONE"
  /\ \A m \in OrderIds : m < o <=> status[m] # "NONE"
  /\ \A m \in OrderIds : source[m] # c
  /\ status' = [status EXCEPT ![o] = "PENDING"]
  /\ source' = [source EXCEPT ![o] = c]
  /\ UNCHANGED <<paymentStatus, paid, refunded>>

(* A payment goes to an order that is not paid yet, and marks it PAID only *)
(* when its whole total is covered.  Its status does not matter: a payment *)
(* that is being recorded is not stopped by a cancellation or a return.    *)
Pay(o, a) ==
  /\ status[o] # "NONE"
  /\ paymentStatus[o] = "PENDING"
  /\ paid' = [paid EXCEPT ![o] = paid[o] + a]
  /\ \/ UNCHANGED paymentStatus
     \/ /\ paid[o] + a >= Due(o)
        /\ paymentStatus' = [paymentStatus EXCEPT ![o] = "PAID"]
  /\ UNCHANGED <<status, source, refunded>>

Move(o, from, to) ==
  /\ status[o] \in from
  /\ status' = [status EXCEPT ![o] = to]
  /\ UNCHANGED source

Confirm(o) ==
  /\ Move(o, {"PENDING"}, "CONFIRMED")
  /\ COD(o) => paid[o] >= Shipping[source[o]]
  /\ UNCHANGED <<paymentStatus, paid, refunded>>

Advance(o) ==
  /\ \/ Move(o, {"CONFIRMED"}, "PROCESSING")
     \/ Move(o, {"PROCESSING"}, "SHIPPED")
     \/ Move(o, {"PENDING", "CONFIRMED", "PROCESSING"}, "CANCELLED")
  /\ UNCHANGED <<paymentStatus, paid, refunded>>

(* Delivery collects what a cash-on-delivery order still owes.             *)
Deliver(o) ==
  /\ Move(o, {"SHIPPED"}, "DELIVERED")
  /\ IF COD(o) /\ paymentStatus[o] # "PAID"
     THEN /\ paid' = [paid EXCEPT ![o] = IF @ >= Due(o) THEN @ ELSE Due(o)]
          /\ paymentStatus' = [paymentStatus EXCEPT ![o] = "PAID"]
     ELSE UNCHANGED <<paid, paymentStatus>>
  /\ UNCHANGED refunded

(* A return refunds all that was paid; an order paid online may be taken   *)
(* back without a refund, when its payment arrives during the return.      *)
Return(o) ==
  /\ Move(o, {"DELIVERED"}, "RETURNED")
  /\ \/ /\ paymentStatus[o] = "PAID"
        /\ paymentStatus' = [paymentStatus EXCEPT ![o] = "REFUNDED"]
        /\ refunded' = [refunded EXCEPT ![o] = paid[o]]
     \/ ~COD(o) /\ UNCHANGED <<paymentStatus, refunded>>
  /\ UNCHANGED paid

Next ==
  \E o \in OrderIds :
    \/ \E c \in Carts : Place(o, c)
    \/ \E a \in Amounts : Pay(o, a)
    \/ Confirm(o) \/ Advance(o) \/ Deliver(o) \/ Return(o)

Spec == Init /\ [][Next]_vars
=============================================================================
