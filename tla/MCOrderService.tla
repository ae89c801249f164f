--------------------------- MODULE MCOrderService ---------------------------
(* Small instances of OrderService for TLC: one or two carts, checked out   *)
(* and settled by two calls at a time.  Totals of 2 and 3 units let a       *)
(* payment fall short of the balance, meet it and exceed it.                *)
EXTENDS OrderService, TLC

CONSTANTS r1, r2, t1, c1, c2, s1, s2, s3, v1, v2

ReqSymmetry == Permutations(Requests)

AllOps == {"create", "pay", "confirm", "process", "ship", "cancel", "deliver", "return"}
Unpaid == AllOps \ {"cancel", "pay"}
CrossingOps == {"create", "cancel"}
CheckoutOps == {"create", "pay", "cancel"}

OneCart == {c1}
TwoCarts == {c1, c2}
UnitLines == [c \in Carts |-> << [variant |-> v1, qty |-> 1] >>]
(* Two lines each, in opposite orders: the requests lock rows crosswise.    *)
CrossLines == [c \in Carts |-> LET a == [variant |-> v1, qty |-> 1]
                                   b == [variant |-> v2, qty |-> 1]
                               IN IF c = c1 THEN <<a, b>> ELSE <<b, a>>]

AllCOD == [c \in Carts |-> "COD"]
AllOnline == [c \in Carts |-> "ONLINE"]
Mixed == [c \in Carts |-> IF c = c1 THEN "COD" ELSE "ONLINE"]
TotalTwo == [c \in Carts |-> 2]
TotalThree == [c \in Carts |-> 3]
ShippingOne == [c \in Carts |-> 1]

OneRow == [s \in {s1} |-> v1]
TwoUnits == [s \in {s1} |-> 2]
(* Variant v1 is kept in two branches, v2 in one.                           *)
ThreeRows == [s \in {s1, s2, s3} |-> IF s = s3 THEN v2 ELSE v1]
EnoughForTwo == [s \in {s1, s2, s3} |-> IF s = s3 THEN 2 ELSE 1]
=============================================================================
