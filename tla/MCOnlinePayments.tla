-------------------------- MODULE MCOnlinePayments --------------------------
(* Small instances of OnlinePayments for TLC.                               *)
EXTENDS OnlinePayments, TLC

CONSTANTS w1, w2, r1, i1, i2, o1, u1, u2

WorkerSymmetry == Permutations(Workers)

OneOrder == [i \in Intents |-> o1]
AmountOne == [i \in Intents |-> 1]
AmountByIntent == [i \in Intents |-> IF i = i1 THEN 1 ELSE 2]
SamePayer == [i \in Intents |-> u1]
TwoPayers == [i \in Intents |-> IF i = i1 THEN u1 ELSE u2]
TotalOne == [o \in Orders |-> 1]
TotalTwo == [o \in Orders |-> 2]
=============================================================================
