------------------------------ MODULE MCOrders ------------------------------
(* Instances of the order and payment model for TLC. *)
EXTENDS OrderGuarantees, TLC

CONSTANTS o1, o2, p1, p2, a

BothBuyA == [o \in Orders |-> {a}]
OneEach == [p \in Products |-> 1]
AllForO1 == [p \in Payments |-> o1]

\* Handlers run the same code: which worker runs one does not matter.
Symmetry == Permutations(Workers)
=============================================================================
