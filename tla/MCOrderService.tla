-------------------------- MODULE MCOrderService --------------------------
(* OrderService with two orders. SharedItem gives them an item in common,    *)
(* which the second one to be stored loses to ON CONFLICT DO NOTHING.        *)
EXTENDS OrderService, TLC

CONSTANTS o1, o2, c1, c2,
          v1, v2,     \* versions that fit every column
          long        \* a version whose delivery does not fit

DisjointItems == [u \in {o1, o2} |-> IF u = o1 THEN <<c1>> ELSE <<c2>>]
SharedItem == [u \in {o1, o2} |-> IF u = o1 THEN <<c1, c2>> ELSE <<c2>>]

LongDelivery == [v \in Version |-> IF v = long THEN {"deliveries"} ELSE {}]

Symmetry == Permutations({v1, v2})
===========================================================================
