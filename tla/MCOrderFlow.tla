---------------------------- MODULE MCOrderFlow ----------------------------
(* Instances of OrderFlow for TLC. *)
EXTENDS OrderFlow

\* All attempts belong to one order.
OneOrder == [p \in Payments |-> CHOOSE o \in Orders : TRUE]

\* Every order has an attempt, one may have several.
TwoOrders == CHOOSE f \in Surjection(Payments, Orders) : TRUE

=============================================================================
