----------------------------- MODULE MCPayments -----------------------------
(* Instance of Payments for TLC. *)
EXTENDS Payments

CONSTANT o1

MCOrders == {o1}

=============================================================================
