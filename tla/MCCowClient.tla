------------------------------ MODULE MCCowClient ------------------------------
(* Instances of CowClient for TLC. *)
EXTENDS CowClient

TwoOrders == {"first", "second"}

Budgets == {1}

Moments == 0 .. 2
=============================================================================
