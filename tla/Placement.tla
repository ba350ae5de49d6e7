------------------------------ MODULE Placement ------------------------------
(***************************************************************************)
(* What one call of Router.Execute promises the engine, and nothing of how *)
(* it does it.  The call is given a set of orders.  The venues may come to *)
(* hold an order at any time, also after the call has returned; the call   *)
(* records a fill only for an order that a venue holds; and it returns     *)
(* once, with "ok" exactly when every order has its fill.                  *)
(*                                                                         *)
(* Execute.tla shows that the goroutines of the router implement this;     *)
(* Engine.tla is built on it.                                              *)
(***************************************************************************)

VARIABLES
    orders,     \* the orders given to the call
    placed,     \* the orders a venue holds
    filled,     \* the orders with a fill in the slice the call returns
    result      \* "none" while the call runs, then "ok" or "error"

vars == <<orders, placed, filled, result>>

TypeOK ==
    /\ placed \subseteq orders
    /\ filled \subseteq orders
    /\ result \in {"none", "ok", "error"}

Begin ==
    /\ placed = {}
    /\ filled = {}
    /\ result = "none"

(* A venue takes order o.  A request that is still on the wire when the    *)
(* call gives up on it is taken later, so the result does not matter.      *)
Accept(o) ==
    /\ o \in orders \ placed
    /\ placed' = placed \cup {o}
    /\ UNCHANGED <<orders, filled, result>>

(* The call appends the fill of an order that a venue holds.               *)
Record(o) ==
    /\ result = "none"
    /\ o \in placed \ filled
    /\ filled' = filled \cup {o}
    /\ UNCHANGED <<orders, placed, result>>

Return ==
    /\ result = "none"
    /\ result' = IF filled = orders THEN "ok" ELSE "error"
    /\ UNCHANGED <<orders, placed, filled>>

Next == Return \/ \E o \in orders : Accept(o) \/ Record(o)

Safety == Begin /\ [][Next]_vars

Spec == Safety /\ WF_vars(Return)
=============================================================================
