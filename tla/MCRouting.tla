------------------------------ MODULE MCRouting ------------------------------
(* Instances of Routing for TLC. *)
EXTENDS Routing

MCExchange == {"cow", "dex", "amm"}

MCBatch == {"cow"}

MCDepth == {0, 2, 5, 11}

(* A multiplier may be negative.                                           *)
MCBudget == {-4, 4, 13, 40}

Neutral == [x \in MCExchange |-> 100]

(* A half and a threefold, and a venue that is switched off.               *)
Biased == [Neutral EXCEPT !["cow"] = 50, !["amm"] = 300]

SwitchedOff == [Neutral EXCEPT !["dex"] = 0]

(* Nothing forbids it.                                                     *)
Negative == [Neutral EXCEPT !["cow"] = -50]

MCOverrides == {Neutral, Biased, SwitchedOff, Negative}
=============================================================================
