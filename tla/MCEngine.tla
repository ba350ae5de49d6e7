------------------------------- MODULE MCEngine -------------------------------
(* Instances of Engine for TLC. *)
EXTENDS Engine

OnlyCow == {"cow"}

OnlyCowListed == [x \in OnlyCow |-> 1]

CowAndMock == {"cow", "mock"}

CowAndMockListed == [x \in CowAndMock |-> IF x = "cow" THEN 1 ELSE 2]

Live == [dryRun |-> FALSE, store |-> TRUE, continuous |-> TRUE]

Dry == [Live EXCEPT !.dryRun = TRUE]

Forgetful == [Live EXCEPT !.store = FALSE]

Single == [Live EXCEPT !.continuous = FALSE]

AllWays == {Live, Dry, Forgetful, Single}

OnlyLive == {Live}

OnlyDry == {Dry}

AllScenarios ==
    {{"save", "crash", "restart"}, {"interrupt", "restart"}, {"crash", "interrupt"},
     {"empty", "interrupt"}, {"plan"}}

OnlyEmpty == {{"empty"}}

NoFaults == {{}}
=============================================================================
