------------------------------ MODULE MCExecute ------------------------------
(* Instances of Execute for TLC. *)
EXTENDS Execute

MCExchange == {"cow", "mock", "slow", "other"}

MCRemote == {"cow", "other"}

MCSlow == {"slow"}

(* The CoW client answers "pending" whatever the venue did; the mock by    *)
(* its fill rate; "other" stands for a remote exchange that uses all the   *)
(* statuses of the Exchange interface.                                     *)
MCReplies == [x \in MCExchange |->
    CASE x = "cow"   -> {"pending"}
      [] x = "mock"  -> {"partial"}
      [] x = "slow"  -> {"filled", "failed"}
      [] x = "other" -> {"pending", "partial", "filled"}]

OneOfEach == <<"cow", "mock", "slow", "other">>

TwoCow == <<"cow", "cow">>
=============================================================================
