------------------------------- MODULE Routing -------------------------------
(***************************************************************************)
(* How a cycle turns its budget into sub-orders: Engine.RunCycle caps the  *)
(* budget by a first reading of the depth of all exchanges                 *)
(* (internal/engine/engine.go), Router.Route reads the depth again and     *)
(* weighs the exchanges by it, Router.Execute cuts each allocation into    *)
(* sub-orders (internal/exchange/router.go).                               *)
(*                                                                         *)
(* The two readings are separate requests and the market moves between     *)
(* them; each is any reading at all, 0 being also what an error counts     *)
(* for.  Weights and amounts, floats and decimals in the code, are exact   *)
(* ratios of integers here.                                                *)
(***************************************************************************)
EXTENDS Integers, FiniteSets, Functions

CONSTANTS
    Exchange,       \* the configured exchanges
    Batch,          \* those that support batch auctions
    Overrides,      \* exchange_weight_overrides in percent, 100 for none, any sign
    Depth,          \* the depths a reading can find, among them 0
    Budget,         \* the budgets a cycle can start from: daily times multiplier
    MinSize,        \* min_execution_size
    Count           \* order_split_count

ASSUME RoutingAssumption ==
    /\ IsFiniteSet(Exchange)
    /\ Batch \subseteq Exchange
    /\ \A override \in Overrides : DOMAIN override = Exchange
    /\ \A override \in Overrides, x \in Exchange : override[x] \in Int
    /\ Depth \subseteq Nat /\ 0 \in Depth
    /\ Budget \subseteq Int
    /\ MinSize \in Int
    /\ Count \in Nat \ {0}

VARIABLES
    override,   \* the overrides the router was configured with
    preferBatch, \* prefer_batch_auction
    phase,      \* how far the cycle has come
    pre,        \* preLiquidityBudget
    before,     \* the depths queryTotalDepth has read
    budget,     \* adjustedBudget
    after,      \* the depths Route has read
    score,      \* the score of each allocation, before it is normalised
    split       \* the sub-orders of each allocation

vars == <<override, preferBatch, phase, pre, before, budget, after, score, split>>

Reading == [Exchange -> Depth]

Nowhere == [x \in {} |-> 0]

TypeOK ==
    /\ override \in Overrides /\ preferBatch \in BOOLEAN
    /\ phase \in {"start", "capped", "skipped", "failed", "routed", "split"}
    /\ pre \in Budget
    /\ before \in Reading \cup {Nowhere}
    /\ budget \in Int
    /\ after \in Reading \cup {Nowhere}
    /\ DOMAIN score \subseteq Exchange /\ \A x \in DOMAIN score :
          score[x] \in IF override[x] < 0 THEN Int ELSE Nat
    /\ DOMAIN split \subseteq Exchange /\ \A x \in DOMAIN split : split[x] \in Nat

Init ==
    /\ override \in Overrides /\ preferBatch \in BOOLEAN
    /\ phase = "start"
    /\ pre \in Budget
    /\ before = Nowhere
    /\ budget = 0
    /\ after = Nowhere
    /\ score = Nowhere
    /\ split = Nowhere

Least(a, b) == IF a < b THEN a ELSE b

(* Mutant of Cap: the budget is not adjusted to the depth.                 *)
CapNothing ==
    /\ phase = "start"
    /\ \E reading \in Reading : before' = reading
    /\ budget' = pre
    /\ phase' = "capped"
    /\ UNCHANGED <<override, preferBatch, pre, after, score, split>>

(* The liquidity score, depth over budget up to 1, leaves the smaller one. *)
Cap ==
    /\ phase = "start"
    /\ \E reading \in Reading :
          /\ before' = reading
          /\ budget' = Least(pre, SumFunction(reading))
    /\ phase' = "capped"
    /\ UNCHANGED <<override, preferBatch, pre, after, score, split>>

Skip ==
    /\ phase = "capped"
    /\ budget < MinSize
    /\ phase' = "skipped"
    /\ UNCHANGED <<override, preferBatch, pre, before, budget, after, score, split>>

(* Mutant of Boost: the wrong exchanges are preferred.                     *)
BoostOthers(x) == IF preferBatch /\ x \notin Batch THEN 13 ELSE 10

Boost(x) == IF preferBatch /\ x \in Batch THEN 13 ELSE 10

(* Mutant of ScoreOf: a fee is taken off the depth and may exceed it.      *)
ScoreAfterFee(x, reading) == (reading[x] - 5) * Boost(x) * override[x]

(* depth / total depth * boost * override, up to a factor common to all.   *)
ScoreOf(x, reading) == reading[x] * Boost(x) * override[x]

(* Mutant of Available: the filter looks at the total.                     *)
AllAvailable(reading) == {x \in Exchange : SumFunction(reading) > 0}

Available(reading) == {x \in Exchange : reading[x] > 0}

(* Mutant of Route: the minimum size is not checked.                       *)
RouteAnySize ==
    /\ phase = "capped"
    /\ \E reading \in Reading :
          /\ after' = reading
          /\ score' = [x \in Available(reading) |-> ScoreOf(x, reading)]
          /\ phase' = IF Available(reading) = {} THEN "failed" ELSE "routed"
    /\ UNCHANGED <<override, preferBatch, pre, before, budget, split>>

Route ==
    /\ phase = "capped"
    /\ budget >= MinSize
    /\ \E reading \in Reading :
          /\ after' = reading
          /\ score' = [x \in Available(reading) |-> ScoreOf(x, reading)]
          /\ phase' = IF Available(reading) = {} THEN "failed" ELSE "routed"
    /\ UNCHANGED <<override, preferBatch, pre, before, budget, split>>

TotalScore == SumFunction(score)

(* What weights are fractions of.  A total that is not positive is not     *)
(* normalised and leaves the scores as they are, of 1000 times the depth.  *)
Whole ==
    IF TotalScore > 0 THEN TotalScore
    ELSE 1000 * SumFunctionOnSet(after, DOMAIN score)

(* Mutant of SubOrders: every allocation gets the full count.              *)
SubOrdersEach(x) == Count

(* Mutant of SubOrders: the weight is upside down.                         *)
SubOrdersInverse(x) ==
    IF score[x] <= 0 THEN 1
    ELSE (2 * Count * TotalScore + score[x]) \div (2 * score[x])

(* int(count * weight + 0.5), at least 1.                                  *)
SubOrders(x) ==
    LET rounded == (2 * Count * score[x] + Whole) \div (2 * Whole)
    IN  IF rounded < 1 THEN 1 ELSE rounded

Split ==
    /\ phase = "routed"
    /\ split' = [x \in DOMAIN score |-> SubOrders(x)]
    /\ phase' = "split"
    /\ UNCHANGED <<override, preferBatch, pre, before, budget, after, score>>

Next == Cap \/ Skip \/ Route \/ Split

Spec == Init /\ [][Next]_vars

-----------------------------------------------------------------------------
(* The amount of allocation x is budget * score[x] / Whole: the            *)
(* comparisons below are multiplied out.                                   *)

NeutralOverrides == \A x \in Exchange : override[x] = 100

(* As long as the depth has not fallen since the budget was capped by it,  *)
(* no exchange is given more than the depth Route saw there; one with      *)
(* batch auctions may exceed its own by 30 percent, and by no more, where  *)
(* they are preferred.  Two readings, in two packages, have to agree for   *)
(* this.                                                                   *)
DepthRespected ==
    phase \in {"routed", "split"} /\ NeutralOverrides
        /\ SumFunction(after) >= SumFunction(before) =>
            \A x \in DOMAIN score :
                10 * budget * score[x]
                    <= (IF preferBatch /\ x \in Batch THEN 13 ELSE 10)
                          * after[x] * Whole

(* Route gives up for lack of liquidity only when liquidity the first      *)
(* reading saw has gone: a cycle without any ends as a skipped one, which  *)
(* is recorded, and not as an error, which is not.                         *)
NoLiquidityIsNews ==
    phase = "failed" /\ MinSize > 0 => SumFunction(before) > SumFunction(after)

(* Nobody is sent an order of nothing while every override is positive and *)
(* there is a minimum size, whatever the two readings were.                *)
NoEmptyOrder ==
    phase = "split" /\ MinSize > 0 /\ (\A x \in Exchange : override[x] > 0) =>
        /\ DOMAIN split # {}
        /\ \A x \in DOMAIN split : split[x] > 0 /\ budget * score[x] > 0

(* Rounding each allocation by itself, with a minimum of one, keeps the    *)
(* number of sub-orders near order_split_count: at most one more, at most  *)
(* half an order less, for every allocation, as long as no override is     *)
(* negative and not all of them are 0.                                     *)
SplitNearCount ==
    phase = "split" /\ TotalScore > 0 /\ (\A x \in Exchange : override[x] >= 0) =>
        LET orders == SumFunction(split)
            venues == Cardinality(DOMAIN split)
        IN  orders <= Count + venues /\ 2 * orders >= 2 * Count - venues

(* A deeper exchange never gets less than a shallower one of its kind, in  *)
(* money and in sub-orders.                                                *)
DeeperGetsMore ==
    phase = "split" /\ NeutralOverrides =>
        \A x, y \in DOMAIN split :
            (x \in Batch <=> y \in Batch) /\ after[x] >= after[y] =>
                score[x] >= score[y] /\ split[x] >= split[y]
=============================================================================
