----------------------------- MODULE RoutingProofs -----------------------------
(***************************************************************************)
(* Proofs about Routing, for any exchanges, overrides, depths, budgets,    *)
(* minimum size and count: every invariant that is model-checked.          *)
(***************************************************************************)
EXTENDS Routing, FoldTheorems

(* The budget is capped by the first reading.                              *)
Capped ==
    phase # "start" =>
        before \in Reading /\ budget = Least(pre, SumFunction(before))

(* The scores are those of the second reading.                             *)
Scored ==
    phase \in {"failed", "routed", "split"} =>
        /\ budget >= MinSize
        /\ after \in Reading
        /\ score = [x \in Available(after) |-> ScoreOf(x, after)]
        /\ phase = "failed" <=> Available(after) = {}

Divided == phase = "split" => split = [x \in DOMAIN score |-> SubOrders(x)]

IInv == TypeOK /\ Capped /\ Scored /\ Divided

-----------------------------------------------------------------------------
(* Division rounds down.                                                   *)
LEMMA QuotientBounds ==
    ASSUME NEW a \in Int, NEW d \in Nat \ {0}
    PROVE  /\ a \div d \in Int
           /\ (a \div d) * d <= a /\ a < (a \div d) * d + d
  OBVIOUS

(* The larger dividend has the larger quotient.                            *)
LEMMA QuotientMonotone ==
    ASSUME NEW a \in Int, NEW b \in Int, NEW d \in Nat \ {0}, a <= b
    PROVE  a \div d <= b \div d
<1> DEFINE p == a \div d
           q == b \div d
<1>1. p \in Int /\ q \in Int /\ p * d <= a /\ b < q * d + d
  BY QuotientBounds
<1> HIDE DEF p, q
<1>2. p * d < (q + 1) * d
  BY <1>1
<1>3. ASSUME q < p PROVE FALSE
  <2>1. q + 1 <= p
    BY <1>1, <1>3
  <2>2. (q + 1) * d <= p * d
    BY <1>1, <2>1
  <2> QED
    BY <1>1, <1>2, <2>2
<1> QED
  BY <1>1, <1>3 DEF p, q

-----------------------------------------------------------------------------
(* What a reading adds up to.                                              *)
LEMMA ReadingSum ==
    ASSUME RoutingAssumption, NEW reading \in Reading
    PROVE  /\ IsFiniteSet(Exchange) /\ IsFiniteSet(Available(reading))
           /\ Available(reading) \subseteq Exchange
           /\ \A x \in Exchange : reading[x] \in Nat
           /\ SumFunction(reading) = SumFunctionOnSet(reading, Exchange)
           /\ SumFunction(reading) \in Nat
           /\ SumFunctionOnSet(reading, Available(reading)) = SumFunction(reading)
           /\ Available(reading) = {} <=> SumFunction(reading) = 0
<1>1. /\ IsFiniteSet(Exchange) /\ DOMAIN reading = Exchange
      /\ \A x \in Exchange : reading[x] \in Nat
  BY DEF RoutingAssumption, Reading
<1>2. Available(reading) \subseteq Exchange /\ IsFiniteSet(Available(reading))
  BY <1>1, FS_Subset DEF Available
<1>3. SumFunction(reading) = SumFunctionOnSet(reading, Exchange)
  BY <1>1 DEF SumFunction
<1>4. /\ SumFunction(reading) \in Nat
      /\ \A x \in Exchange : reading[x] <= SumFunction(reading)
  BY <1>1, <1>3, SumOfNaturals
<1>5. \A x \in Exchange \ Available(reading) : reading[x] = 0
  BY <1>1 DEF Available
<1>6. SumFunctionOnSet(reading, Available(reading)) = SumFunction(reading)
  BY <1>1, <1>2, <1>3, <1>5, SumOfSupport
<1>7. Available(reading) = {} => SumFunction(reading) = 0
  BY <1>6, SumOfNone
<1>8. Available(reading) # {} => SumFunction(reading) # 0
  BY <1>1, <1>4 DEF Available
<1> QED
  BY <1>1, <1>2, <1>3, <1>4, <1>6, <1>7, <1>8

(* The scores of a reading, and what they are without overrides.           *)
LEMMA ScoreFacts ==
    ASSUME RoutingAssumption, TypeOK, NEW reading \in Reading, NEW x \in Exchange
    PROVE  /\ Boost(x) \in {10, 13} /\ override[x] \in Int
           /\ ScoreOf(x, reading) \in Int
           /\ override[x] >= 0 => ScoreOf(x, reading) \in Nat
           /\ reading[x] > 0 /\ override[x] > 0 => ScoreOf(x, reading) > 0
<1>1. Boost(x) \in {10, 13} /\ override[x] \in Int /\ reading[x] \in Nat
  BY DEF Boost, TypeOK, RoutingAssumption, Reading
<1> DEFINE weight == reading[x] * Boost(x)
<1>2. weight \in Nat /\ (reading[x] > 0 => weight > 0)
  BY <1>1
<1>3. ScoreOf(x, reading) = weight * override[x]
  BY DEF ScoreOf
<1> HIDE DEF weight
<1>4. /\ weight * override[x] \in Int
      /\ override[x] >= 0 => weight * override[x] >= 0
      /\ weight > 0 /\ override[x] > 0 => weight * override[x] > 0
  BY <1>1, <1>2
<1> QED
  BY <1>1, <1>2, <1>3, <1>4

(* What the weights are fractions of is positive once there are scores.    *)
LEMMA WholeFacts ==
    ASSUME RoutingAssumption, TypeOK, Scored, phase \in {"routed", "split"}
    PROVE  /\ after \in Reading /\ DOMAIN score = Available(after)
           /\ DOMAIN score \subseteq Exchange /\ IsFiniteSet(DOMAIN score)
           /\ DOMAIN score # {}
           /\ \A x \in DOMAIN score : score[x] = ScoreOf(x, after) /\ score[x] \in Int
           /\ TotalScore = SumFunctionOnSet(score, DOMAIN score) /\ TotalScore \in Int
           /\ Whole \in Nat \ {0}
<1>1. /\ after \in Reading /\ DOMAIN score = Available(after)
      /\ DOMAIN score # {}
      /\ \A x \in DOMAIN score : score[x] = ScoreOf(x, after)
  BY DEF Scored
<1>2. /\ DOMAIN score \subseteq Exchange /\ IsFiniteSet(DOMAIN score)
      /\ SumFunctionOnSet(after, DOMAIN score) \in Nat \ {0}
  BY <1>1, ReadingSum
<1>3. \A x \in DOMAIN score : score[x] \in Int
  BY <1>1, <1>2, ScoreFacts
<1>4. TotalScore = SumFunctionOnSet(score, DOMAIN score)
  BY DEF TotalScore, SumFunction
<1>5. TotalScore \in Int
  BY <1>2, <1>3, <1>4, SumTakeOut
<1>6. Whole \in Nat \ {0}
  <2> DEFINE depth == SumFunctionOnSet(after, DOMAIN score)
  <2>1. depth \in Nat \ {0}
    BY <1>2
  <2> HIDE DEF depth
  <2>2. 1000 * depth \in Nat \ {0}
    BY <2>1
  <2> QED
    BY <1>5, <2>2 DEF Whole, depth
<1> QED
  BY <1>1, <1>2, <1>3, <1>4, <1>5, <1>6

(* The number of sub-orders of an allocation, between two bounds.          *)
LEMMA SubOrderBounds ==
    ASSUME RoutingAssumption, TypeOK, Scored, phase \in {"routed", "split"},
           NEW x \in DOMAIN score
    PROVE  /\ SubOrders(x) \in Nat \ {0}
           /\ 2 * Whole * SubOrders(x) >= 2 * Count * score[x] - Whole
           /\ score[x] >= 0 =>
                2 * Whole * SubOrders(x) <= 2 * Count * score[x] + 2 * Whole
<1> DEFINE w == Whole
           p == 2 * Count * score[x]
           r == (p + w) \div (2 * w)
<1>1. w \in Nat \ {0} /\ score[x] \in Int /\ Count \in Nat \ {0}
  BY WholeFacts DEF RoutingAssumption
<1>2. p \in Int /\ (score[x] >= 0 => p >= 0)
  BY <1>1
<1>3. SubOrders(x) = IF r < 1 THEN 1 ELSE r
  BY DEF SubOrders
<1> HIDE DEF w, p
<1>4. 2 * w \in Nat \ {0} /\ p + w \in Int
  BY <1>1, <1>2
<1>5. r \in Int /\ r * (2 * w) <= p + w /\ p + w < r * (2 * w) + 2 * w
  BY <1>4, QuotientBounds
<1> HIDE DEF r
<1> DEFINE t == 2 * w * r
<1>6. t \in Int /\ t <= p + w /\ p - w < t
  BY <1>1, <1>2, <1>5
<1>7. r < 1 => t <= 0
  <2>1. ASSUME r < 1 PROVE t <= 0
    <3>1. r <= 0 /\ 2 * w > 0
      BY <1>1, <1>5, <2>1
    <3> QED
      BY <1>1, <1>5, <3>1
  <2> QED
    BY <2>1
<1> HIDE DEF t
<1>8. CASE r < 1
  <2>1. SubOrders(x) = 1 /\ 2 * w * 1 = 2 * w
    BY <1>1, <1>3, <1>8
  <2>2. 2 * w >= p - w /\ (p >= 0 => 2 * w <= p + 2 * w)
    BY <1>1, <1>2, <1>6, <1>7, <1>8
  <2> QED
    BY <1>2, <2>1, <2>2 DEF w, p
<1>9. CASE ~(r < 1)
  <2>1. SubOrders(x) = r /\ 2 * w * r = t
    BY <1>3, <1>9 DEF t
  <2>2. t >= p - w /\ t <= p + 2 * w
    BY <1>1, <1>2, <1>6
  <2> QED
    BY <1>5, <1>9, <2>1, <2>2 DEF w, p
<1> QED
  BY <1>8, <1>9

-----------------------------------------------------------------------------
(* Every step keeps the invariant.                                         *)
LEMMA Step ==
    ASSUME RoutingAssumption, IInv, [Next]_vars
    PROVE  IInv'
<1> USE DEF IInv
<1>1. CASE UNCHANGED vars
  <2>1. UNCHANGED <<override, preferBatch, phase, pre, before, budget, after, score, split>>
    BY <1>1 DEF vars
  <2>2. TypeOK' /\ Capped'
    BY <2>1 DEF TypeOK, Capped
  <2>3. Scored'
    BY <2>1 DEF Scored, ScoreOf, Boost
  <2>4. Divided'
    BY <2>1 DEF Divided, SubOrders, Whole, TotalScore
  <2> QED
    BY <2>2, <2>3, <2>4
<1>2. CASE Cap
  <2>1. PICK reading \in Reading :
          before' = reading /\ budget' = Least(pre, SumFunction(reading))
    BY <1>2 DEF Cap
  <2>2. SumFunction(reading) \in Nat
    BY ReadingSum
  <2>3. budget' \in Int
    <3>1. pre \in Int
      BY DEF TypeOK, RoutingAssumption
    <3> QED
      BY <2>1, <2>2, <3>1 DEF Least
  <2>4. TypeOK'
    BY <1>2, <2>1, <2>3 DEF Cap, TypeOK
  <2>5. Capped'
    BY <1>2, <2>1 DEF Cap, Capped
  <2>6. Scored' /\ Divided'
    BY <1>2 DEF Cap, Scored, Divided
  <2> QED
    BY <2>4, <2>5, <2>6
<1>3. CASE Skip
  <2>1. TypeOK'
    BY <1>3 DEF Skip, TypeOK
  <2>2. Capped'
    BY <1>3 DEF Skip, Capped
  <2>3. Scored' /\ Divided'
    BY <1>3 DEF Skip, Scored, Divided
  <2> QED
    BY <2>1, <2>2, <2>3
<1>4. CASE Route
  <2>1. PICK reading \in Reading :
          /\ after' = reading
          /\ score' = [x \in Available(reading) |-> ScoreOf(x, reading)]
          /\ phase' = IF Available(reading) = {} THEN "failed" ELSE "routed"
    BY <1>4 DEF Route
  <2>2. Available(reading) \subseteq Exchange
    BY DEF Available
  <2>3. \A x \in Available(reading) :
          ScoreOf(x, reading) \in IF override[x] < 0 THEN Int ELSE Nat
    <3> SUFFICES ASSUME NEW x \in Available(reading)
                 PROVE  ScoreOf(x, reading) \in IF override[x] < 0 THEN Int ELSE Nat
      OBVIOUS
    <3>1. /\ override[x] \in Int /\ ScoreOf(x, reading) \in Int
          /\ override[x] >= 0 => ScoreOf(x, reading) \in Nat
      BY <2>2, ScoreFacts
    <3> QED
      BY <3>1
  <2>4. TypeOK'
    BY <1>4, <2>1, <2>2, <2>3 DEF Route, TypeOK
  <2>5. Capped'
    BY <1>4, <2>1 DEF Route, Capped
  <2>6. Scored'
    BY <1>4, <2>1 DEF Route, Scored, ScoreOf, Boost
  <2>7. Divided'
    BY <2>1 DEF Divided
  <2> QED
    BY <2>4, <2>5, <2>6, <2>7
<1>5. CASE Split
  <2>1. /\ phase = "routed" /\ phase' = "split"
        /\ split' = [x \in DOMAIN score |-> SubOrders(x)]
        /\ UNCHANGED <<override, preferBatch, pre, before, budget, after, score>>
    BY <1>5 DEF Split
  <2>2. \A x \in DOMAIN score : SubOrders(x) \in Nat
    BY <2>1, SubOrderBounds
  <2>3. TypeOK'
    BY <2>1, <2>2 DEF TypeOK
  <2>4. Capped'
    BY <2>1 DEF Capped
  <2>5. Scored'
    BY <2>1 DEF Scored, ScoreOf, Boost
  <2>6. \A x : SubOrders(x)' = SubOrders(x)
    BY <2>1 DEF SubOrders, Whole, TotalScore
  <2>7. Divided'
    BY <2>1, <2>6 DEF Divided
  <2> QED
    BY <2>3, <2>4, <2>5, <2>7
<1> QED
  BY <1>1, <1>2, <1>3, <1>4, <1>5 DEF Next

(* The budget is not above what the first reading found.                   *)
LEMMA BudgetBelowDepth ==
    ASSUME RoutingAssumption, TypeOK, Capped, phase # "start"
    PROVE  /\ before \in Reading /\ SumFunction(before) \in Nat
           /\ budget \in Int /\ budget <= SumFunction(before)
<1>1. before \in Reading /\ budget = Least(pre, SumFunction(before))
  BY DEF Capped
<1>2. SumFunction(before) \in Nat /\ pre \in Int /\ budget \in Int
  BY <1>1, ReadingSum DEF TypeOK, RoutingAssumption
<1> QED
  BY <1>1, <1>2 DEF Least

(* An invariant is one of all states: what IInv implies holds throughout.  *)
THEOREM Invariance == Spec => []IInv
<1>1. Init => IInv
  <2> SUFFICES ASSUME Init PROVE IInv
    OBVIOUS
  <2>1. TypeOK
    BY DEF Init, TypeOK, Nowhere
  <2> QED
    BY <2>1 DEF Init, IInv, Capped, Scored, Divided
<1>2. IInv /\ [Next]_vars => IInv'
  BY RoutingAssumption, Step
<1> QED
  BY <1>1, <1>2, PTL DEF Spec

(* Every variable keeps to its type: a negative score needs a negative     *)
(* override, and no number of sub-orders is negative even then.            *)
THEOREM TypeCorrect == Spec => []TypeOK
<1>1. IInv => TypeOK
  BY DEF IInv
<1> QED
  BY <1>1, Invariance, PTL

(* Route fails for lack of liquidity only when liquidity has gone.         *)
THEOREM FailureIsNews == Spec => []NoLiquidityIsNews
<1>1. IInv => NoLiquidityIsNews
  <2> SUFFICES ASSUME IInv, phase = "failed", MinSize > 0
               PROVE  SumFunction(before) > SumFunction(after)
    BY DEF NoLiquidityIsNews
  <2>1. budget >= MinSize /\ after \in Reading /\ Available(after) = {}
    BY DEF IInv, Scored
  <2>2. SumFunction(after) = 0
    BY <2>1, RoutingAssumption, ReadingSum
  <2>3. SumFunction(before) \in Nat /\ budget \in Int /\ budget <= SumFunction(before)
    BY RoutingAssumption, BudgetBelowDepth DEF IInv
  <2>4. MinSize \in Int
    BY RoutingAssumption DEF RoutingAssumption
  <2> QED
    BY <2>1, <2>2, <2>3, <2>4
<1> QED
  BY <1>1, Invariance, PTL

(* The neutral overrides give the smallest total there is.                 *)
LEMMA NeutralTotal ==
    ASSUME RoutingAssumption, TypeOK, Scored, phase \in {"routed", "split"},
           NeutralOverrides
    PROVE  /\ \A x \in DOMAIN score : score[x] = 100 * Boost(x) * after[x]
           /\ Whole >= 1000 * SumFunction(after)
<1>0. /\ after \in Reading /\ DOMAIN score = Available(after)
      /\ DOMAIN score \subseteq Exchange /\ IsFiniteSet(DOMAIN score)
      /\ DOMAIN score # {}
      /\ \A x \in DOMAIN score : score[x] = ScoreOf(x, after) /\ score[x] \in Int
      /\ TotalScore = SumFunctionOnSet(score, DOMAIN score) /\ TotalScore \in Int
  BY WholeFacts
<1>1. ASSUME NEW x \in DOMAIN score
      PROVE  /\ score[x] = 100 * Boost(x) * after[x] /\ after[x] \in Int
             /\ 1000 * after[x] <= score[x]
  <2>1. x \in Exchange
    BY <1>0
  <2>2. Boost(x) \in {10, 13} /\ override[x] = 100
    BY <2>1, <1>0, ScoreFacts DEF NeutralOverrides
  <2>3. after[x] \in Nat
    BY <1>0, <2>1, ReadingSum
  <2>4. score[x] = after[x] * Boost(x) * 100
    BY <1>0, <2>2 DEF ScoreOf
  <2> QED
    BY <2>2, <2>3, <2>4
<1>2. \A x \in DOMAIN score :
        after[x] \in Int /\ score[x] \in Int /\ 1000 * after[x] <= score[x]
  BY <1>0, <1>1
<1>3. 1000 * SumFunctionOnSet(after, DOMAIN score) <= SumFunctionOnSet(score, DOMAIN score)
  BY <1>0, <1>2, SumScaled
<1>4. /\ SumFunctionOnSet(after, DOMAIN score) = SumFunction(after)
      /\ SumFunction(after) \in Nat /\ SumFunction(after) # 0
  BY <1>0, ReadingSum
<1>5. TotalScore >= 1000 * SumFunction(after)
  BY <1>0, <1>3, <1>4
<1>6. Whole = TotalScore
  BY <1>0, <1>4, <1>5 DEF Whole
<1> QED
  BY <1>1, <1>5, <1>6

(* No exchange is given more than its depth, and one with batch auctions,  *)
(* where they are preferred, no more than 1.3 times its own.               *)
THEOREM DepthIsRespected == Spec => []DepthRespected
<1>1. IInv => DepthRespected
  <2> SUFFICES ASSUME IInv, phase \in {"routed", "split"}, NeutralOverrides,
                      SumFunction(after) >= SumFunction(before), NEW x \in DOMAIN score
               PROVE  10 * budget * score[x]
                        <= (IF preferBatch /\ x \in Batch THEN 13 ELSE 10)
                              * after[x] * Whole
    BY DEF DepthRespected
  <2>0. RoutingAssumption /\ TypeOK /\ Capped /\ Scored
    BY RoutingAssumption DEF IInv
  <2> DEFINE b == Boost(x)
             a == after[x]
             w == Whole
  <2>1. budget \in Int /\ SumFunction(before) \in Nat /\ budget <= SumFunction(before)
    BY <2>0, BudgetBelowDepth
  <2>2. after \in Reading /\ x \in Exchange /\ w \in Nat \ {0}
    BY <2>0, WholeFacts
  <2>3. a \in Nat /\ SumFunction(after) \in Nat
    BY <2>0, <2>2, ReadingSum
  <2>4. score[x] = 100 * b * a /\ w >= 1000 * SumFunction(after)
    BY <2>0, NeutralTotal
  <2>5. b \in {10, 13} /\ b = IF preferBatch /\ x \in Batch THEN 13 ELSE 10
    BY DEF Boost
  <2> HIDE DEF a, b, w
  <2>6. 1000 * budget <= w
    BY <2>1, <2>2, <2>3, <2>4
  <2>7. 10 * budget * score[x] = (b * a) * (1000 * budget)
    BY <2>1, <2>3, <2>4, <2>5
  <2>8. b * a \in Nat
    BY <2>3, <2>5
  <2>9. (b * a) * (1000 * budget) <= (b * a) * w
    BY <2>1, <2>2, <2>6, <2>8
  <2>10. 10 * budget * score[x] <= b * a * w
    BY <2>7, <2>9
  <2> QED
    BY <2>5, <2>10 DEF a, w
<1> QED
  BY <1>1, Invariance, PTL

(* Nobody is sent an order of nothing.                                     *)
THEOREM OrdersAreNotEmpty == Spec => []NoEmptyOrder
<1>1. IInv => NoEmptyOrder
  <2> SUFFICES ASSUME IInv, phase = "split", MinSize > 0,
                      \A x \in Exchange : override[x] > 0
               PROVE  /\ DOMAIN split # {}
                      /\ \A x \in DOMAIN split : split[x] > 0 /\ budget * score[x] > 0
    BY DEF NoEmptyOrder
  <2>0. RoutingAssumption /\ TypeOK /\ Scored
    BY RoutingAssumption DEF IInv
  <2>1. /\ DOMAIN split = DOMAIN score
        /\ \A x \in DOMAIN split : split[x] = SubOrders(x)
    BY DEF IInv, Divided
  <2>2. /\ after \in Reading /\ DOMAIN score = Available(after)
        /\ DOMAIN score # {} /\ DOMAIN score \subseteq Exchange
        /\ \A x \in DOMAIN score : score[x] = ScoreOf(x, after) /\ score[x] \in Int
    BY <2>0, WholeFacts
  <2>3. budget \in Int /\ budget > 0
    BY <2>0 DEF TypeOK, Scored, RoutingAssumption
  <2>4. ASSUME NEW x \in DOMAIN score PROVE SubOrders(x) > 0 /\ budget * score[x] > 0
    <3>1. SubOrders(x) \in Nat \ {0}
      BY <2>0, SubOrderBounds
    <3>2. after[x] > 0
      BY <2>2 DEF Available
    <3>3. score[x] \in Int /\ score[x] > 0
      BY <2>0, <2>2, <3>2, ScoreFacts
    <3>4. budget * score[x] > 0
      BY <2>3, <3>3
    <3> QED
      BY <3>1, <3>4
  <2> QED
    BY <2>1, <2>2, <2>4
<1> QED
  BY <1>1, Invariance, PTL

(* The number of sub-orders of all allocations together is near the count. *)
THEOREM CountIsNear == Spec => []SplitNearCount
<1>1. IInv => SplitNearCount
  <2> SUFFICES ASSUME IInv, phase = "split", TotalScore > 0,
                      \A x \in Exchange : override[x] >= 0
               PROVE  /\ SumFunction(split) <= Count + Cardinality(DOMAIN split)
                      /\ 2 * SumFunction(split) >= 2 * Count - Cardinality(DOMAIN split)
    BY DEF SplitNearCount
  <2>0. RoutingAssumption /\ TypeOK /\ Scored
    BY RoutingAssumption DEF IInv
  <2> DEFINE D == DOMAIN score
             w == Whole
             orders == SumFunctionOnSet(split, D)
             venues == Cardinality(D)
  <2>1. DOMAIN split = D /\ \A x \in D : split[x] = SubOrders(x)
    BY DEF IInv, Divided
  <2>2. /\ D \subseteq Exchange /\ IsFiniteSet(D)
        /\ w = SumFunctionOnSet(score, D) /\ w \in Nat \ {0}
    BY <2>0, WholeFacts DEF Whole
  <2>3. \A x \in D : score[x] \in Nat
    BY <2>0, <2>2 DEF TypeOK, RoutingAssumption
  <2>4. orders \in Int /\ venues \in Nat /\ SumFunction(split) = orders
    <3>1. \A x \in D : split[x] \in Int
      BY <2>0, <2>1, SubOrderBounds
    <3> QED
      BY <2>1, <2>2, <3>1, SumTakeOut, FS_CardinalityType DEF SumFunction
  <2>5. Count \in Nat
    BY <2>0 DEF RoutingAssumption
  <2> HIDE DEF w, D
  <2>6. ASSUME NEW x \in D
        PROVE  /\ split[x] \in Int /\ score[x] \in Int
               /\ (2 * w) * split[x] <= (2 * Count) * score[x] + 2 * w
               /\ (2 * Count) * score[x] <= (2 * w) * split[x] + w
    <3>1. /\ SubOrders(x) \in Nat \ {0}
          /\ 2 * w * SubOrders(x) >= 2 * Count * score[x] - w
          /\ score[x] >= 0 => 2 * w * SubOrders(x) <= 2 * Count * score[x] + 2 * w
      BY <2>0, SubOrderBounds DEF w, D
    <3>2. split[x] = SubOrders(x) /\ score[x] \in Nat
      BY <2>1, <2>3
    <3> DEFINE u == 2 * w * SubOrders(x)
               v == 2 * Count * score[x]
    <3>3. u \in Int /\ v \in Int
      BY <2>2, <2>5, <3>1, <3>2
    <3>4. (2 * w) * split[x] = u /\ (2 * Count) * score[x] = v
      BY <3>2
    <3> HIDE DEF u, v
    <3>5. u >= v - w /\ u <= v + 2 * w
      BY <3>1, <3>2 DEF u, v
    <3> QED
      BY <2>2, <3>1, <3>2, <3>3, <3>4, <3>5
  <2>7. 2 * w \in Int /\ 2 * Count \in Int /\ w \in Int
    BY <2>2, <2>5
  <2>8. /\ (2 * w) * orders <= (2 * Count) * w + (2 * w) * venues
        /\ (2 * Count) * w <= (2 * w) * orders + w * venues
    <3> DEFINE a == 2 * w
               b == 2 * Count
    <3>1. a \in Int /\ b \in Int
      BY <2>7
    <3>2. /\ \A x \in D : split[x] \in Int /\ score[x] \in Int
          /\ \A x \in D : a * split[x] <= b * score[x] + a
          /\ \A x \in D : b * score[x] <= a * split[x] + w
      BY <2>6
    <3> HIDE DEF a, b
    <3>3. a * SumFunctionOnSet(split, D) <= b * SumFunctionOnSet(score, D) + a * Cardinality(D)
      BY <2>2, <3>1, <3>2, SumLinear
    <3>4. b * SumFunctionOnSet(score, D) <= a * SumFunctionOnSet(split, D) + w * Cardinality(D)
      BY <2>2, <2>7, <3>1, <3>2, SumLinear
    <3> QED
      BY <2>2, <3>3, <3>4 DEF a, b
  <2> HIDE DEF orders, venues
  <2>9. /\ orders <= Count + venues
        /\ 2 * Count <= 2 * orders + venues
    <3>1. ASSUME NEW p \in Int, NEW q \in Int, p > q PROVE w * p > w * q
      BY <2>2, <3>1
    <3>2. orders > Count + venues => FALSE
      <4>1. ASSUME orders > Count + venues PROVE FALSE
        <5>1. w * orders > w * (Count + venues)
          BY <2>4, <2>5, <3>1, <4>1
        <5> QED
          BY <2>2, <2>4, <2>5, <2>8, <5>1
      <4> QED
        BY <4>1
    <3>3. 2 * Count > 2 * orders + venues => FALSE
      <4>1. ASSUME 2 * Count > 2 * orders + venues PROVE FALSE
        <5>1. w * (2 * Count) > w * (2 * orders + venues)
          BY <2>4, <2>5, <3>1, <4>1
        <5> QED
          BY <2>2, <2>4, <2>5, <2>8, <5>1
      <4> QED
        BY <4>1
    <3> QED
      BY <2>4, <2>5, <3>2, <3>3
  <2> QED
    BY <2>1, <2>4, <2>5, <2>9 DEF venues, D
<1> QED
  BY <1>1, Invariance, PTL

(* Of two exchanges of a kind the deeper one is given no less.             *)
THEOREM DepthIsRewarded == Spec => []DeeperGetsMore
<1>1. IInv => DeeperGetsMore
  <2> SUFFICES ASSUME IInv, phase = "split", NeutralOverrides,
                      NEW x \in DOMAIN split, NEW y \in DOMAIN split,
                      x \in Batch <=> y \in Batch, after[x] >= after[y]
               PROVE  score[x] >= score[y] /\ split[x] >= split[y]
    BY DEF DeeperGetsMore
  <2>0. RoutingAssumption /\ TypeOK /\ Scored
    BY RoutingAssumption DEF IInv
  <2>1. /\ DOMAIN split = DOMAIN score
        /\ split[x] = SubOrders(x) /\ split[y] = SubOrders(y)
    BY DEF IInv, Divided
  <2>2. /\ x \in Exchange /\ y \in Exchange /\ Whole \in Nat \ {0}
        /\ after[x] \in Nat /\ after[y] \in Nat
        /\ score[x] \in Int /\ score[y] \in Int
    BY <2>0, <2>1, WholeFacts, ReadingSum
  <2>3. /\ Boost(x) = Boost(y) /\ Boost(x) \in {10, 13}
        /\ score[x] = 100 * Boost(x) * after[x] /\ score[y] = 100 * Boost(y) * after[y]
    BY <2>0, <2>1, NeutralTotal DEF Boost
  <2>4. score[x] >= score[y]
    BY <2>2, <2>3
  <2> DEFINE w == Whole
             p == 2 * Count * score[x] + w
             q == 2 * Count * score[y] + w
  <2>5. w \in Nat \ {0} /\ 2 * w \in Nat \ {0} /\ Count \in Nat
    BY <2>0, <2>2 DEF RoutingAssumption
  <2>6. p \in Int /\ q \in Int /\ q <= p
    <3>1. 2 * Count * score[y] <= 2 * Count * score[x]
      BY <2>2, <2>4, <2>5
    <3>2. 2 * Count * score[y] \in Int /\ 2 * Count * score[x] \in Int
      BY <2>2, <2>5
    <3> HIDE DEF w
    <3> QED
      BY <2>5, <3>1, <3>2
  <2>7. /\ split[x] = IF p \div (2 * w) < 1 THEN 1 ELSE p \div (2 * w)
        /\ split[y] = IF q \div (2 * w) < 1 THEN 1 ELSE q \div (2 * w)
    BY <2>1 DEF SubOrders
  <2> HIDE DEF p, q, w
  <2>8. q \div (2 * w) <= p \div (2 * w) /\ p \div (2 * w) \in Int /\ q \div (2 * w) \in Int
    BY <2>5, <2>6, QuotientMonotone, QuotientBounds
  <2> QED
    BY <2>4, <2>7, <2>8
<1> QED
  BY <1>1, Invariance, PTL
=============================================================================
