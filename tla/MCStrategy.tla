------------------------------ MODULE MCStrategy ------------------------------
(* Instances of Strategy for TLC; multipliers and discounts are those of     *)
(* DefaultConfig, with a budget of 4 dollars a day.                          *)
EXTENDS Strategy

Default ==
    [named |-> TRUE, annualBudget |-> 8, baseDiscount |-> 2, volScalingFactor |-> 1,
     maxSlippage |-> 200, splitCount |-> 3, minExecutionSize |-> 1,
     multipliers |-> [r \in Regime |->
         CASE r = "accumulation" -> [min |-> 150, max |-> 200]
           [] r = "markup"       -> [min |-> 30, max |-> 50]
           [] r = "distribution" -> [min |-> 0, max |-> 20]
           [] r = "markdown"     -> [min |-> 80, max |-> 100]]]

(* Valid ones: a minimum and a multiplier below 0, no discount; a scaling    *)
(* factor that turns the discount around, and no minimum.                    *)
Odd == [Default EXCEPT !.minExecutionSize = -2, !.baseDiscount = 0,
                       !.multipliers["markdown"] = [min |-> -100, max |-> 0]]

Chasing == [Default EXCEPT !.volScalingFactor = -10, !.minExecutionSize = 0]

(* Invalid ones.                                                             *)
Premium == [Default EXCEPT !.baseDiscount = -20]

Partial == [Default EXCEPT !.multipliers =
                [r \in Regime \ {"markdown"} |-> Default.multipliers[r]]]

MCFile == {Default, Odd, Chasing, Premium, Partial}

OnlyDefault == {Default}

Shape == {[low |-> 8, close |-> 9, high |-> 12],
          [low |-> 10, close |-> 10, high |-> 10],
          [low |-> 18, close |-> 20, high |-> 20]}

Stamped(shapes, ok) ==
    [i \in DOMAIN shapes |->
        [ok |-> ok[i], time |-> 10 * i, low |-> shapes[i].low,
         close |-> shapes[i].close, high |-> shapes[i].high]]

(* Up to two candles, or three of two shapes; one may not parse.             *)
MCOhlc ==
    {Stamped(shapes, [i \in 1 .. 2 |-> TRUE]) : shapes \in BoundedSeq(Shape, 2)}
    \cup {Stamped(shapes, [i \in 1 .. 3 |-> i # bad]) :
              shapes \in [1 .. 3 -> {s \in Shape : s.low < s.high}], bad \in {0, 2}}

(* The candle at 20 is as near to 15 as to 25.                               *)
Point == [ok : {TRUE}, time : {9, 15, 25}, volume : {0, 3}]

Broken == [ok |-> FALSE, time |-> 20, volume |-> 1]

MCChart ==
    {<<>>, <<Broken>>} \cup {<<p>> : p \in Point} \cup {<<Broken, p>> : p \in Point}
    \cup {<<p, q>> \in Point \X Point : p.time < q.time}

MCQuote == {8, 13}

MCDepth == {3, 10}

MCVol == {0, 140}
=============================================================================
