-------------------------------- MODULE Strategy --------------------------------
(***************************************************************************)
(* What a cycle decides to spend, and what the cycles of some days spend   *)
(* together: Engine.RunCycle up to the routing (internal/engine/engine.go) *)
(* with CalculateVWAP, CalculateTargetPrice and ShouldExecute (vwap.go),   *)
(* on a configuration that Config lets through and on the candles that     *)
(* MarketData makes of two replies.                                        *)
(*                                                                         *)
(* Decimals are fractions of integers, volatilities in percent.  The       *)
(* regime is any one (Classifier finds it), the volatility any one of Vol. *)
(* Money is in units of 1 / (200 Days) dollar, in which every budget is an *)
(* integer.                                                                *)
(***************************************************************************)
EXTENDS Config, MarketData

CONSTANTS
    File,           \* the configuration files
    Ohlc, Chart,    \* the replies with candles and with volumes
    Quote,          \* the prices that a request can find
    NoQuote,        \* the request for the price fails
    Depth,          \* the total depths that the exchanges show
    Vol,            \* the realized volatilities
    Days,           \* the days of a year, 365 in the code
    CyclesPerDay    \* how many cycles the interval lets into a day

ASSUME StrategyAssumption ==
    /\ \A c \in File : IsConfig(c)
    /\ \A reply \in Ohlc :
          /\ Parsed(reply) \in Seq([ok : {TRUE}, time : Int, low : Nat \ {0},
                                   close : Nat, high : Nat])
          /\ \A i \in DOMAIN Parsed(reply) :
                LET entry == Parsed(reply)[i]
                IN  entry.low <= entry.close /\ entry.close <= entry.high
    /\ \A reply \in Chart :
          Parsed(reply) \in Seq([ok : {TRUE}, time : Int, volume : Nat])
    /\ Quote \subseteq Nat \ {0} /\ NoQuote \notin Quote
    /\ Depth \subseteq Nat
    /\ Vol \subseteq Nat /\ 0 \in Vol
    /\ {Days, CyclesPerDay} \subseteq Nat \ {0}

VARIABLES
    cfg,            \* the configuration of the process
    day, cycle,     \* the day of the year, the cycles run on it
    feed,           \* the replies that the day's latest cycle got
    market,         \* what it made of them
    bought,         \* what it bought for
    spent           \* what all cycles together bought for

vars == <<cfg, day, cycle, feed, market, bought, spent>>

(* Every multiplier may be negative, and only a minimum size of 0 or more  *)
(* keeps a negative budget from being routed.                              *)
Most == Max({0} \cup {TwiceMid(cfg, r) : r \in Regime})

TypeOK ==
    /\ cfg \in Load(File)
    /\ day \in 1 .. Days /\ cycle \in 0 .. CyclesPerDay
    /\ feed = <<>> \/ feed \in [ohlc : Ohlc, chart : Chart]
    /\ market = <<>> \/ /\ market.regime \in Regime /\ market.vol \in Vol
                        /\ market.price \in Nat \ {0} /\ market.depth \in Depth
    /\ bought \in Int /\ spent \in Int
    /\ cfg.minExecutionSize >= 0 => 0 <= bought /\ bought <= spent
    /\ spent <= Days * CyclesPerDay * cfg.annualBudget * Most

Init ==
    /\ cfg \in Load(File)
    /\ day = 1 /\ cycle = 0
    /\ feed = <<>> /\ market = <<>>
    /\ bought = 0 /\ spent = 0

-----------------------------------------------------------------------------
SumOf(candles, Value(_)) == SumFunction([i \in DOMAIN candles |-> Value(candles[i])])

Fraction(num, den) == [num |-> num, den |-> den]

(* Mutant of CalculateVWAP: the sum of the three prices is not divided.    *)
SumOfPricesVWAP(candles) ==
    LET volume == SumOf(candles, LAMBDA c : c.volume)
    IN  CASE candles = <<>> -> Fraction(0, 1)
          [] candles # <<>> /\ volume = 0 ->
                Fraction(SumOf(candles, LAMBDA c : c.close), Len(candles))
          [] OTHER ->
                Fraction(SumOf(candles, LAMBDA c : (c.high + c.low + c.close) * c.volume),
                         volume)

(* The typical price of a candle is (high + low + close) / 3.              *)
CalculateVWAP(candles) ==
    LET volume == SumOf(candles, LAMBDA c : c.volume)
    IN  CASE candles = <<>> -> Fraction(0, 1)
          [] candles # <<>> /\ volume = 0 ->
                Fraction(SumOf(candles, LAMBDA c : c.close), Len(candles))
          [] OTHER ->
                Fraction(SumOf(candles, LAMBDA c : (c.high + c.low + c.close) * c.volume),
                         3 * volume)

(* Mutant of Discount: the adjustments of the two regimes are swapped.     *)
DiscountSwapped(vol, regime) ==
    (10 * cfg.baseDiscount + vol * cfg.volScalingFactor)
        * CASE regime = "accumulation" -> 3 [] regime = "markup" -> 1 [] OTHER -> 2

(* Mutant of Discount: volatility narrows it.                              *)
DiscountNarrowed(vol, regime) ==
    (10 * cfg.baseDiscount - vol * cfg.volScalingFactor)
        * CASE regime = "accumulation" -> 1 [] regime = "markup" -> 3 [] OTHER -> 2

(* In thousandths of a half: halved in accumulation, half as much again    *)
(* in markup.                                                              *)
Discount(vol, regime) ==
    (10 * cfg.baseDiscount + vol * cfg.volScalingFactor)
        * CASE regime = "accumulation" -> 1 [] regime = "markup" -> 3 [] OTHER -> 2

CalculateTargetPrice(vwap, vol, regime) ==
    Fraction(vwap.num * (2000 - Discount(vol, regime)), vwap.den * 2000)

ShouldExecute(price, target) == price * target.den <= target.num

(* Mutant of AdjustedBudget: the liquidity score is not capped at 1.       *)
AdjustedUncapped(regime, depth) ==
    IF TwiceMid(cfg, regime) > 0 THEN 200 * Days * depth ELSE 0

(* The daily budget times the multiplier, times the liquidity score, which *)
(* is 1 or the part of the budget that there is depth for.                 *)
AdjustedBudget(regime, depth) ==
    LET budget == cfg.annualBudget * TwiceMid(cfg, regime)
    IN  IF budget > 0 /\ 200 * Days * depth < budget
        THEN 200 * Days * depth ELSE budget

(* What is routed; the venues take all of it.                              *)
Bought(m) ==
    LET target == CalculateTargetPrice(CalculateVWAP(m.ohlcv), m.vol, m.regime)
        budget == AdjustedBudget(m.regime, m.depth)
    IN  IF /\ ShouldExecute(m.price, target)
           /\ budget >= 200 * Days * cfg.minExecutionSize
        THEN budget ELSE 0

(* Closes without two different returns: their volatility is 0, as is that *)
(* of less than three candles.                                             *)
Steady(candles) ==
    \A i \in 1 .. Len(candles) - 2 :
        candles[i].close * candles[i + 2].close = candles[i + 1].close * candles[i + 1].close

(* Without an answer to the request for the price, it is the close of the  *)
(* last candle.  (Without candles either, the process panics: Engine.)     *)
CurrentPrice(quote, candles) ==
    IF quote # NoQuote THEN quote ELSE candles[Len(candles)].close

RunCycle ==
    /\ cycle < CyclesPerDay
    /\ cycle' = cycle + 1
    /\ \E ohlc \in Ohlc, chart \in Chart :
          LET candles == GetOHLCV(ohlc, chart) IN
          /\ feed' = [ohlc |-> ohlc, chart |-> chart]
          /\ \E regime \in Regime, quote \in Quote \cup {NoQuote}, depth \in Depth,
                vol \in IF Steady(candles) THEN {0} ELSE Vol :
                /\ quote # NoQuote \/ candles # <<>>
                /\ market' = [ohlcv |-> candles, regime |-> regime, vol |-> vol,
                              price |-> CurrentPrice(quote, candles), depth |-> depth]
                /\ bought' = Bought(market')
    /\ spent' = spent + bought'
    /\ UNCHANGED <<cfg, day>>

NextDay ==
    /\ day < Days
    /\ day' = day + 1 /\ cycle' = 0
    /\ feed' = <<>> /\ market' = <<>> /\ bought' = 0
    /\ UNCHANGED <<cfg, spent>>

Next == RunCycle \/ NextDay

Spec == Init /\ [][Next]_vars

-----------------------------------------------------------------------------
(* Every candle has the volume of the point nearest to it, the first one   *)
(* of two that are equally near, and none of an entry that does not parse. *)
VolumesAreNearest ==
    feed # <<>> =>
        LET raw == Parsed(feed.ohlc)
        IN  /\ Len(market.ohlcv) = Len(raw)
            /\ \A i \in DOMAIN raw :
                  IsNearest(market.ohlcv[i].volume, raw[i].time, Parsed(feed.chart))

(* The engine does not chase the price: whatever the volumes, the regime   *)
(* and the volatility, it buys at no price above all of the window, and in *)
(* an empty window not at all.  This needs a scaling factor of 0 or more,  *)
(* which Validate does not ask for, and a discount of 0 or more, which it  *)
(* does.                                                                   *)
NeverAboveTheWindow ==
    bought > 0 /\ cfg.volScalingFactor >= 0 =>
        \E i \in DOMAIN market.ohlcv : market.price <= market.ohlcv[i].high

(* "Buy hard" and "don't chase": what is bought in markup would have been  *)
(* bought in accumulation, and for no less, if the multipliers say so.     *)
AccumulationBuysMore ==
    /\ bought > 0 /\ market.regime = "markup"
    /\ cfg.volScalingFactor >= 0
    /\ TwiceMid(cfg, "accumulation") >= TwiceMid(cfg, "markup")
    => Bought([market EXCEPT !.regime = "accumulation"]) >= bought

(* A volatile market makes the engine more patient: what is bought in it   *)
(* would have been bought, for the same amount, in any calmer one.         *)
VolatileIsPatient ==
    bought > 0 /\ cfg.volScalingFactor >= 0 => \A vol \in Vol :
        vol <= market.vol => Bought([market EXCEPT !.vol = vol]) = bought

(* "Total annual buyback budget in USD": no year spends more.              *)
AnnualBudgetHolds == spent <= 200 * Days * cfg.annualBudget
=============================================================================
