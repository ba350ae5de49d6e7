------------------------------ MODULE Classifier ------------------------------
(***************************************************************************)
(* Classifier.Classify (internal/regime/classifier.go) over the four score *)
(* functions that buildEngine gives it (cmd/buyback/main.go).              *)
(*                                                                         *)
(* Scores are in hundredths and weights in tenths, so that every sum of    *)
(* the code is an integer here.  Closes are positive integers; their       *)
(* natural logarithms are a constant, in thousandths.                      *)
(***************************************************************************)
EXTENDS Integers, Sequences, SequencesExt

CONSTANTS
    Close,          \* the closing prices
    Volume,         \* the volumes
    Ln,             \* the logarithm of a close
    Window          \* bound on the number of candles (a month in the code)

ASSUME ClassifierAssumption ==
    /\ Close \subseteq Nat \ {0}
    /\ Volume \subseteq Nat
    /\ Ln \in [Close -> Int]
    /\ Window \in Nat \ {0}

VARIABLES
    data,           \* the OHLCV candles, oldest first
    verdict         \* the latest ClassificationResult

vars == <<data, verdict>>

(* types.AllRegimes, in its order.                                         *)
AllRegimes == <<"accumulation", "distribution", "markdown", "markup">>

Regime == {"accumulation", "distribution", "markdown", "markup"}

Candle == [close : Close, volume : Volume]

(* The weighted scores of all regimes together, whatever the tables: the   *)
(* unit of confidence is one part of it.                                   *)
Total == 3100

TypeOK ==
    /\ data \in Seq(Candle) /\ Len(data) <= Window
    /\ verdict.regime \in Regime
    /\ verdict.confidence \in 0 .. Total

-----------------------------------------------------------------------------
(* Score tables and sums.                                                  *)

Even == [r \in Regime |-> 25]

(* 0.7 for one regime, 0.1 for each of the others.                         *)
Favour(regime) == [r \in Regime |-> IF r = regime THEN 70 ELSE 10]

SumOf(d, Value(_)) == SumFunction([i \in DOMAIN d |-> Value(d[i])])

Closes(d) == SumOf(d, LAMBDA c : c.close)

Volumes(d) == SumOf(d, LAMBDA c : c.volume)

Mid(d) == Len(d) \div 2

FirstHalf(d) == SubSeq(d, 1, Mid(d))

SecondHalf(d) == SubSeq(d, Mid(d) + 1, Len(d))

LastOnes(d, n) == SubSeq(d, Len(d) - n + 1, Len(d))

(* The average of one half against that of the other, both multiplied by   *)
(* the lengths of both.                                                    *)
EarlyPrice(d) == Closes(FirstHalf(d)) * Len(SecondHalf(d))

LatePrice(d) == Closes(SecondHalf(d)) * Len(FirstHalf(d))

Rises(d) == 50 * (LatePrice(d) - EarlyPrice(d)) > EarlyPrice(d)

Falls(d) == 50 * (EarlyPrice(d) - LatePrice(d)) > EarlyPrice(d)

(* Mutant of PriceTrendScore: the branches of rise and fall are swapped.   *)
PriceTrendSwapped(d) ==
    LET Trend(with, against) ==
            [r \in Regime |-> CASE r = with -> 70 [] r = against -> 0
                                [] r = "accumulation" -> 10 [] r = "distribution" -> 20]
    IN  CASE Len(d) < 2 -> Even
          [] Len(d) >= 2 /\ Rises(d) -> Trend("markdown", "markup")
          [] Len(d) >= 2 /\ Falls(d) -> Trend("markup", "markdown")
          [] OTHER -> Favour("accumulation")

PriceTrendScore(d) ==
    LET Trend(with, against) ==
            [r \in Regime |-> CASE r = with -> 70 [] r = against -> 0
                                [] r = "accumulation" -> 10 [] r = "distribution" -> 20]
    IN  CASE Len(d) < 2 -> Even
          [] Len(d) >= 2 /\ Rises(d) -> Trend("markup", "markdown")
          [] Len(d) >= 2 /\ Falls(d) -> Trend("markdown", "markup")
          [] OTHER -> Favour("accumulation")

(* Mutant of VolumeTrendScore: the difference is not taken as a ratio.     *)
VolumeDifferenceScore(d) ==
    LET lookback == IF Len(d) > 20 THEN 20 ELSE Len(d)
        five == Volumes(LastOnes(d, 5)) * lookback
        twenty == Volumes(LastOnes(d, lookback)) * 5
    IN  CASE Len(d) < 5 -> Even
          [] Len(d) >= 5 /\ five - twenty > 5 * lookback ->
                [r \in Regime |-> IF r \in {"markup", "markdown"} THEN 40 ELSE 10]
          [] Len(d) >= 5 /\ twenty - five > 5 * lookback -> Favour("accumulation")
          [] OTHER -> Even

(* The last 5 candles against the last 20; a threshold of 10%.  An average *)
(* volume of 0 makes the ratio 0, as the comparisons here do.              *)
VolumeTrendScore(d) ==
    LET lookback == IF Len(d) > 20 THEN 20 ELSE Len(d)
        five == Volumes(LastOnes(d, 5)) * lookback
        twenty == Volumes(LastOnes(d, lookback)) * 5
    IN  CASE Len(d) < 5 -> Even
          [] Len(d) >= 5 /\ 10 * (five - twenty) > twenty ->
                [r \in Regime |-> IF r \in {"markup", "markdown"} THEN 40 ELSE 10]
          [] Len(d) >= 5 /\ 10 * (twenty - five) > twenty -> Favour("accumulation")
          [] OTHER -> Even

(* The variance of the log returns, times the square of their number.      *)
Spread(d) ==
    LET n == Len(d) - 1
        return == [i \in 1 .. n |-> Ln[d[i + 1].close] - Ln[d[i].close]]
        sum == SumOf(return, LAMBDA r : r)
    IN  n * SumOf(return, LAMBDA r : r * r) - sum * sum

(* Annualised by sqrt(365) and squared: 0.3 and 0.8 become 0.09 and 0.64.  *)
VolatilityScore(d) ==
    LET n == Len(d) - 1
    IN  CASE Len(d) < 2 -> Even
          [] Len(d) >= 2 /\ 365 * Spread(d) < 90000 * n * n -> Favour("accumulation")
          [] Len(d) >= 2 /\ 365 * Spread(d) > 640000 * n * n -> Favour("distribution")
          [] OTHER -> Even

DivergenceScore(d) ==
    LET priceRising == LatePrice(d) > EarlyPrice(d)
        volumeRising == Volumes(SecondHalf(d)) * Len(FirstHalf(d))
                          > Volumes(FirstHalf(d)) * Len(SecondHalf(d))
    IN  CASE Len(d) < 5 -> Even
          [] Len(d) >= 5 /\ priceRising /\ ~volumeRising -> Favour("distribution")
          [] Len(d) >= 5 /\ ~priceRising /\ volumeRising -> Favour("markdown")
          [] OTHER -> Even

-----------------------------------------------------------------------------
(* Classify.                                                               *)

(* The weights that buildEngine passes: 1.0, 0.8, 0.7 and 0.6.             *)
Aggregated(d) ==
    LET priceTrend == PriceTrendScore(d)
        volumeTrend == VolumeTrendScore(d)
        volatility == VolatilityScore(d)
        divergence == DivergenceScore(d)
    IN  [r \in Regime |-> 10 * priceTrend[r] + 8 * volumeTrend[r]
                            + 7 * volatility[r] + 6 * divergence[r]]

(* Mutant of Best: the comparison is turned round.                         *)
BestTurned(score) ==
    FoldLeft(LAMBDA best, r : IF score[r] < score[best] THEN r ELSE best,
             "accumulation", AllRegimes)

(* Mutant of Best: the best score is not kept with the best regime.        *)
BestWithoutScore(score) ==
    FoldLeft(LAMBDA best, r : IF score[r] > score["accumulation"] THEN r ELSE best,
             "accumulation", AllRegimes)

Best(score) ==
    FoldLeft(LAMBDA best, r : IF score[r] > score[best] THEN r ELSE best,
             "accumulation", AllRegimes)

(* Mutant of SecondBest: the first of the others stands for all.           *)
SecondBestFirst(score, best) ==
    LET others == SelectSeq(AllRegimes, LAMBDA r : r # best)
    IN  score[Head(others)]

SecondBest(score, best) ==
    LET found == FoldLeft(LAMBDA most, r :
                              IF r # best /\ score[r] > most THEN score[r] ELSE most,
                          -1, AllRegimes)
    IN  IF found < 0 THEN 0 ELSE found

Verdict(d) ==
    LET score == Aggregated(d)
        best == Best(score)
    IN  [regime |-> best, confidence |-> score[best] - SecondBest(score, best)]

Init ==
    /\ data = <<>>
    /\ verdict = Verdict(<<>>)

(* The next day's candle, and the classification of a cycle of that day.   *)
Classify ==
    /\ Len(data) < Window
    /\ \E candle \in Candle :
          /\ data' = Append(data, candle)
          /\ verdict' = Verdict(Append(data, candle))

Next == Classify

Spec == Init /\ [][Next]_vars

-----------------------------------------------------------------------------
(* The engine never takes a rising market for a markdown, nor a falling    *)
(* one for a markup, whatever volume and volatility say.                   *)
TrendIsHeeded ==
    Len(data) >= 2 =>
        /\ Rises(data) => verdict.regime # "markdown"
        /\ Falls(data) => verdict.regime # "markup"

(* No regime wins as a compromise: the winner is the favourite of at least *)
(* one of the four signals.                                                *)
WinnerHasBacking ==
    \E score \in {PriceTrendScore(data), VolumeTrendScore(data),
                  VolatilityScore(data), DivergenceScore(data)} :
        \A r \in Regime : score[r] <= score[verdict.regime]

(* Confidence is the lead over every other regime: none is closer, and a   *)
(* lead of 0 is only ever claimed by the first in alphabetical order.      *)
ConfidenceIsLead ==
    LET score == Aggregated(data)
        lead(r) == score[verdict.regime] - score[r]
    IN  /\ \A r \in Regime \ {verdict.regime} : lead(r) >= verdict.confidence
        /\ \E r \in Regime \ {verdict.regime} : lead(r) = verdict.confidence
        /\ \A i \in DOMAIN AllRegimes :
              lead(AllRegimes[i]) = 0 => \E j \in 1 .. i : AllRegimes[j] = verdict.regime

(* The unit that volumes are quoted in (tokens, dollars) does not matter.  *)
UnitOfVolumeIsFree ==
    LET scaled == [i \in DOMAIN data |-> [data[i] EXCEPT !.volume = 40 * @]]
    IN  Verdict(scaled) = verdict
=============================================================================
