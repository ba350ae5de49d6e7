----------------------------- MODULE StrategyProofs -----------------------------
(***************************************************************************)
(* Proofs about Strategy, for any valid configurations, replies, prices,   *)
(* depths and volatilities: every invariant that is model-checked.         *)
(***************************************************************************)
EXTENDS Strategy, FoldTheorems

Point == [ok : {TRUE}, time : Int, volume : Nat]

Entry == [ok : {TRUE}, time : Int, low : Nat \ {0}, close : Nat, high : Nat]

-----------------------------------------------------------------------------
(* ClosestVolume.                                                          *)

Closer(target, closest, p) ==
    IF Distance(target, p.time) < Distance(target, closest.time) THEN p ELSE closest

(* The value of the loop after the points of s.                            *)
Looked(h, target, points) ==
    h = [s \in SUBSET DOMAIN points |->
            IF s = {} THEN Head(points)
            ELSE LET i == Max(s) IN Closer(target, h[s \ {i}], points[i])]

(* The loop of ClosestVolume as a recursion.                               *)
LEMMA ClosestVolumeExpanded ==
    ASSUME NEW target, NEW points, points # <<>>
    PROVE  ClosestVolume(target, points)
              = ((CHOOSE h : Looked(h, target, points))[DOMAIN points]).volume
  BY Zenon DEF ClosestVolume, FoldLeft, MapThenFoldSet, Looked, Closer

(* The loop does run.                                                      *)
LEMMA LoopRuns ==
    ASSUME NEW target \in Int, NEW points \in Seq(Point), points # <<>>
    PROVE  \E h : Looked(h, target, points)
<1> DEFINE n == Len(points)
           op == [i \in 1 .. n |-> [v \in Point |-> Closer(target, v, points[i])]]
<1>1. n \in Nat \ {0} /\ DOMAIN points = 1 .. n /\ \A i \in 1 .. n : points[i] \in Point
  OBVIOUS
<1>2. Head(points) \in Point
  BY <1>1
<1> HIDE DEF n
<1>3. \A i \in 1 .. n, v \in Point : op[i][v] = Closer(target, v, points[i])
  OBVIOUS
<1>4. op \in [1 .. n -> [Point -> Point]]
  <2>1. \A i \in 1 .. n, v \in Point : Closer(target, v, points[i]) \in Point
    BY <1>1 DEF Closer
  <2> QED
    BY <2>1
<1> HIDE DEF op
<1>5. PICK h : FoldsFromTheLast(h, op, Head(points), n, Point)
  <2> DEFINE V == Point
             base == Head(points)
  <2>1. n \in Nat /\ base \in V /\ op \in [1 .. n -> [V -> V]]
    BY <1>1, <1>2, <1>4
  <2> HIDE DEF V, base
  <2>2. \E h : FoldsFromTheLast(h, op, base, n, V)
    BY <2>1, FoldFromTheLast
  <2> QED
    BY <2>2 DEF V, base
<1> DEFINE g == [s \in SUBSET DOMAIN points |-> h[s]]
<1>6. ASSUME NEW s \in SUBSET (1 .. n)
      PROVE  g[s] = IF s = {} THEN Head(points)
                    ELSE Closer(target, g[s \ {Max(s)}], points[Max(s)])
  <2>1. CASE s = {}
    BY <1>1, <1>5, <2>1 DEF FoldsFromTheLast
  <2>2. CASE s # {}
    <3>1. /\ Max(s) \in 1 .. n /\ s \ {Max(s)} \in SUBSET (1 .. n)
          /\ h[s] = op[Max(s)][h[s \ {Max(s)}]]
      BY <1>5, <2>2 DEF FoldsFromTheLast
    <3>2. h[s] = Closer(target, h[s \ {Max(s)}], points[Max(s)])
      <4>1. h[s \ {Max(s)}] \in Point
        BY <1>5, <3>1 DEF FoldsFromTheLast
      <4> QED
        BY <1>3, <3>1, <4>1
    <3>3. g[s] = h[s] /\ g[s \ {Max(s)}] = h[s \ {Max(s)}]
      BY <1>1, <3>1
    <3> QED
      BY <2>2, <3>2, <3>3
  <2> QED
    BY <2>1, <2>2
<1>7. g = [s \in SUBSET DOMAIN points |-> g[s]]
  OBVIOUS
<1> HIDE DEF g
<1>8. Looked(g, target, points)
  BY <1>1, <1>6, <1>7 DEF Looked
<1> QED
  BY <1>8

(* After the first k points the loop stands at the first of the nearest.   *)
LEMMA NearestFound ==
    ASSUME NEW target \in Int, NEW points \in Seq(Point)
    PROVE  IsNearest(ClosestVolume(target, points), target, points)
<1>1. CASE points = <<>>
  BY <1>1 DEF ClosestVolume, IsNearest
<1>2. CASE points # <<>>
  <2> DEFINE n == Len(points)
             dist(i) == Distance(target, points[i].time)
             h == CHOOSE h : Looked(h, target, points)
             First(m, k) ==
                \A j \in 1 .. k : dist(m) < dist(j) \/ (dist(m) = dist(j) /\ m <= j)
             G == {k \in 0 .. n : \E m \in 1 .. n :
                      /\ m = 1 \/ m <= k
                      /\ h[1 .. k] = points[m] /\ First(m, k)}
  <2>1. n \in Nat \ {0} /\ DOMAIN points = 1 .. n /\ \A i \in 1 .. n : points[i] \in Point
    BY <1>2
  <2>2. Head(points) = points[1]
    BY <1>2
  <2>3. \A i \in 1 .. n : dist(i) \in Int
    <3> SUFFICES ASSUME NEW i \in 1 .. n PROVE dist(i) \in Int
      OBVIOUS
    <3>1. points[i].time \in Int
      BY <2>1 DEF Point
    <3> QED
      BY <3>1 DEF Distance
  <2>4. Looked(h, target, points)
    BY <1>2, LoopRuns, Zenon
  <2> HIDE DEF h, n
  <2>5. \A s \in SUBSET (1 .. n) :
          h[s] = IF s = {} THEN Head(points)
                 ELSE Closer(target, h[s \ {Max(s)}], points[Max(s)])
    BY <2>1, <2>4 DEF Looked
  <2>6. 0 \in G
    <3> DEFINE none == 1 .. 0
    <3>1. none = {} /\ none \in SUBSET (1 .. n) /\ 1 \in 1 .. n
      BY <2>1
    <3> HIDE DEF none
    <3>3. h[none] = points[1]
      BY <2>2, <2>5, <3>1
    <3>2. First(1, 0)
      OBVIOUS
    <3> QED
      BY <2>1, <3>1, <3>2, <3>3 DEF none
  <2>7. ASSUME NEW k \in 1 .. n, k - 1 \in G PROVE k \in G
    <3>1. PICK m \in 1 .. n : /\ m = 1 \/ m <= k - 1
                              /\ h[1 .. (k - 1)] = points[m] /\ First(m, k - 1)
      BY <2>7
    <3>2. Max(1 .. k) = k /\ (1 .. k) \ {k} = 1 .. (k - 1)
      BY <2>1, MaxOfPrefix
    <3>3. 1 .. k \in SUBSET (1 .. n) /\ 1 .. k # {}
      BY <2>1
    <3>4. h[1 .. k] = Closer(target, points[m], points[k])
      BY <2>5, <3>1, <3>2, <3>3
    <3>5. h[1 .. k] = IF dist(k) < dist(m) THEN points[k] ELSE points[m]
      BY <3>4 DEF Closer
    <3> HIDE DEF dist
    <3>6. CASE dist(k) < dist(m)
      <4>1. First(k, k)
        BY <2>1, <2>3, <3>1, <3>6
      <4> QED
        BY <2>1, <3>5, <3>6, <4>1
    <3>7. CASE ~(dist(k) < dist(m))
      <4>1. First(m, k)
        BY <2>1, <2>3, <3>1, <3>7
      <4>2. m = 1 \/ m <= k
        BY <2>1, <3>1
      <4> QED
        BY <2>1, <3>5, <3>7, <4>1, <4>2
    <3> QED
      BY <3>6, <3>7
  <2> HIDE DEF G
  <2>8. n \in G
    <3>1. \A k \in 0 .. n : k \in G
      BY <2>1, <2>6, <2>7, PositionsInTurn
    <3> QED
      BY <2>1, <3>1
  <2>9. PICK m \in 1 .. n : h[1 .. n] = points[m] /\ First(m, n)
    BY <2>8 DEF G
  <2>10. ClosestVolume(target, points) = points[m].volume
    BY <1>2, <2>1, <2>9, ClosestVolumeExpanded DEF h
  <2> QED
    BY <2>1, <2>9, <2>10 DEF IsNearest
<1> QED
  BY <1>1, <1>2

-----------------------------------------------------------------------------
(* The candles.                                                            *)

Sound(candles) ==
    /\ Len(candles) \in Nat /\ DOMAIN candles = 1 .. Len(candles)
    /\ candles = <<>> <=> Len(candles) = 0
    /\ \A i \in 1 .. Len(candles) :
          /\ candles[i].low \in Nat \ {0} /\ candles[i].close \in Nat
          /\ candles[i].high \in Nat /\ candles[i].volume \in Nat
          /\ candles[i].low <= candles[i].close /\ candles[i].close <= candles[i].high

LEMMA RepliesAreSound ==
    ASSUME StrategyAssumption, NEW ohlc \in Ohlc, NEW chart \in Chart
    PROVE  /\ Parsed(ohlc) \in Seq(Entry) /\ Parsed(chart) \in Seq(Point)
           /\ \A i \in 1 .. Len(Parsed(ohlc)) :
                 /\ Parsed(ohlc)[i] \in Entry
                 /\ Parsed(ohlc)[i].low <= Parsed(ohlc)[i].close
                 /\ Parsed(ohlc)[i].close <= Parsed(ohlc)[i].high
<1>1. Parsed(ohlc) \in Seq(Entry) /\ Parsed(chart) \in Seq(Point)
  BY DEF StrategyAssumption, Entry, Point
<1>2. \A i \in DOMAIN Parsed(ohlc) :
         /\ Parsed(ohlc)[i].low <= Parsed(ohlc)[i].close
         /\ Parsed(ohlc)[i].close <= Parsed(ohlc)[i].high
  BY DEF StrategyAssumption
<1> QED
  BY <1>1, <1>2

(* A nearest volume is the volume of a point, or 0.                        *)
LEMMA VolumeIsNatural ==
    ASSUME NEW target \in Int, NEW points \in Seq(Point)
    PROVE  ClosestVolume(target, points) \in Nat
<1>1. IsNearest(ClosestVolume(target, points), target, points)
  BY NearestFound
<1>2. CASE points = <<>>
  BY <1>2 DEF ClosestVolume
<1>3. CASE points # <<>>
  <2>1. PICK k \in DOMAIN points : ClosestVolume(target, points) = points[k].volume
    BY <1>1, <1>3 DEF IsNearest
  <2>2. points[k] \in Point
    OBVIOUS
  <2> QED
    BY <2>1, <2>2 DEF Point
<1> QED
  BY <1>2, <1>3

LEMMA CandlesAreSound ==
    ASSUME StrategyAssumption, NEW ohlc \in Ohlc, NEW chart \in Chart
    PROVE  /\ Sound(GetOHLCV(ohlc, chart))
           /\ Len(GetOHLCV(ohlc, chart)) = Len(Parsed(ohlc))
           /\ \A i \in DOMAIN Parsed(ohlc) :
                 IsNearest(GetOHLCV(ohlc, chart)[i].volume, Parsed(ohlc)[i].time,
                           Parsed(chart))
<1> DEFINE raw == Parsed(ohlc)
           points == Parsed(chart)
           volume(i) == ClosestVolume(raw[i].time, points)
           candles == GetOHLCV(ohlc, chart)
<1>1. /\ raw \in Seq(Entry) /\ points \in Seq(Point)
      /\ \A i \in 1 .. Len(raw) : /\ raw[i] \in Entry
                                 /\ raw[i].low <= raw[i].close
                                 /\ raw[i].close <= raw[i].high
  BY RepliesAreSound
<1>2. /\ candles = [i \in DOMAIN raw |->
                        [low |-> raw[i].low, close |-> raw[i].close,
                         high |-> raw[i].high, volume |-> volume(i)]]
  BY DEF GetOHLCV
<1> HIDE DEF raw, points, candles
<1>3. \A i \in 1 .. Len(raw) : volume(i) \in Nat /\ IsNearest(volume(i), raw[i].time, points)
  <2> SUFFICES ASSUME NEW i \in 1 .. Len(raw)
               PROVE  volume(i) \in Nat /\ IsNearest(volume(i), raw[i].time, points)
    OBVIOUS
  <2>1. raw[i].time \in Int
    BY <1>1 DEF Entry
  <2> QED
    BY <1>1, <2>1, VolumeIsNatural, NearestFound
<1> HIDE DEF volume
<1>4. Len(raw) \in Nat /\ DOMAIN raw = 1 .. Len(raw)
  BY <1>1
<1>5. /\ Len(candles) = Len(raw) /\ DOMAIN candles = 1 .. Len(raw)
      /\ candles = <<>> <=> Len(candles) = 0
  <2> DEFINE e(i) == [low |-> raw[i].low, close |-> raw[i].close,
                      high |-> raw[i].high, volume |-> volume(i)]
             n == Len(raw)
  <2>1. n \in Nat /\ candles = [i \in 1 .. n |-> e(i)]
    BY <1>2, <1>4
  <2> HIDE DEF e, n
  <2>2. Len(candles) = n /\ DOMAIN candles = 1 .. n
    BY <2>1
  <2>3. candles = <<>> <=> n = 0
    BY <2>1, <2>2
  <2> QED
    BY <2>2, <2>3 DEF n
<1>6. ASSUME NEW i \in 1 .. Len(raw)
      PROVE  /\ candles[i].low = raw[i].low /\ candles[i].close = raw[i].close
             /\ candles[i].high = raw[i].high /\ candles[i].volume = volume(i)
  BY <1>2, <1>4
<1>7. Sound(candles)
  <2>1. ASSUME NEW i \in 1 .. Len(raw)
        PROVE  /\ candles[i].low \in Nat \ {0} /\ candles[i].close \in Nat
               /\ candles[i].high \in Nat /\ candles[i].volume \in Nat
               /\ candles[i].low <= candles[i].close
               /\ candles[i].close <= candles[i].high
    <3>1. /\ raw[i].low \in Nat \ {0} /\ raw[i].close \in Nat /\ raw[i].high \in Nat
          /\ raw[i].low <= raw[i].close /\ raw[i].close <= raw[i].high
      BY <1>1 DEF Entry
    <3> QED
      BY <1>3, <1>6, <3>1
  <2>2. /\ Len(candles) \in Nat /\ DOMAIN candles = 1 .. Len(candles)
        /\ Len(candles) = Len(raw)
    BY <1>2, <1>4, <1>5
  <2> QED
    BY <1>5, <2>1, <2>2 DEF Sound
<1> QED
  BY <1>3, <1>4, <1>5, <1>6, <1>7 DEF raw, points, candles

-----------------------------------------------------------------------------
(* The average price.                                                      *)

Closes(candles) == [i \in DOMAIN candles |-> candles[i].close]

Volumes(candles) == [i \in DOMAIN candles |-> candles[i].volume]

Traded(candles) ==
    [i \in DOMAIN candles |->
        (candles[i].high + candles[i].low + candles[i].close) * candles[i].volume]

LEMMA VWAPExpanded ==
    ASSUME NEW candles
    PROVE  CalculateVWAP(candles) =
              LET S == DOMAIN candles
                  volume == SumFunctionOnSet(Volumes(candles), S)
              IN  CASE candles = <<>> -> Fraction(0, 1)
                    [] candles # <<>> /\ volume = 0 ->
                          Fraction(SumFunctionOnSet(Closes(candles), S), Len(candles))
                    [] OTHER ->
                          Fraction(SumFunctionOnSet(Traded(candles), S), 3 * volume)
<1>1. /\ DOMAIN Volumes(candles) = DOMAIN candles
      /\ DOMAIN Closes(candles) = DOMAIN candles
      /\ DOMAIN Traded(candles) = DOMAIN candles
  BY DEF Volumes, Closes, Traded
<1>2. /\ SumOf(candles, LAMBDA c : c.volume)
            = SumFunctionOnSet(Volumes(candles), DOMAIN candles)
      /\ SumOf(candles, LAMBDA c : c.close)
            = SumFunctionOnSet(Closes(candles), DOMAIN candles)
      /\ SumOf(candles, LAMBDA c : (c.high + c.low + c.close) * c.volume)
            = SumFunctionOnSet(Traded(candles), DOMAIN candles)
  BY <1>1, Zenon DEF SumOf, SumFunction, Volumes, Closes, Traded
<1> QED
  BY <1>2 DEF CalculateVWAP

(* A fraction of naturals, and less than any price above the window.       *)
LEMMA VWAPBounds ==
    ASSUME NEW candles, Sound(candles)
    PROVE  /\ CalculateVWAP(candles).num \in Nat
           /\ CalculateVWAP(candles).den \in Nat \ {0}
           /\ \A price \in Nat \ {0} :
                 (\A i \in DOMAIN candles : candles[i].high < price)
                 => CalculateVWAP(candles).num < price * CalculateVWAP(candles).den
<1> DEFINE S == DOMAIN candles
           volume == SumFunctionOnSet(Volumes(candles), S)
           closes == SumFunctionOnSet(Closes(candles), S)
           traded == SumFunctionOnSet(Traded(candles), S)
           n == Len(candles)
<1>1. S = 1 .. n /\ n \in Nat /\ (candles = <<>> <=> n = 0)
  BY DEF Sound
<1>2. IsFiniteSet(S) /\ Cardinality(S) = n
  <2> DEFINE a == 1
  <2>1. a \in Int /\ n \in Int
    BY <1>1
  <2> HIDE DEF a, n
  <2>2. IsFiniteSet(a .. n) /\ Cardinality(a .. n) = IF a > n THEN 0 ELSE n - a + 1
    BY <2>1, FS_Interval
  <2> QED
    BY <1>1, <2>2 DEF a
<1>3. \A i \in S : /\ candles[i].low \in Nat /\ candles[i].close \in Nat
                  /\ candles[i].high \in Nat /\ candles[i].volume \in Nat
                  /\ candles[i].low <= candles[i].close
                  /\ candles[i].close <= candles[i].high
  BY DEF Sound
<1>4. \A i \in S : /\ Volumes(candles)[i] = candles[i].volume
                  /\ Closes(candles)[i] = candles[i].close
                  /\ Traded(candles)[i] = (candles[i].high + candles[i].low + candles[i].close)
                                            * candles[i].volume
  BY DEF Volumes, Closes, Traded
<1>5. \A i \in S : /\ Volumes(candles)[i] \in Nat /\ Closes(candles)[i] \in Nat
                  /\ Traded(candles)[i] \in Nat
  BY <1>3, <1>4
<1>6. volume \in Nat /\ closes \in Nat /\ traded \in Nat
  BY <1>2, <1>5, SumOfNaturals
<1>7. CalculateVWAP(candles) =
        CASE candles = <<>> -> Fraction(0, 1)
          [] candles # <<>> /\ volume = 0 -> Fraction(closes, n)
          [] OTHER -> Fraction(traded, 3 * volume)
  BY VWAPExpanded
<1> HIDE DEF S, volume, closes, traded, n
<1>8. CASE candles = <<>>
  BY <1>7, <1>8 DEF Fraction
<1>9. CASE candles # <<>> /\ volume = 0
  <2>1. CalculateVWAP(candles).num = closes /\ CalculateVWAP(candles).den = n
    BY <1>7, <1>9 DEF Fraction
  <2>2. n \in Nat \ {0}
    BY <1>1, <1>9
  <2>3. ASSUME NEW price \in Nat \ {0}, \A i \in S : candles[i].high < price
        PROVE  closes < price * n
    <3> DEFINE b == price - 1
    <3>1. b \in Int /\ \A i \in S : Closes(candles)[i] \in Int /\ Closes(candles)[i] <= b
      BY <1>3, <1>4, <2>3
    <3> HIDE DEF b
    <3>2. closes <= n * b
      BY <1>2, <3>1, SumAtMost DEF closes
    <3>3. n * (price - 1) = price * n - n
      BY <2>2
    <3> QED
      BY <1>6, <2>2, <3>2, <3>3 DEF b
  <2> QED
    BY <1>6, <2>1, <2>2, <2>3 DEF S
<1>10. CASE candles # <<>> /\ volume # 0
  <2>1. CalculateVWAP(candles).num = traded /\ CalculateVWAP(candles).den = 3 * volume
    BY <1>7, <1>10 DEF Fraction
  <2>2. ASSUME NEW price \in Nat \ {0}, \A i \in S : candles[i].high < price
        PROVE  traded < price * (3 * volume)
    <3> DEFINE b == 3 * (price - 1)
    <3>1. b \in Int
      OBVIOUS
    <3>2. ASSUME NEW i \in S
          PROVE  /\ Traded(candles)[i] \in Int /\ Volumes(candles)[i] \in Int
                 /\ Traded(candles)[i] <= b * Volumes(candles)[i]
      <4> DEFINE p == candles[i].high + candles[i].low + candles[i].close
                 v == candles[i].volume
      <4>1. p \in Nat /\ v \in Nat /\ p <= b
        BY <1>3, <2>2
      <4>2. Traded(candles)[i] = p * v /\ Volumes(candles)[i] = v
        BY <1>4
      <4> HIDE DEF p, v, b
      <4>3. p * v <= b * v
        BY <3>1, <4>1
      <4> QED
        BY <1>5, <4>2, <4>3
    <3> HIDE DEF b
    <3>3. traded <= b * volume
      BY <1>2, <3>1, <3>2, SumScaledAbove DEF traded, volume
    <3>4. b * volume = price * (3 * volume) - 3 * volume
      BY <1>6 DEF b
    <3> QED
      BY <1>6, <1>10, <3>1, <3>3, <3>4
  <2> QED
    BY <1>6, <1>10, <2>1, <2>2 DEF S
<1> QED
  BY <1>8, <1>9, <1>10

-----------------------------------------------------------------------------
(* The budget.                                                             *)

LEMMA Products ==
    ASSUME NEW a \in Nat
    PROVE  /\ \A b \in Nat : a * b \in Nat
           /\ \A x, y \in Int : /\ a * x \in Int /\ x * a \in Int
                                /\ x <= y => a * x <= a * y /\ x * a <= y * a
  OBVIOUS

LEMMA Scaled ==
    ASSUME NEW a \in Nat, NEW x \in Nat, NEW y \in Nat, x <= y
    PROVE  /\ x * a \in Nat /\ y * a \in Nat /\ x * a <= y * a
           /\ (x + 1) * a = x * a + a
  BY Products

(* The cycles of the days before and of this one.                          *)
LEMMA CyclesCounted ==
    ASSUME NEW days \in Nat, NEW c \in Nat, NEW d \in 1 .. days, NEW k \in 0 .. c
    PROVE  /\ (d - 1) * c + k \in Nat /\ d * c \in Nat /\ days * c \in Nat
           /\ (d - 1) * c + k <= d * c /\ d * c <= days * c
           /\ (d - 1) * c + (k + 1) = ((d - 1) * c + k) + 1
           /\ (d + 1 - 1) * c + 0 = d * c
<1> DEFINE before == (d - 1) * c
           now == d * c
           all == days * c
<1>1. d - 1 \in Nat /\ d \in Nat /\ d <= days /\ k \in Nat /\ k <= c
  OBVIOUS
<1>2. before \in Nat /\ now \in Nat /\ all \in Nat /\ now <= all
  BY <1>1, Scaled, Products
<1>3. before + c = now
  BY <1>1
<1>4. (d + 1 - 1) * c = now
  BY <1>1
<1> HIDE DEF before, now, all
<1>5. /\ before + k \in Nat /\ before + k <= now /\ before + (k + 1) = (before + k) + 1
      /\ now + 0 = now
  BY <1>1, <1>2, <1>3
<1> QED
  BY <1>2, <1>4, <1>5 DEF before, now, all

(* What the day's and the daily share of a budget are multiplied with.     *)
LEMMA ScalesAreSound ==
    ASSUME StrategyAssumption
    PROVE  /\ Days \in Nat \ {0} /\ CyclesPerDay \in Nat \ {0}
           /\ Vol \subseteq Nat
  BY DEF StrategyAssumption

(* Dollars in the units of money.                                          *)
LEMMA DollarsAreSound ==
    ASSUME StrategyAssumption
    PROVE  /\ \A n \in Nat : 200 * Days * n \in Nat
           /\ \A n \in Int : 200 * Days * n \in Int
<1>1. Days \in Nat \ {0} /\ CyclesPerDay \in Nat \ {0} /\ Vol \subseteq Nat
  BY ScalesAreSound
<1> DEFINE scale == 200 * Days
<1>2. scale \in Nat
  BY <1>1
<1> HIDE DEF scale
<1>3. (\A n \in Nat : scale * n \in Nat) /\ (\A n \in Int : scale * n \in Int)
  BY <1>2, Products
<1> QED
  BY <1>1, <1>3 DEF scale

LEMMA ConfigIsSound ==
    ASSUME StrategyAssumption, NEW c \in Load(File)
    PROVE  /\ \A r \in Regime : TwiceMid(c, r) \in Int
           /\ c.annualBudget \in Nat \ {0} /\ c.baseDiscount \in Nat
           /\ c.volScalingFactor \in Int /\ c.minExecutionSize \in Int
<1>1. IsConfig(c) /\ Validate(c)
  BY DEF StrategyAssumption, Load
<1>2. /\ c.annualBudget \in Int /\ c.volScalingFactor \in Int
      /\ c.minExecutionSize \in Int /\ c.baseDiscount \in Int
  BY <1>1 DEF IsConfig
<1>4. c.annualBudget > 0 /\ c.baseDiscount \in 0 .. 100
  BY <1>1 DEF Validate
<1>5. c.baseDiscount \in Nat
  BY <1>4, 0 .. 100 \subseteq Nat
<1>3. ASSUME NEW r \in Regime PROVE TwiceMid(c, r) \in Int
  <2>1. r \in DOMAIN c.multipliers
    BY <1>1 DEF Validate
  <2>2. c.multipliers[r].min \in Int /\ c.multipliers[r].max \in Int
    BY <1>1, <2>1 DEF IsConfig
  <2> QED
    BY <2>2 DEF TwiceMid
<1> QED
  BY <1>1, <1>2, <1>3, <1>4, <1>5

(* No multiplier is above Most.                                            *)
LEMMA MostIsMost ==
    ASSUME StrategyAssumption, cfg \in Load(File)
    PROVE  /\ Most \in Nat /\ \A r \in Regime : TwiceMid(cfg, r) <= Most
           /\ Most \in {0} \cup {TwiceMid(cfg, r) : r \in Regime}
<1> DEFINE M == {0} \cup {TwiceMid(cfg, r) : r \in Regime}
<1>1. M \in SUBSET Int
  BY ConfigIsSound
<1>2. M = {0} \cup {TwiceMid(cfg, "accumulation")} \cup {TwiceMid(cfg, "distribution")}
           \cup {TwiceMid(cfg, "markdown")} \cup {TwiceMid(cfg, "markup")}
  BY DEF Regime
<1>3. IsFiniteSet(M)
  BY <1>2, FS_Singleton, FS_Union
<1>4. 0 \in M /\ \A r \in Regime : TwiceMid(cfg, r) \in M
  OBVIOUS
<1>5. Most = Max(M)
  BY DEF Most
<1> HIDE DEF M
<1>6. Most \in M /\ \A y \in M : y <= Most
  BY <1>1, <1>3, <1>4, <1>5, MaxOfFinite
<1> QED
  <2>1. Most \in Int /\ 0 <= Most /\ \A r \in Regime : TwiceMid(cfg, r) <= Most
    BY <1>1, <1>4, <1>6
  <2> QED
    BY <1>6, <2>1 DEF M

LEMMA BudgetBounds ==
    ASSUME StrategyAssumption, cfg \in Load(File), NEW regime \in Regime, NEW depth \in Depth
    PROVE  /\ AdjustedBudget(regime, depth) \in Int
           /\ AdjustedBudget(regime, depth) <= cfg.annualBudget * Most
           /\ \A calm \in Regime :
                 TwiceMid(cfg, calm) >= TwiceMid(cfg, regime)
                 => AdjustedBudget(calm, depth) >= AdjustedBudget(regime, depth)
<1> DEFINE a == cfg.annualBudget
           shown == 200 * Days * depth
           budget(r) == a * TwiceMid(cfg, r)
           top == a * Most
<1>1. /\ a \in Nat \ {0} /\ Most \in Nat
      /\ \A r \in Regime : TwiceMid(cfg, r) \in Int /\ TwiceMid(cfg, r) <= Most
  BY ConfigIsSound, MostIsMost
<1>2. shown \in Nat
  <2>1. depth \in Nat
    BY DEF StrategyAssumption
  <2> QED
    BY <2>1, DollarsAreSound
<1>3. \A r \in Regime : AdjustedBudget(r, depth) =
        IF budget(r) > 0 /\ shown < budget(r) THEN shown ELSE budget(r)
  BY DEF AdjustedBudget
<1> HIDE DEF shown, a
<1>4. /\ top \in Nat
      /\ \A r \in Regime : budget(r) \in Int /\ budget(r) <= top
  BY <1>1, Products
<1>5. \A r \in Regime : TwiceMid(cfg, r) >= TwiceMid(cfg, regime) => budget(r) >= budget(regime)
  BY <1>1, Products
<1> HIDE DEF budget, top
<1>6. \A r \in Regime : AdjustedBudget(r, depth) \in Int /\ AdjustedBudget(r, depth) <= top
  <2> SUFFICES ASSUME NEW r \in Regime
               PROVE  AdjustedBudget(r, depth) \in Int /\ AdjustedBudget(r, depth) <= top
    OBVIOUS
  <2>1. budget(r) \in Int /\ budget(r) <= top /\ shown \in Int /\ top \in Int
    BY <1>2, <1>4
  <2>2. CASE budget(r) > 0 /\ shown < budget(r)
    <3>1. AdjustedBudget(r, depth) = shown
      BY <1>3, <2>2
    <3> QED
      BY <2>1, <2>2, <3>1
  <2>3. CASE ~(budget(r) > 0 /\ shown < budget(r))
    <3>1. AdjustedBudget(r, depth) = budget(r)
      BY <1>3, <2>3
    <3> QED
      BY <2>1, <3>1
  <2> QED
    BY <2>2, <2>3
<1>7. \A r \in Regime : budget(r) >= budget(regime)
                         => AdjustedBudget(r, depth) >= AdjustedBudget(regime, depth)
  BY <1>2, <1>3, <1>4
<1> QED
  BY <1>5, <1>6, <1>7 DEF a, top

-----------------------------------------------------------------------------
(* What is bought, and at which prices.                                    *)

(* A market that some cycle may find.                                      *)
IsMarket(m) ==
    /\ Sound(m.ohlcv)
    /\ m.regime \in Regime /\ m.vol \in Vol
    /\ m.price \in Nat \ {0} /\ m.depth \in Depth

Share(regime) == CASE regime = "accumulation" -> 1 [] regime = "markup" -> 3 [] OTHER -> 2

Patience(m) == Discount(m.vol, m.regime)

(* The price is at most the average less the discount.                     *)
Cheap(m, discount) ==
    LET vwap == CalculateVWAP(m.ohlcv)
    IN  m.price * (vwap.den * 2000) <= vwap.num * (2000 - discount)

LEMMA BoughtExpanded ==
    ASSUME NEW m
    PROVE  Bought(m) = IF /\ Cheap(m, Patience(m))
                          /\ AdjustedBudget(m.regime, m.depth) >= 200 * Days * cfg.minExecutionSize
                       THEN AdjustedBudget(m.regime, m.depth) ELSE 0
  BY DEF Bought, Cheap, Patience, ShouldExecute, CalculateTargetPrice, Fraction

LEMMA BoughtBounds ==
    ASSUME StrategyAssumption, cfg \in Load(File), NEW m, IsMarket(m)
    PROVE  /\ Bought(m) \in Int /\ Bought(m) <= cfg.annualBudget * Most
           /\ cfg.minExecutionSize >= 0 => Bought(m) >= 0
           /\ Bought(m) > 0 => Cheap(m, Patience(m))
<1> DEFINE budget == AdjustedBudget(m.regime, m.depth)
           least == 200 * Days * cfg.minExecutionSize
<1>1. budget \in Int /\ budget <= cfg.annualBudget * Most
  BY BudgetBounds DEF IsMarket
<1>2. /\ least \in Int /\ cfg.annualBudget * Most \in Nat
      /\ cfg.minExecutionSize >= 0 => least >= 0
  <2>1. cfg.minExecutionSize \in Int
    BY ConfigIsSound
  <2>2. least \in Int /\ (cfg.minExecutionSize \in Nat => least \in Nat)
    BY <2>1, DollarsAreSound
  <2>3. cfg.annualBudget * Most \in Nat
    BY ConfigIsSound, MostIsMost, Products
  <2> HIDE DEF least
  <2> QED
    BY <2>1, <2>2, <2>3
<1>3. Bought(m) = IF Cheap(m, Patience(m)) /\ budget >= least THEN budget ELSE 0
  BY BoughtExpanded
<1> HIDE DEF budget, least
<1> QED
  BY <1>1, <1>2, <1>3

(* With a scaling factor of 0 or more, discounts are 0 or more, volatility *)
(* adds to them and markup triples what accumulation asks for.             *)
LEMMA DiscountBounds ==
    ASSUME StrategyAssumption, cfg \in Load(File), cfg.volScalingFactor >= 0,
           NEW vol \in Vol, NEW regime \in Regime
    PROVE  /\ Discount(vol, regime) \in Nat
           /\ Discount(vol, "accumulation") \in Nat
           /\ Discount(vol, "accumulation") <= Discount(vol, regime)
           /\ \A calmer \in Vol : calmer <= vol =>
                 /\ Discount(calmer, regime) \in Nat
                 /\ Discount(calmer, regime) <= Discount(vol, regime)
<1> DEFINE f == cfg.volScalingFactor
           base(v) == 10 * cfg.baseDiscount + v * f
<1>1. f \in Nat /\ cfg.baseDiscount \in Nat /\ Vol \subseteq Nat
  <2>1. f \in Int /\ f >= 0 /\ cfg.baseDiscount \in Nat
    BY ConfigIsSound
  <2> HIDE DEF f
  <2> QED
    BY <2>1, ScalesAreSound
<1> HIDE DEF f
<1>2. \A v \in Vol : v * f \in Nat
  BY <1>1, Products
<1>3. \A v \in Vol : base(v) \in Nat
  BY <1>1, <1>2
<1>4. \A v \in Vol : v <= vol => v * f <= vol * f
  BY <1>1, Products
<1>5. \A v \in Vol : v <= vol => base(v) <= base(vol)
  <2> SUFFICES ASSUME NEW v \in Vol, v <= vol PROVE base(v) <= base(vol)
    OBVIOUS
  <2> DEFINE x == v * f
             y == vol * f
  <2>1. x \in Nat /\ y \in Nat /\ x <= y
    BY <1>2, <1>4
  <2> HIDE DEF x, y
  <2>2. 10 * cfg.baseDiscount + x <= 10 * cfg.baseDiscount + y
    BY <1>1, <2>1
  <2> QED
    BY <2>2 DEF x, y
<1>6. \A v \in Vol, r \in Regime : Discount(v, r) = base(v) * Share(r)
  BY DEF Discount, Share, f
<1>7. /\ \A r \in Regime : Share(r) \in {1, 2, 3}
      /\ Share("accumulation") = 1 /\ "accumulation" \in Regime
  BY DEF Share, Regime
<1> HIDE DEF base
<1>8. \A v \in Vol, r \in Regime : Discount(v, r) \in Nat
  <2> SUFFICES ASSUME NEW v \in Vol, NEW r \in Regime PROVE Discount(v, r) \in Nat
    OBVIOUS
  <2>1. base(v) \in Nat /\ Share(r) \in Nat
    BY <1>3, <1>7
  <2> QED
    BY <1>6, <2>1, Products
<1>9. Discount(vol, "accumulation") <= Discount(vol, regime)
  BY <1>3, <1>6, <1>7
<1>10. \A v \in Vol : v <= vol => Discount(v, regime) <= Discount(vol, regime)
  BY <1>3, <1>5, <1>6, <1>7
<1> QED
  BY <1>7, <1>8, <1>9, <1>10

(* What is cheap enough after a discount is so after any smaller one.      *)
LEMMA CheapAfterLess ==
    ASSUME NEW m, Sound(m.ohlcv), m.price \in Nat \ {0},
           NEW d \in Int, Cheap(m, d), NEW e \in Int, e <= d
    PROVE  Cheap(m, e)
<1> DEFINE num == CalculateVWAP(m.ohlcv).num
           den == CalculateVWAP(m.ohlcv).den
<1>1. num \in Nat /\ den \in Nat
  BY VWAPBounds
<1>2. m.price * (den * 2000) <= num * (2000 - d)
  BY DEF Cheap
<1> HIDE DEF num, den
<1>3. m.price * (den * 2000) \in Int
  BY <1>1
<1>4. num * (2000 - d) <= num * (2000 - e)
  BY <1>1
<1>5. m.price * (den * 2000) <= num * (2000 - e)
  BY <1>1, <1>2, <1>3, <1>4
<1> QED
  BY <1>5 DEF Cheap, num, den

-----------------------------------------------------------------------------
(* The inductive invariant.                                                *)

(* The market is what the day's latest cycle made of its replies, and the  *)
(* amount what that market makes it buy.                                   *)
Decided ==
    \/ feed = <<>> /\ market = <<>> /\ bought = 0
    \/ /\ feed \in [ohlc : Ohlc, chart : Chart]
       /\ market = [ohlcv |-> GetOHLCV(feed.ohlc, feed.chart), regime |-> market.regime,
                    vol |-> market.vol, price |-> market.price, depth |-> market.depth]
       /\ IsMarket(market)
       /\ bought = Bought(market)

(* How many cycles there can have been after the k-th one of day d.        *)
Runs(d, k) == (d - 1) * CyclesPerDay + k

(* So far no cycle bought for more than the largest budget.                *)
Spending ==
    /\ spent \in Int
    /\ cfg.minExecutionSize >= 0 => bought <= spent /\ 0 <= spent
    /\ spent <= Runs(day, cycle) * (cfg.annualBudget * Most)

IInv ==
    /\ cfg \in Load(File)
    /\ day \in 1 .. Days /\ cycle \in 0 .. CyclesPerDay
    /\ Decided
    /\ Spending

LEMMA RunsCounted ==
    ASSUME StrategyAssumption, NEW d \in 1 .. Days, NEW k \in 0 .. CyclesPerDay
    PROVE  /\ Runs(d, k) \in Nat /\ Runs(d, k) <= Days * CyclesPerDay
           /\ Days * CyclesPerDay \in Nat
           /\ Runs(d, k + 1) = Runs(d, k) + 1
           /\ Runs(d + 1, 0) \in Nat /\ Runs(d, k) <= Runs(d + 1, 0)
           /\ Runs(1, 0) = 0
<1> DEFINE c == CyclesPerDay
           run == (d - 1) * c + k
           now == d * c
           all == Days * c
<1>1. Days \in Nat /\ c \in Nat
  BY ScalesAreSound
<1>2. /\ run \in Nat /\ now \in Nat /\ all \in Nat /\ run <= now /\ now <= all
      /\ (d - 1) * c + (k + 1) = run + 1 /\ (d + 1 - 1) * c + 0 = now
  <2>1. /\ (d - 1) * c + k \in Nat /\ d * c \in Nat /\ Days * c \in Nat
        /\ (d - 1) * c + k <= d * c /\ d * c <= Days * c
        /\ (d - 1) * c + (k + 1) = ((d - 1) * c + k) + 1
        /\ (d + 1 - 1) * c + 0 = d * c
    <3>1. k \in 0 .. c
      OBVIOUS
    <3> HIDE DEF c
    <3> QED
      BY <1>1, <3>1, CyclesCounted
  <2> QED
    BY <2>1
<1>3. /\ Runs(d, k) = run /\ Runs(d, k + 1) = (d - 1) * c + (k + 1)
      /\ Runs(d + 1, 0) = (d + 1 - 1) * c + 0
      /\ Days * CyclesPerDay = all
  BY DEF Runs
<1>4. Runs(1, 0) = 0
  BY <1>1 DEF Runs
<1> HIDE DEF run, now, all
<1>5. run <= all
  BY <1>2
<1> QED
  BY <1>2, <1>3, <1>4, <1>5

LEMMA InitInv ==
    ASSUME StrategyAssumption, Init
    PROVE  IInv
<1>1. cfg \in Load(File) /\ day = 1 /\ cycle = 0
  BY DEF Init
<1>2. Decided
  BY DEF Init, Decided
<1> DEFINE top == cfg.annualBudget * Most
<1>3. top \in Nat
  BY <1>1, ConfigIsSound, MostIsMost, Products
<1> HIDE DEF top
<1>4. Runs(day, cycle) = 0
  <2>1. 1 \in 1 .. Days /\ 0 \in 0 .. CyclesPerDay
    BY ScalesAreSound
  <2>2. Runs(1, 0) = 0
    BY <2>1, RunsCounted
  <2> QED
    BY <1>1, <2>2
<1>5. spent = 0 /\ bought = 0 /\ 0 <= 0 * top
  BY <1>3 DEF Init
<1>6. Spending
  BY <1>4, <1>5 DEF Spending, top
<1> QED
  BY <1>1, <1>2, <1>6, ScalesAreSound DEF IInv

(* The market of a cycle has candles in order and a price above 0.         *)
LEMMA MarketIsSound ==
    ASSUME StrategyAssumption, NEW ohlc \in Ohlc, NEW chart \in Chart,
           NEW regime \in Regime, NEW quote \in Quote \cup {NoQuote}, NEW depth \in Depth,
           NEW vol \in Vol, quote # NoQuote \/ GetOHLCV(ohlc, chart) # <<>>
    PROVE  IsMarket([ohlcv |-> GetOHLCV(ohlc, chart), regime |-> regime, vol |-> vol,
                     price |-> CurrentPrice(quote, GetOHLCV(ohlc, chart)), depth |-> depth])
<1> DEFINE candles == GetOHLCV(ohlc, chart)
<1>1. Sound(candles)
  BY CandlesAreSound
<1>2. CurrentPrice(quote, candles) \in Nat \ {0}
  <2>1. CASE quote # NoQuote
    BY <2>1 DEF CurrentPrice, StrategyAssumption
  <2>2. CASE quote = NoQuote
    <3>1. candles # <<>> /\ CurrentPrice(quote, candles) = candles[Len(candles)].close
      BY <2>2 DEF CurrentPrice
    <3> HIDE DEF candles
    <3>2. Len(candles) \in 1 .. Len(candles)
      BY <1>1, <3>1 DEF Sound
    <3> DEFINE last == Len(candles)
    <3> HIDE DEF last
    <3>3. /\ candles[last].low \in Nat \ {0} /\ candles[last].close \in Nat
          /\ candles[last].low <= candles[last].close
      BY <1>1, <3>2 DEF Sound, last
    <3>4. candles[last].close \in Nat \ {0}
      BY <3>3
    <3> QED
      BY <3>1, <3>4 DEF last
  <2> QED
    BY <2>1, <2>2
<1> HIDE DEF candles
<1> QED
  BY <1>1, <1>2 DEF IsMarket, candles

LEMMA RunCycleInv ==
    ASSUME StrategyAssumption, IInv, RunCycle
    PROVE  IInv'
<1>1. /\ cfg' = cfg /\ day' = day /\ cycle' = cycle + 1 /\ cycle < CyclesPerDay
      /\ spent' = spent + bought'
  BY DEF RunCycle
<1>2. cfg \in Load(File) /\ day \in 1 .. Days /\ cycle \in 0 .. CyclesPerDay
  BY DEF IInv
<1>3. PICK ohlc \in Ohlc, chart \in Chart :
        /\ feed' = [ohlc |-> ohlc, chart |-> chart]
        /\ \E regime \in Regime, quote \in Quote \cup {NoQuote}, depth \in Depth,
              vol \in IF Steady(GetOHLCV(ohlc, chart)) THEN {0} ELSE Vol :
              /\ quote # NoQuote \/ GetOHLCV(ohlc, chart) # <<>>
              /\ market' = [ohlcv |-> GetOHLCV(ohlc, chart), regime |-> regime, vol |-> vol,
                            price |-> CurrentPrice(quote, GetOHLCV(ohlc, chart)),
                            depth |-> depth]
              /\ bought' = Bought(market')
  BY DEF RunCycle
<1>4. PICK regime \in Regime, quote \in Quote \cup {NoQuote}, depth \in Depth,
           vol \in IF Steady(GetOHLCV(ohlc, chart)) THEN {0} ELSE Vol :
        /\ quote # NoQuote \/ GetOHLCV(ohlc, chart) # <<>>
        /\ market' = [ohlcv |-> GetOHLCV(ohlc, chart), regime |-> regime, vol |-> vol,
                      price |-> CurrentPrice(quote, GetOHLCV(ohlc, chart)), depth |-> depth]
        /\ bought' = Bought(market')
  BY <1>3
<1>5. vol \in Vol
  BY DEF StrategyAssumption
<1>6. IsMarket(market')
  BY <1>4, <1>5, MarketIsSound
<1>7. Decided'
  <2>1. /\ feed' \in [ohlc : Ohlc, chart : Chart]
        /\ feed'.ohlc = ohlc /\ feed'.chart = chart
    BY <1>3
  <2>2. market' = [ohlcv |-> GetOHLCV(feed'.ohlc, feed'.chart), regime |-> market'.regime,
                   vol |-> market'.vol, price |-> market'.price, depth |-> market'.depth]
    BY <1>4, <2>1
  <2>3. Bought(market)' = Bought(market')
    BY <1>1 DEF Bought, AdjustedBudget, CalculateTargetPrice, Discount
  <2>4. IsMarket(market)'
    BY <1>6 DEF IsMarket
  <2> QED
    BY <1>4, <2>1, <2>2, <2>3, <2>4 DEF Decided
<1>8. Spending'
  <2> DEFINE top == cfg.annualBudget * Most
  <2>1. top' = top
    BY <1>1 DEF Most
  <2>2. /\ bought' \in Int /\ bought' <= top /\ top \in Nat
        /\ cfg.minExecutionSize >= 0 => bought' >= 0
    BY <1>2, <1>4, <1>6, BoughtBounds, ConfigIsSound, MostIsMost, Products
  <2> DEFINE r == Runs(day, cycle)
             b == bought'
             upto == r * top
  <2>3. r \in Nat /\ Runs(day, cycle)' = r + 1
    <3>1. Runs(day, cycle + 1) = r + 1 /\ r \in Nat
      BY <1>2, RunsCounted
    <3> QED
      BY <1>1, <3>1 DEF Runs
  <2>4. /\ spent \in Int /\ spent <= r * top
        /\ cfg.minExecutionSize >= 0 => 0 <= spent
    BY DEF IInv, Spending
  <2> HIDE DEF top, r, b
  <2>5. upto \in Nat /\ (r + 1) * top = upto + top
    BY <2>2, <2>3, Scaled
  <2>6. /\ b \in Int /\ b <= top /\ spent \in Int /\ spent <= upto /\ top \in Nat
        /\ cfg.minExecutionSize >= 0 => b >= 0 /\ spent >= 0
    BY <2>2, <2>4 DEF b
  <2> HIDE DEF upto
  <2>7. /\ spent + b \in Int /\ spent + b <= upto + top
        /\ cfg.minExecutionSize >= 0 => b <= spent + b /\ 0 <= spent + b
    BY <2>5, <2>6
  <2>8. /\ spent' \in Int
        /\ cfg'.minExecutionSize >= 0 => bought' <= spent' /\ 0 <= spent'
    BY <1>1, <2>7 DEF b
  <2>9. spent' <= Runs(day, cycle)' * top'
    BY <1>1, <2>1, <2>3, <2>5, <2>7 DEF b
  <2> QED
    BY <2>8, <2>9 DEF Spending, top
<1>9. cfg' \in Load(File) /\ day' \in 1 .. Days /\ cycle' \in 0 .. CyclesPerDay
  BY <1>1, <1>2, ScalesAreSound
<1> QED
  BY <1>7, <1>8, <1>9 DEF IInv

LEMMA NextDayInv ==
    ASSUME StrategyAssumption, IInv, NextDay
    PROVE  IInv'
<1>1. /\ cfg' = cfg /\ day' = day + 1 /\ cycle' = 0 /\ spent' = spent /\ day < Days
      /\ feed' = <<>> /\ market' = <<>> /\ bought' = 0
  BY DEF NextDay
<1>2. cfg \in Load(File) /\ day \in 1 .. Days /\ cycle \in 0 .. CyclesPerDay
  BY DEF IInv
<1>3. Decided'
  BY <1>1 DEF Decided
<1>4. Spending'
  <2> DEFINE top == cfg.annualBudget * Most
  <2>1. top' = top
    BY <1>1 DEF Most
  <2>2. top \in Nat
    BY <1>2, ConfigIsSound, MostIsMost, Products
  <2> DEFINE r == Runs(day, cycle)
             s == Runs(day, cycle)'
  <2>3. /\ r \in Nat /\ Runs(day + 1, 0) \in Nat /\ r <= Runs(day + 1, 0)
    BY <1>2, RunsCounted
  <2>4. r \in Nat /\ s \in Nat /\ r <= s
    BY <1>1, <2>3 DEF Runs
  <2>5. spent \in Int /\ spent <= r * top
    BY DEF IInv, Spending
  <2> HIDE DEF top, r, s
  <2>6. r * top \in Nat /\ s * top \in Nat /\ r * top <= s * top
    BY <2>2, <2>4, Scaled
  <2>7. spent <= s * top
    BY <2>5, <2>6
  <2>8. cfg'.minExecutionSize >= 0 => bought' <= spent' /\ 0 <= spent'
    BY <1>1 DEF IInv, Spending
  <2> QED
    BY <1>1, <2>1, <2>5, <2>7, <2>8 DEF Spending, top, s
<1>5. cfg' \in Load(File) /\ day' \in 1 .. Days /\ cycle' \in 0 .. CyclesPerDay
  BY <1>1, <1>2, ScalesAreSound
<1> QED
  BY <1>3, <1>4, <1>5 DEF IInv

(* What holds of the market and of the amounts in every reachable state.   *)
THEOREM Invariance == Spec => []IInv
<1>1. Init => IInv
  BY StrategyAssumption, InitInv
<1>2. IInv /\ [Next]_vars => IInv'
  <2> SUFFICES ASSUME IInv, [Next]_vars PROVE IInv'
    OBVIOUS
  <2>1. CASE RunCycle
    BY <2>1, StrategyAssumption, RunCycleInv
  <2>2. CASE NextDay
    BY <2>2, StrategyAssumption, NextDayInv
  <2>3. CASE UNCHANGED vars
    <3>1. /\ cfg' = cfg /\ day' = day /\ cycle' = cycle /\ feed' = feed
          /\ market' = market /\ bought' = bought /\ spent' = spent
      BY <2>3 DEF vars
    <3>2. Decided'
      BY <3>1 DEF IInv, Decided, Bought, AdjustedBudget, CalculateTargetPrice, Discount, IsMarket
    <3>3. Spending'
      BY <3>1 DEF IInv, Spending, Runs, Most
    <3> QED
      BY <3>1, <3>2, <3>3 DEF IInv
  <2> QED
    BY <2>1, <2>2, <2>3 DEF Next
<1> QED
  BY <1>1, <1>2, PTL DEF Spec

-----------------------------------------------------------------------------
(* The properties.                                                         *)

(* A cycle that bought something has a market, which was cheap enough.     *)
LEMMA BoughtInMarket ==
    ASSUME IInv, bought > 0
    PROVE  /\ IsMarket(market) /\ bought = Bought(market) /\ Cheap(market, Patience(market))
           /\ cfg \in Load(File)
           /\ market = [ohlcv |-> market.ohlcv, regime |-> market.regime, vol |-> market.vol,
                        price |-> market.price, depth |-> market.depth]
<1>1. ~(bought = 0)
  OBVIOUS
<1>2. /\ IsMarket(market) /\ bought = Bought(market)
      /\ market = [ohlcv |-> GetOHLCV(feed.ohlc, feed.chart), regime |-> market.regime,
                   vol |-> market.vol, price |-> market.price, depth |-> market.depth]
  BY <1>1 DEF IInv, Decided
<1>3. cfg \in Load(File)
  BY DEF IInv
<1>4. Cheap(market, Patience(market))
  BY <1>2, <1>3, StrategyAssumption, BoughtBounds
<1>5. market.ohlcv = GetOHLCV(feed.ohlc, feed.chart)
  BY <1>2
<1> QED
  BY <1>2, <1>3, <1>4, <1>5

(* No cycle buys for more than its multiplier gives, nor, with a minimum   *)
(* size that is not negative, for a negative budget.                       *)
THEOREM TypeCorrect == Spec => []TypeOK
<1>1. IInv => TypeOK
  <2> SUFFICES ASSUME IInv PROVE TypeOK
    OBVIOUS
  <2> DEFINE top == cfg.annualBudget * Most
             all == Days * CyclesPerDay
  <2>1. cfg \in Load(File) /\ day \in 1 .. Days /\ cycle \in 0 .. CyclesPerDay
    BY DEF IInv
  <2>2. top \in Nat /\ Days * CyclesPerDay * cfg.annualBudget * Most = all * top
    <3>1. cfg.annualBudget \in Nat /\ Most \in Nat
      BY <2>1, StrategyAssumption, ConfigIsSound, MostIsMost
    <3>2. all \in Nat
      BY StrategyAssumption, ScalesAreSound, Products
    <3> HIDE DEF all
    <3>3. all * cfg.annualBudget * Most = all * (cfg.annualBudget * Most)
      BY <3>1, <3>2
    <3> QED
      BY <3>1, <3>3, Products DEF all
  <2> DEFINE r == Runs(day, cycle)
  <2>3. r \in Nat /\ all \in Nat /\ r <= all
    BY <2>1, StrategyAssumption, RunsCounted
  <2>4. /\ spent \in Int /\ spent <= r * top
        /\ cfg.minExecutionSize >= 0 => bought <= spent
    BY DEF IInv, Spending
  <2> HIDE DEF top, all, r
  <2>5. r * top \in Nat /\ all * top \in Nat /\ r * top <= all * top
    BY <2>2, <2>3, Scaled
  <2>6. bought \in Int /\ (cfg.minExecutionSize >= 0 => 0 <= bought)
    <3>1. CASE bought = 0
      BY <3>1
    <3>2. CASE bought # 0
      <4>1. IsMarket(market) /\ bought = Bought(market)
        BY <3>2 DEF IInv, Decided
      <4> QED
        BY <2>1, <4>1, StrategyAssumption, BoughtBounds
    <3> QED
      BY <3>1, <3>2
  <2>7. spent <= all * top
    BY <2>4, <2>5
  <2>8. /\ feed = <<>> \/ feed \in [ohlc : Ohlc, chart : Chart]
        /\ market = <<>> \/ IsMarket(market)
    BY DEF IInv, Decided
  <2> QED
    BY <2>1, <2>2, <2>4, <2>6, <2>7, <2>8 DEF TypeOK, IsMarket
<1> QED
  BY <1>1, Invariance, PTL

(* ClosestVolume finds the first of the nearest points, whatever the       *)
(* times, their order and their number.                                    *)
THEOREM NearestIsFound == Spec => []VolumesAreNearest
<1>1. IInv => VolumesAreNearest
  <2> SUFFICES ASSUME IInv, feed # <<>>
               PROVE  /\ Len(market.ohlcv) = Len(Parsed(feed.ohlc))
                      /\ \A i \in DOMAIN Parsed(feed.ohlc) :
                            IsNearest(market.ohlcv[i].volume, Parsed(feed.ohlc)[i].time,
                                      Parsed(feed.chart))
    BY DEF VolumesAreNearest
  <2>1. /\ feed \in [ohlc : Ohlc, chart : Chart]
        /\ market = [ohlcv |-> GetOHLCV(feed.ohlc, feed.chart), regime |-> market.regime,
                     vol |-> market.vol, price |-> market.price, depth |-> market.depth]
    BY DEF IInv, Decided
  <2>2. market.ohlcv = GetOHLCV(feed.ohlc, feed.chart)
    BY <2>1
  <2>3. feed.ohlc \in Ohlc /\ feed.chart \in Chart
    BY <2>1
  <2> QED
    BY <2>2, <2>3, StrategyAssumption, CandlesAreSound
<1> QED
  BY <1>1, Invariance, PTL

(* CalculateTargetPrice and ShouldExecute never chase a price, whatever    *)
(* the candles.                                                            *)
THEOREM NoChase == Spec => []NeverAboveTheWindow
<1>1. IInv => NeverAboveTheWindow
  <2> SUFFICES ASSUME IInv, bought > 0, cfg.volScalingFactor >= 0,
                      \A i \in DOMAIN market.ohlcv : ~(market.price <= market.ohlcv[i].high)
               PROVE  FALSE
    BY DEF NeverAboveTheWindow
  <2> DEFINE num == CalculateVWAP(market.ohlcv).num
             den == CalculateVWAP(market.ohlcv).den
             price == market.price
             zero == 0
  <2>1. IsMarket(market) /\ Cheap(market, Patience(market)) /\ cfg \in Load(File)
    BY BoughtInMarket
  <2>2. Patience(market) \in Nat
    BY <2>1, StrategyAssumption, DiscountBounds DEF Patience, IsMarket
  <2>3. /\ Sound(market.ohlcv) /\ price \in Nat \ {0}
        /\ Patience(market) \in Int /\ zero \in Int /\ zero <= Patience(market)
    BY <2>1, <2>2 DEF IsMarket
  <2> HIDE DEF zero
  <2>4. Cheap(market, zero)
    BY <2>1, <2>3, CheapAfterLess
  <2>5. price * (den * 2000) <= num * 2000
    <3>1. price * (den * 2000) <= num * (2000 - 0)
      BY <2>4 DEF Cheap, zero
    <3> QED
      BY <3>1
  <2>6. \A i \in DOMAIN market.ohlcv : market.ohlcv[i].high < price
    BY <2>3 DEF Sound
  <2>7. num \in Nat /\ den \in Nat /\ num < price * den
    BY <2>3, <2>6, VWAPBounds
  <2> HIDE DEF num, den, price
  <2>8. price * (den * 2000) = (price * den) * 2000 /\ price * den \in Nat
    BY <2>3, <2>7, Products
  <2> QED
    BY <2>5, <2>7, <2>8
<1> QED
  BY <1>1, Invariance, PTL

(* Accumulation buys whatever markup buys, in any market.                  *)
THEOREM MarkupIsOutbought == Spec => []AccumulationBuysMore
<1>1. IInv => AccumulationBuysMore
  <2> SUFFICES ASSUME IInv, bought > 0, market.regime = "markup",
                      cfg.volScalingFactor >= 0,
                      TwiceMid(cfg, "accumulation") >= TwiceMid(cfg, "markup")
               PROVE  Bought([market EXCEPT !.regime = "accumulation"]) >= bought
    BY DEF AccumulationBuysMore
  <2> DEFINE m == [market EXCEPT !.regime = "accumulation"]
             least == 200 * Days * cfg.minExecutionSize
             more == AdjustedBudget("accumulation", market.depth)
             less == AdjustedBudget("markup", market.depth)
  <2>1. /\ IsMarket(market) /\ bought = Bought(market) /\ Cheap(market, Patience(market))
        /\ cfg \in Load(File)
        /\ market = [ohlcv |-> market.ohlcv, regime |-> market.regime, vol |-> market.vol,
                     price |-> market.price, depth |-> market.depth]
    BY BoughtInMarket
  <2>2. /\ m.ohlcv = market.ohlcv /\ m.regime = "accumulation" /\ m.vol = market.vol
        /\ m.price = market.price /\ m.depth = market.depth
    BY <2>1
  <2> HIDE DEF m
  <2>3. "accumulation" \in Regime /\ "markup" \in Regime
    BY DEF Regime
  <2>4. /\ Patience(market) \in Nat /\ Patience(m) \in Nat /\ Patience(m) <= Patience(market)
    BY <2>1, <2>2, StrategyAssumption, DiscountBounds DEF Patience, IsMarket
  <2>5. Cheap(market, Patience(m))
    <3>1. Sound(market.ohlcv) /\ market.price \in Nat \ {0}
      BY <2>1 DEF IsMarket
    <3> QED
      BY <2>1, <2>4, <3>1, CheapAfterLess
  <2>6. Cheap(m, Patience(m))
    BY <2>2, <2>5 DEF Cheap
  <2>7. market.depth \in Depth
    BY <2>1 DEF IsMarket
  <2>8. more \in Int /\ less \in Int /\ more >= less
    BY <2>1, <2>3, <2>7, StrategyAssumption, BudgetBounds
  <2>9. least \in Int
    BY <2>1, StrategyAssumption, ConfigIsSound, DollarsAreSound
  <2>10. Bought(market) = IF Cheap(market, Patience(market)) /\ less >= least THEN less ELSE 0
    BY BoughtExpanded
  <2>11. Bought(m) = IF Cheap(m, Patience(m)) /\ more >= least THEN more ELSE 0
    BY <2>2, BoughtExpanded
  <2> HIDE DEF more, less, least
  <2>12. bought = less /\ less >= least
    BY <2>1, <2>10
  <2>13. Bought(m) = more
    BY <2>6, <2>8, <2>9, <2>11, <2>12
  <2> QED
    BY <2>8, <2>12, <2>13 DEF m
<1> QED
  BY <1>1, Invariance, PTL

(* What is bought in a volatile market is bought in any calmer one, for    *)
(* the same amount.                                                        *)
THEOREM CalmIsNoObstacle == Spec => []VolatileIsPatient
<1>1. IInv => VolatileIsPatient
  <2> SUFFICES ASSUME IInv, bought > 0, cfg.volScalingFactor >= 0,
                      NEW vol \in Vol, vol <= market.vol
               PROVE  Bought([market EXCEPT !.vol = vol]) = bought
    BY DEF VolatileIsPatient
  <2> DEFINE m == [market EXCEPT !.vol = vol]
  <2>1. /\ IsMarket(market) /\ bought = Bought(market) /\ Cheap(market, Patience(market))
        /\ cfg \in Load(File)
        /\ market = [ohlcv |-> market.ohlcv, regime |-> market.regime, vol |-> market.vol,
                     price |-> market.price, depth |-> market.depth]
    BY BoughtInMarket
  <2>2. /\ m.ohlcv = market.ohlcv /\ m.regime = market.regime /\ m.vol = vol
        /\ m.price = market.price /\ m.depth = market.depth
    BY <2>1
  <2> HIDE DEF m
  <2>3. /\ Patience(market) \in Nat /\ Patience(m) \in Nat /\ Patience(m) <= Patience(market)
    BY <2>1, <2>2, StrategyAssumption, DiscountBounds DEF Patience, IsMarket
  <2>4. Cheap(market, Patience(m))
    <3>1. Sound(market.ohlcv) /\ market.price \in Nat \ {0}
      BY <2>1 DEF IsMarket
    <3> QED
      BY <2>1, <2>3, <3>1, CheapAfterLess
  <2>5. Cheap(m, Patience(m))
    BY <2>2, <2>4 DEF Cheap
  <2>6. Bought(m) = Bought(market)
    BY <2>1, <2>2, <2>5, BoughtExpanded
  <2> QED
    BY <2>1, <2>6 DEF m
<1> QED
  BY <1>1, Invariance, PTL

(* What bounds a year in place of its budget: at any moment of it, under   *)
(* any configuration, no more has been spent than one daily budget at the  *)
(* largest multiplier for each cycle that has run (a daily budget is       *)
(* 200 * annualBudget in the unit of money, and multipliers are in percent *)
(* and doubled).                                                           *)
THEOREM SpendingIsPaced ==
    Spec => [](spent <= ((day - 1) * CyclesPerDay + cycle) * (cfg.annualBudget * Most))
<1>1. IInv => spent <= ((day - 1) * CyclesPerDay + cycle) * (cfg.annualBudget * Most)
  BY DEF IInv, Spending, Runs
<1> QED
  BY <1>1, Invariance, PTL
=============================================================================
