---------------------------- MODULE ClassifierProofs ----------------------------
(***************************************************************************)
(* Proofs about Classifier, for any closes, volumes and logarithms and for *)
(* a month of any length: every invariant that is model-checked.           *)
(***************************************************************************)
EXTENDS Classifier, FoldTheorems

Score == [Regime -> Int]

(* What the loops over AllRegimes do with each regime.                     *)
Beaten(score, best, r) == IF score[r] > score[best] THEN r ELSE best

Raised(score, best, most, r) == IF r # best /\ score[r] > most THEN score[r] ELSE most

LEMMA RegimesInOrder ==
    /\ DOMAIN AllRegimes = 1 .. 4
    /\ AllRegimes[1] = "accumulation" /\ AllRegimes[2] = "distribution"
    /\ AllRegimes[3] = "markdown" /\ AllRegimes[4] = "markup"
    /\ \A i \in 1 .. 4 : AllRegimes[i] \in Regime
  BY DEF AllRegimes, Regime

(* The prefixes of the order, which a loop passes through.                 *)
LEMMA RegimesInTurn ==
    /\ 1 .. 0 = {} /\ 1 .. 0 \in SUBSET DOMAIN AllRegimes
    /\ \A k \in 1 .. 4 :
          /\ 1 .. k \in SUBSET DOMAIN AllRegimes /\ 1 .. k # {}
          /\ Max(1 .. k) = k /\ (1 .. k) \ {k} = 1 .. (k - 1)
<1>1. 1 .. 0 = {} /\ 1 .. 0 \in SUBSET DOMAIN AllRegimes
  OBVIOUS
<1>2. ASSUME NEW k \in 1 .. 4
      PROVE  /\ 1 .. k \in SUBSET DOMAIN AllRegimes /\ 1 .. k # {}
             /\ Max(1 .. k) = k /\ (1 .. k) \ {k} = 1 .. (k - 1)
  <2>1. Max(1 .. k) = k /\ (1 .. k) \ {k} = 1 .. (k - 1)
    BY MaxOfPrefix
  <2>2. 1 .. k \in SUBSET DOMAIN AllRegimes /\ 1 .. k # {}
    BY RegimesInOrder
  <2> QED
    BY <2>1, <2>2
<1> QED
  BY <1>1, <1>2

-----------------------------------------------------------------------------
(* Best.                                                                   *)

BestLooked(h, score) ==
    h = [s \in SUBSET DOMAIN AllRegimes |->
            IF s = {} THEN "accumulation"
            ELSE LET i == Max(s) IN Beaten(score, h[s \ {i}], AllRegimes[i])]

LEMMA BestExpanded ==
    ASSUME NEW score
    PROVE  Best(score) = (CHOOSE h : BestLooked(h, score))[DOMAIN AllRegimes]
  BY Zenon DEF Best, FoldLeft, MapThenFoldSet, BestLooked, Beaten

SecondLooked(h, score, best) ==
    h = [s \in SUBSET DOMAIN AllRegimes |->
            IF s = {} THEN -1
            ELSE LET i == Max(s) IN Raised(score, best, h[s \ {i}], AllRegimes[i])]

LEMMA SecondExpanded ==
    ASSUME NEW score, NEW best
    PROVE  SecondBest(score, best) =
              LET found == (CHOOSE h : SecondLooked(h, score, best))[DOMAIN AllRegimes]
              IN  IF found < 0 THEN 0 ELSE found
  BY Zenon DEF SecondBest, FoldLeft, MapThenFoldSet, SecondLooked, Raised

LEMMA BestRuns ==
    ASSUME NEW score \in Score
    PROVE  \E h : BestLooked(h, score)
<1> DEFINE n == 4
           op == [i \in 1 .. n |-> [v \in Regime |-> Beaten(score, v, AllRegimes[i])]]
           base == "accumulation"
<1>1. n \in Nat /\ DOMAIN AllRegimes = 1 .. n /\ base \in Regime
  BY RegimesInOrder DEF Regime
<1>2. \A i \in 1 .. n, v \in Regime : op[i][v] = Beaten(score, v, AllRegimes[i])
  OBVIOUS
<1>3. op \in [1 .. n -> [Regime -> Regime]]
  BY RegimesInOrder DEF Beaten
<1> HIDE DEF n, op, base
<1>4. PICK h : FoldsFromTheLast(h, op, base, n, Regime)
  BY <1>1, <1>3, FoldFromTheLast
<1> DEFINE g == [s \in SUBSET DOMAIN AllRegimes |-> h[s]]
<1>5. ASSUME NEW s \in SUBSET (1 .. n)
      PROVE  g[s] = IF s = {} THEN base
                    ELSE Beaten(score, g[s \ {Max(s)}], AllRegimes[Max(s)])
  <2>1. CASE s = {}
    BY <1>1, <1>4, <2>1 DEF FoldsFromTheLast
  <2>2. CASE s # {}
    <3>1. /\ Max(s) \in 1 .. n /\ s \ {Max(s)} \in SUBSET (1 .. n)
          /\ h[s] = op[Max(s)][h[s \ {Max(s)}]]
      BY <1>4, <2>2 DEF FoldsFromTheLast
    <3>2. h[s \ {Max(s)}] \in Regime
      BY <1>4, <3>1 DEF FoldsFromTheLast
    <3>3. h[s] = Beaten(score, h[s \ {Max(s)}], AllRegimes[Max(s)])
      BY <1>2, <3>1, <3>2
    <3>4. g[s] = h[s] /\ g[s \ {Max(s)}] = h[s \ {Max(s)}]
      BY <1>1, <3>1
    <3> QED
      BY <2>2, <3>3, <3>4
  <2> QED
    BY <2>1, <2>2
<1>6. g = [s \in SUBSET DOMAIN AllRegimes |-> g[s]]
  OBVIOUS
<1> HIDE DEF g
<1>7. BestLooked(g, score)
  BY <1>1, <1>5, <1>6 DEF BestLooked, base
<1> QED
  BY <1>7

LEMMA SecondRuns ==
    ASSUME NEW score \in Score, NEW best \in Regime
    PROVE  \E h : SecondLooked(h, score, best)
<1> DEFINE n == 4
           op == [i \in 1 .. n |-> [v \in Int |-> Raised(score, best, v, AllRegimes[i])]]
           base == -1
<1>1. n \in Nat /\ DOMAIN AllRegimes = 1 .. n /\ base \in Int
  BY RegimesInOrder
<1>2. \A i \in 1 .. n, v \in Int : op[i][v] = Raised(score, best, v, AllRegimes[i])
  OBVIOUS
<1>3. op \in [1 .. n -> [Int -> Int]]
  <2>1. \A i \in 1 .. n : score[AllRegimes[i]] \in Int
    BY RegimesInOrder DEF Score
  <2> QED
    BY <2>1 DEF Raised
<1> HIDE DEF n, op, base
<1>4. PICK h : FoldsFromTheLast(h, op, base, n, Int)
  BY <1>1, <1>3, FoldFromTheLast
<1> DEFINE g == [s \in SUBSET DOMAIN AllRegimes |-> h[s]]
<1>5. ASSUME NEW s \in SUBSET (1 .. n)
      PROVE  g[s] = IF s = {} THEN base
                    ELSE Raised(score, best, g[s \ {Max(s)}], AllRegimes[Max(s)])
  <2>1. CASE s = {}
    BY <1>1, <1>4, <2>1 DEF FoldsFromTheLast
  <2>2. CASE s # {}
    <3>1. /\ Max(s) \in 1 .. n /\ s \ {Max(s)} \in SUBSET (1 .. n)
          /\ h[s] = op[Max(s)][h[s \ {Max(s)}]]
      BY <1>4, <2>2 DEF FoldsFromTheLast
    <3>2. h[s \ {Max(s)}] \in Int
      BY <1>4, <3>1 DEF FoldsFromTheLast
    <3>3. h[s] = Raised(score, best, h[s \ {Max(s)}], AllRegimes[Max(s)])
      BY <1>2, <3>1, <3>2
    <3>4. g[s] = h[s] /\ g[s \ {Max(s)}] = h[s \ {Max(s)}]
      BY <1>1, <3>1
    <3> QED
      BY <2>2, <3>3, <3>4
  <2> QED
    BY <2>1, <2>2
<1>6. g = [s \in SUBSET DOMAIN AllRegimes |-> g[s]]
  OBVIOUS
<1> HIDE DEF g
<1>7. SecondLooked(g, score, best)
  BY <1>1, <1>5, <1>6 DEF SecondLooked, base
<1> QED
  BY <1>7

(* Both loops, regime by regime.                                           *)
LEMMA BestUnrolled ==
    ASSUME NEW score \in Score
    PROVE  Best(score) =
              Beaten(score,
                  Beaten(score,
                      Beaten(score,
                          Beaten(score, "accumulation", "accumulation"),
                          "distribution"),
                      "markdown"),
                  "markup")
<1> DEFINE h == CHOOSE h : BestLooked(h, score)
           upto(k) == h[1 .. k]
<1>1. BestLooked(h, score)
  BY BestRuns, Zenon
<1> HIDE DEF h
<1>2. \A s \in SUBSET DOMAIN AllRegimes :
        h[s] = IF s = {} THEN "accumulation"
               ELSE Beaten(score, h[s \ {Max(s)}], AllRegimes[Max(s)])
  BY <1>1 DEF BestLooked
<1>3. upto(0) = "accumulation"
  BY <1>2, RegimesInTurn
<1>4. ASSUME NEW k \in 1 .. 4
      PROVE  upto(k) = Beaten(score, upto(k - 1), AllRegimes[k])
  BY <1>2, RegimesInTurn
<1>5. Best(score) = upto(4)
  BY BestExpanded, RegimesInOrder DEF h
<1> HIDE DEF upto
<1>6. /\ upto(1) = Beaten(score, upto(0), "accumulation")
      /\ upto(2) = Beaten(score, upto(1), "distribution")
      /\ upto(3) = Beaten(score, upto(2), "markdown")
      /\ upto(4) = Beaten(score, upto(3), "markup")
  <2>1. /\ upto(1) = Beaten(score, upto(1 - 1), AllRegimes[1])
        /\ upto(2) = Beaten(score, upto(2 - 1), AllRegimes[2])
        /\ upto(3) = Beaten(score, upto(3 - 1), AllRegimes[3])
        /\ upto(4) = Beaten(score, upto(4 - 1), AllRegimes[4])
    BY <1>4
  <2>2. 1 - 1 = 0 /\ 2 - 1 = 1 /\ 3 - 1 = 2 /\ 4 - 1 = 3
    OBVIOUS
  <2> QED
    BY <2>1, <2>2, RegimesInOrder
<1> QED
  BY <1>3, <1>5, <1>6

LEMMA SecondUnrolled ==
    ASSUME NEW score \in Score, NEW best \in Regime
    PROVE  SecondBest(score, best) =
              LET found ==
                    Raised(score, best,
                        Raised(score, best,
                            Raised(score, best,
                                Raised(score, best, -1, "accumulation"),
                                "distribution"),
                            "markdown"),
                        "markup")
              IN  IF found < 0 THEN 0 ELSE found
<1> DEFINE h == CHOOSE h : SecondLooked(h, score, best)
           upto(k) == h[1 .. k]
<1>1. SecondLooked(h, score, best)
  BY SecondRuns, Zenon
<1> HIDE DEF h
<1>2. \A s \in SUBSET DOMAIN AllRegimes :
        h[s] = IF s = {} THEN -1
               ELSE Raised(score, best, h[s \ {Max(s)}], AllRegimes[Max(s)])
  BY <1>1 DEF SecondLooked
<1>3. upto(0) = -1
  BY <1>2, RegimesInTurn
<1>4. ASSUME NEW k \in 1 .. 4
      PROVE  upto(k) = Raised(score, best, upto(k - 1), AllRegimes[k])
  BY <1>2, RegimesInTurn
<1>5. SecondBest(score, best) = IF upto(4) < 0 THEN 0 ELSE upto(4)
  BY SecondExpanded, RegimesInOrder DEF h
<1> HIDE DEF upto
<1>6. /\ upto(1) = Raised(score, best, upto(0), "accumulation")
      /\ upto(2) = Raised(score, best, upto(1), "distribution")
      /\ upto(3) = Raised(score, best, upto(2), "markdown")
      /\ upto(4) = Raised(score, best, upto(3), "markup")
  <2>1. /\ upto(1) = Raised(score, best, upto(1 - 1), AllRegimes[1])
        /\ upto(2) = Raised(score, best, upto(2 - 1), AllRegimes[2])
        /\ upto(3) = Raised(score, best, upto(3 - 1), AllRegimes[3])
        /\ upto(4) = Raised(score, best, upto(4 - 1), AllRegimes[4])
    BY <1>4
  <2>2. 1 - 1 = 0 /\ 2 - 1 = 1 /\ 3 - 1 = 2 /\ 4 - 1 = 3
    OBVIOUS
  <2> QED
    BY <2>1, <2>2, RegimesInOrder
<1> QED
  BY <1>3, <1>5, <1>6

(* The best regime: no score is above its own, and none before it has it.  *)
LEMMA BestIsFirstOfBest ==
    ASSUME NEW score \in Score
    PROVE  /\ Best(score) \in Regime
           /\ \A r \in Regime : score[r] <= score[Best(score)]
           /\ \A i \in 1 .. 4 : score[AllRegimes[i]] = score[Best(score)]
                                => \E j \in 1 .. i : AllRegimes[j] = Best(score)
<1> DEFINE best == Best(score)
           a == score["accumulation"]
           d == score["distribution"]
           m == score["markdown"]
           u == score["markup"]
<1>1. a \in Int /\ d \in Int /\ m \in Int /\ u \in Int
  BY DEF Score, Regime
<1>2. \/ best = "accumulation" /\ d <= a /\ m <= a /\ u <= a
      \/ best = "distribution" /\ a < d /\ m <= d /\ u <= d
      \/ best = "markdown" /\ a < m /\ d < m /\ u <= m
      \/ best = "markup" /\ a < u /\ d < u /\ m < u
  BY <1>1, BestUnrolled DEF Beaten
<1> HIDE DEF best
<1>3. best \in Regime
  BY <1>2 DEF Regime
<1>4. \A r \in Regime : score[r] <= score[best]
  BY <1>1, <1>2 DEF Regime
<1>5. ASSUME NEW i \in 1 .. 4, score[AllRegimes[i]] = score[best]
      PROVE  \E j \in 1 .. i : AllRegimes[j] = best
  <2>1. PICK k \in 1 .. 4 : AllRegimes[k] = best
    BY <1>2, RegimesInOrder
  <2>2. k <= i
    BY <1>1, <1>2, <1>5, <2>1, RegimesInOrder
  <2> QED
    BY <2>1, <2>2
<1> QED
  BY <1>3, <1>4, <1>5 DEF best

(* The second best: no other score is above it, and one of them has it.    *)
LEMMA SecondIsMostOfOthers ==
    ASSUME NEW score \in Score, \A r \in Regime : score[r] \in Nat, NEW best \in Regime
    PROVE  /\ SecondBest(score, best) \in Nat
           /\ \A r \in Regime \ {best} : score[r] <= SecondBest(score, best)
           /\ \E r \in Regime \ {best} : score[r] = SecondBest(score, best)
<1> DEFINE second == SecondBest(score, best)
           a == score["accumulation"]
           d == score["distribution"]
           m == score["markdown"]
           u == score["markup"]
<1>1. a \in Nat /\ d \in Nat /\ m \in Nat /\ u \in Nat
  BY DEF Regime
<1>2. CASE best = "accumulation"
  <2>1. second \in {d, m, u} /\ d <= second /\ m <= second /\ u <= second
    BY <1>1, <1>2, SecondUnrolled DEF Raised
  <2> HIDE DEF second
  <2>2. Regime \ {best} = {"distribution", "markdown", "markup"}
    BY <1>2 DEF Regime
  <2> QED
    BY <1>1, <2>1, <2>2 DEF second
<1>3. CASE best = "distribution"
  <2>1. second \in {a, m, u} /\ a <= second /\ m <= second /\ u <= second
    BY <1>1, <1>3, SecondUnrolled DEF Raised
  <2> HIDE DEF second
  <2>2. Regime \ {best} = {"accumulation", "markdown", "markup"}
    BY <1>3 DEF Regime
  <2> QED
    BY <1>1, <2>1, <2>2 DEF second
<1>4. CASE best = "markdown"
  <2>1. second \in {a, d, u} /\ a <= second /\ d <= second /\ u <= second
    BY <1>1, <1>4, SecondUnrolled DEF Raised
  <2> HIDE DEF second
  <2>2. Regime \ {best} = {"accumulation", "distribution", "markup"}
    BY <1>4 DEF Regime
  <2> QED
    BY <1>1, <2>1, <2>2 DEF second
<1>5. CASE best = "markup"
  <2>1. second \in {a, d, m} /\ a <= second /\ d <= second /\ m <= second
    BY <1>1, <1>5, SecondUnrolled DEF Raised
  <2> HIDE DEF second
  <2>2. Regime \ {best} = {"accumulation", "distribution", "markdown"}
    BY <1>5 DEF Regime
  <2> QED
    BY <1>1, <2>1, <2>2 DEF second
<1> QED
  BY <1>2, <1>3, <1>4, <1>5 DEF Regime

-----------------------------------------------------------------------------
(* The score tables.                                                       *)

Rising ==
    [r \in Regime |-> CASE r = "markup" -> 70 [] r = "markdown" -> 0
                        [] r = "accumulation" -> 10 [] r = "distribution" -> 20]

Falling ==
    [r \in Regime |-> CASE r = "markdown" -> 70 [] r = "markup" -> 0
                        [] r = "accumulation" -> 10 [] r = "distribution" -> 20]

Moving == [r \in Regime |-> IF r \in {"markup", "markdown"} THEN 40 ELSE 10]

(* A table by its entries.                                                 *)
Reads(table, a, d, m, u) ==
    /\ table["accumulation"] = a /\ table["distribution"] = d
    /\ table["markdown"] = m /\ table["markup"] = u

LEMMA Entries ==
    /\ Reads(Even, 25, 25, 25, 25)
    /\ Reads(Rising, 10, 20, 0, 70) /\ Reads(Falling, 10, 20, 70, 0)
    /\ Reads(Moving, 10, 10, 40, 40)
    /\ Reads(Favour("accumulation"), 70, 10, 10, 10)
    /\ Reads(Favour("distribution"), 10, 70, 10, 10)
    /\ Reads(Favour("markdown"), 10, 10, 70, 10)
<1>1. /\ "accumulation" \in Regime /\ "distribution" \in Regime
      /\ "markdown" \in Regime /\ "markup" \in Regime
  BY DEF Regime
<1>2. Reads(Even, 25, 25, 25, 25)
  BY <1>1 DEF Reads, Even
<1>3. Reads(Rising, 10, 20, 0, 70)
  BY <1>1 DEF Reads, Rising
<1>4. Reads(Falling, 10, 20, 70, 0)
  BY <1>1 DEF Reads, Falling
<1>5. Reads(Moving, 10, 10, 40, 40)
  BY <1>1 DEF Reads, Moving
<1>6. /\ Reads(Favour("accumulation"), 70, 10, 10, 10)
      /\ Reads(Favour("distribution"), 10, 70, 10, 10)
      /\ Reads(Favour("markdown"), 10, 10, 70, 10)
  BY <1>1 DEF Reads, Favour
<1> QED
  BY <1>2, <1>3, <1>4, <1>5, <1>6

(* The tables that the four functions choose from.                         *)
LEMMA Tables ==
    ASSUME NEW d
    PROVE  /\ PriceTrendScore(d) \in {Even, Rising, Falling, Favour("accumulation")}
           /\ VolumeTrendScore(d) \in {Even, Moving, Favour("accumulation")}
           /\ VolatilityScore(d) \in {Even, Favour("accumulation"), Favour("distribution")}
           /\ DivergenceScore(d) \in {Even, Favour("distribution"), Favour("markdown")}
<1>1. PriceTrendScore(d) \in {Even, Rising, Falling, Favour("accumulation")}
  BY DEF PriceTrendScore, Rising, Falling
<1>2. VolumeTrendScore(d) \in {Even, Moving, Favour("accumulation")}
  BY DEF VolumeTrendScore, Moving
<1>3. VolatilityScore(d) \in {Even, Favour("accumulation"), Favour("distribution")}
  BY DEF VolatilityScore
<1>4. DivergenceScore(d) \in {Even, Favour("distribution"), Favour("markdown")}
  BY DEF DivergenceScore
<1> QED
  BY <1>1, <1>2, <1>3, <1>4

(* Every total is in bounds.                                               *)
LEMMA Totals ==
    ASSUME NEW d
    PROVE  /\ Aggregated(d) \in Score
           /\ \A r \in Regime :
                 /\ Aggregated(d)[r] \in Nat /\ Aggregated(d)[r] <= 3100
                 /\ Aggregated(d)[r] = 10 * PriceTrendScore(d)[r] + 8 * VolumeTrendScore(d)[r]
                                         + 7 * VolatilityScore(d)[r] + 6 * DivergenceScore(d)[r]
<1>1. \A t \in {PriceTrendScore(d), VolumeTrendScore(d), VolatilityScore(d), DivergenceScore(d)},
         r \in Regime : t[r] \in 0 .. 70
  <2>1. \A t \in {Even, Rising, Falling, Moving, Favour("accumulation"),
                  Favour("distribution"), Favour("markdown")}, r \in Regime : t[r] \in 0 .. 70
    BY Entries DEF Reads, Regime
  <2> QED
    BY <2>1, Tables
<1>2. \A r \in Regime :
        /\ PriceTrendScore(d)[r] \in 0 .. 70 /\ VolumeTrendScore(d)[r] \in 0 .. 70
        /\ VolatilityScore(d)[r] \in 0 .. 70 /\ DivergenceScore(d)[r] \in 0 .. 70
  BY <1>1
<1>3. Aggregated(d) = [r \in Regime |->
        10 * PriceTrendScore(d)[r] + 8 * VolumeTrendScore(d)[r]
          + 7 * VolatilityScore(d)[r] + 6 * DivergenceScore(d)[r]]
  BY DEF Aggregated
<1>4. \A r \in Regime : Aggregated(d)[r] = 10 * PriceTrendScore(d)[r] + 8 * VolumeTrendScore(d)[r]
                                         + 7 * VolatilityScore(d)[r] + 6 * DivergenceScore(d)[r]
  BY <1>3
<1>5. ASSUME NEW r \in Regime PROVE Aggregated(d)[r] \in Nat /\ Aggregated(d)[r] <= 3100
  <2> DEFINE p == PriceTrendScore(d)[r]
             v == VolumeTrendScore(d)[r]
             l == VolatilityScore(d)[r]
             g == DivergenceScore(d)[r]
  <2>1. p \in 0 .. 70 /\ v \in 0 .. 70 /\ l \in 0 .. 70 /\ g \in 0 .. 70
    BY <1>2
  <2>2. Aggregated(d)[r] = 10 * p + 8 * v + 7 * l + 6 * g
    BY <1>4
  <2> HIDE DEF p, v, l, g
  <2> QED
    BY <2>1, <2>2
<1>6. Aggregated(d) \in Score
  <2>1. \A r \in Regime : Aggregated(d)[r] \in Int
    BY <1>5
  <2> QED
    BY <1>3, <2>1 DEF Score
<1> QED
  BY <1>4, <1>5, <1>6

(* What the invariants need of a verdict, on any data.                     *)
LEMMA VerdictIsSound ==
    ASSUME NEW d
    PROVE  LET score == Aggregated(d)
               w == Verdict(d).regime
               confidence == Verdict(d).confidence
           IN  /\ w = Best(score) /\ w \in Regime
               /\ confidence \in Nat /\ confidence <= 3100
               /\ \A r \in Regime : score[r] <= score[w]
               /\ \A r \in Regime \ {w} : score[w] - score[r] >= confidence
               /\ \E r \in Regime \ {w} : score[w] - score[r] = confidence
<1> DEFINE score == Aggregated(d)
           w == Best(score)
           second == SecondBest(score, w)
<1>1. score \in Score /\ \A r \in Regime : score[r] \in Nat /\ score[r] <= 3100
  BY Totals
<1>2. \A r \in Regime : score[r] \in Nat /\ score[r] <= 3100
  BY <1>1
<1>3. Verdict(d).regime = w /\ Verdict(d).confidence = score[w] - second
  BY DEF Verdict
<1> HIDE DEF score, w, second
<1>4. w \in Regime /\ \A r \in Regime : score[r] <= score[w]
  BY <1>1, BestIsFirstOfBest DEF w
<1>5. /\ second \in Nat
      /\ \A r \in Regime \ {w} : score[r] <= second
      /\ \E r \in Regime \ {w} : score[r] = second
  BY <1>1, <1>2, <1>4, SecondIsMostOfOthers DEF second
<1>6. score[w] - second \in Nat /\ score[w] - second <= 3100
  <2>1. PICK r \in Regime \ {w} : score[r] = second
    BY <1>5
  <2>2. score[w] \in Nat /\ score[w] <= 3100 /\ second <= score[w]
    BY <1>2, <1>4, <2>1
  <2> QED
    BY <1>5, <2>2
<1>7. \A r \in Regime \ {w} : score[w] - score[r] >= score[w] - second
  BY <1>2, <1>4, <1>5
<1>8. \E r \in Regime \ {w} : score[w] - score[r] = score[w] - second
  BY <1>2, <1>4, <1>5
<1> QED
  BY <1>3, <1>4, <1>6, <1>7, <1>8 DEF score, w

Backs(table, w) == \A r \in Regime : table[r] <= table[w]

(* Where no signal is even, some favourite is ahead of all that are not.   *)
LEMMA WinnerIsBacked ==
    ASSUME NEW d
    PROVE  LET w == Verdict(d).regime
           IN  \/ Backs(PriceTrendScore(d), w) \/ Backs(VolumeTrendScore(d), w)
               \/ Backs(VolatilityScore(d), w) \/ Backs(DivergenceScore(d), w)
<1> DEFINE w == Verdict(d).regime
           p == PriceTrendScore(d)
           v == VolumeTrendScore(d)
           l == VolatilityScore(d)
           g == DivergenceScore(d)
           total(r) == 10 * p[r] + 8 * v[r] + 7 * l[r] + 6 * g[r]
<1>1. /\ \/ Reads(p, 25, 25, 25, 25) \/ Reads(p, 10, 20, 0, 70)
         \/ Reads(p, 10, 20, 70, 0) \/ Reads(p, 70, 10, 10, 10)
      /\ \/ Reads(v, 25, 25, 25, 25) \/ Reads(v, 10, 10, 40, 40)
         \/ Reads(v, 70, 10, 10, 10)
      /\ \/ Reads(l, 25, 25, 25, 25) \/ Reads(l, 70, 10, 10, 10)
         \/ Reads(l, 10, 70, 10, 10)
      /\ \/ Reads(g, 25, 25, 25, 25) \/ Reads(g, 10, 70, 10, 10)
         \/ Reads(g, 10, 10, 70, 10)
  <2>1. /\ p \in {Even, Rising, Falling, Favour("accumulation")}
        /\ v \in {Even, Moving, Favour("accumulation")}
        /\ l \in {Even, Favour("accumulation"), Favour("distribution")}
        /\ g \in {Even, Favour("distribution"), Favour("markdown")}
    BY Tables
  <2> HIDE DEF p, v, l, g
  <2> QED
    BY <2>1, Entries
<1>2. w \in Regime /\ \A r \in Regime : total(r) <= total(w)
  <2>1. w \in Regime /\ \A r \in Regime : Aggregated(d)[r] <= Aggregated(d)[w]
    BY VerdictIsSound
  <2>2. \A r \in Regime : Aggregated(d)[r] = total(r)
    BY Totals
  <2> HIDE DEF w, total
  <2> QED
    BY <2>1, <2>2
<1> HIDE DEF w, p, v, l, g
<1>3. \A r \in {"accumulation", "distribution", "markdown", "markup"} : total(r) <= total(w)
  BY <1>2 DEF Regime
<1>4. \A t : Backs(t, w) <=> /\ t["accumulation"] <= t[w] /\ t["distribution"] <= t[w]
                            /\ t["markdown"] <= t[w] /\ t["markup"] <= t[w]
  BY DEF Backs, Regime
<1>5. Backs(p, w) \/ Backs(v, w) \/ Backs(l, w) \/ Backs(g, w)
  <2>1. CASE w = "accumulation"
    BY <1>1, <1>3, <1>4, <2>1 DEF Reads
  <2>2. CASE w = "distribution"
    BY <1>1, <1>3, <1>4, <2>2 DEF Reads
  <2>3. CASE w = "markdown"
    BY <1>1, <1>3, <1>4, <2>3 DEF Reads
  <2>4. CASE w = "markup"
    BY <1>1, <1>3, <1>4, <2>4 DEF Reads
  <2> QED
    BY <1>2, <2>1, <2>2, <2>3, <2>4 DEF Regime
<1> QED
  BY <1>5 DEF w, p, v, l, g

(* The price outweighs what divergence can do for the opposite side.       *)
LEMMA TrendOutweighs ==
    ASSUME NEW d
    PROVE  /\ PriceTrendScore(d) = Rising => Verdict(d).regime # "markdown"
           /\ PriceTrendScore(d) = Falling => Verdict(d).regime # "markup"
<1> DEFINE w == Verdict(d).regime
           p == PriceTrendScore(d)
           v == VolumeTrendScore(d)
           l == VolatilityScore(d)
           g == DivergenceScore(d)
           total(r) == 10 * p[r] + 8 * v[r] + 7 * l[r] + 6 * g[r]
<1>1. /\ \/ Reads(v, 25, 25, 25, 25) \/ Reads(v, 10, 10, 40, 40)
         \/ Reads(v, 70, 10, 10, 10)
      /\ \/ Reads(l, 25, 25, 25, 25) \/ Reads(l, 70, 10, 10, 10)
         \/ Reads(l, 10, 70, 10, 10)
      /\ \/ Reads(g, 25, 25, 25, 25) \/ Reads(g, 10, 70, 10, 10)
         \/ Reads(g, 10, 10, 70, 10)
  <2>1. /\ v \in {Even, Moving, Favour("accumulation")}
        /\ l \in {Even, Favour("accumulation"), Favour("distribution")}
        /\ g \in {Even, Favour("distribution"), Favour("markdown")}
    BY Tables
  <2> HIDE DEF v, l, g
  <2> QED
    BY <2>1, Entries
<1>2. \A r \in Regime : total(r) <= total(w)
  <2>1. w \in Regime /\ \A r \in Regime : Aggregated(d)[r] <= Aggregated(d)[w]
    BY VerdictIsSound
  <2>2. \A r \in Regime : Aggregated(d)[r] = total(r)
    BY Totals
  <2> HIDE DEF w, total
  <2> QED
    BY <2>1, <2>2
<1> HIDE DEF w, p, v, l, g
<1>3. "markup" \in Regime /\ "markdown" \in Regime
  BY DEF Regime
<1>4. ASSUME p = Rising PROVE w # "markdown"
  <2>1. Reads(p, 10, 20, 0, 70)
    BY <1>4, Entries
  <2>2. total("markdown") < total("markup")
    BY <1>1, <2>1 DEF Reads
  <2> QED
    BY <1>1, <1>2, <1>3, <2>1, <2>2 DEF Reads
<1>5. ASSUME p = Falling PROVE w # "markup"
  <2>1. Reads(p, 10, 20, 70, 0)
    BY <1>5, Entries
  <2>2. total("markup") < total("markdown")
    BY <1>1, <2>1 DEF Reads
  <2> QED
    BY <1>1, <1>2, <1>3, <2>1, <2>2 DEF Reads
<1> QED
  BY <1>4, <1>5 DEF p, w

-----------------------------------------------------------------------------
(* The sums, and what a unit of volume does to them.                       *)

(* The order of two numbers in another unit, and the unit of a product and *)
(* of a difference.                                                        *)
LEMMA UnitKeepsOrder ==
    ASSUME NEW u \in Nat \ {0}, NEW a \in Int, NEW b \in Int
    PROVE  u * a > u * b <=> a > b
<1>1. ASSUME NEW p \in Int, NEW q \in Int, p > q PROVE u * p > u * q
  <2> DEFINE r == p - q
             part == u * r
  <2>1. r \in Nat /\ r > 0 /\ p = q + r
    BY <1>1
  <2> HIDE DEF r
  <2>2. part \in Nat /\ part > 0
    BY <2>1
  <2>3. u * p = u * q + part
    BY <2>1
  <2>4. u * q \in Int
    OBVIOUS
  <2> HIDE DEF part
  <2> QED
    BY <2>2, <2>3, <2>4
<1>2. a > b \/ a = b \/ b > a
  OBVIOUS
<1>3. u * a \in Int /\ u * b \in Int
  OBVIOUS
<1> QED
  BY <1>1, <1>2, <1>3

LEMMA UnitOfProduct ==
    ASSUME NEW u \in Nat \ {0}, NEW x \in Nat, NEW n \in Nat
    PROVE  (u * x) * n = u * (x * n) /\ x * n \in Nat /\ u * x \in Nat
  OBVIOUS

LEMMA UnitOfDifference ==
    ASSUME NEW u \in Nat \ {0}, NEW x \in Nat, NEW y \in Nat
    PROVE  10 * (u * x - u * y) = u * (10 * (x - y))
  OBVIOUS

Rescaled(d, u) == [i \in DOMAIN d |-> [d[i] EXCEPT !.volume = u * @]]

(* q is p with volumes in another unit.                                    *)
SameButUnit(p, q, u) ==
    /\ Len(p) \in Nat /\ Len(q) = Len(p)
    /\ DOMAIN p = 1 .. Len(p) /\ DOMAIN q = 1 .. Len(p)
    /\ \A i \in 1 .. Len(p) :
          /\ p[i].close \in Nat /\ p[i].volume \in Nat
          /\ q[i].close = p[i].close /\ q[i].volume = u * p[i].volume

LEMMA RescaledIsSame ==
    ASSUME ClassifierAssumption, NEW d \in Seq(Candle), NEW u \in Nat \ {0}
    PROVE  /\ SameButUnit(d, Rescaled(d, u), u)
           /\ Rescaled(d, u) \in Seq([close : Nat, volume : Nat])
<1>1. Len(d) \in Nat /\ DOMAIN d = 1 .. Len(d)
  OBVIOUS
<1>2. ASSUME NEW i \in 1 .. Len(d)
      PROVE  /\ d[i].close \in Nat /\ d[i].volume \in Nat
             /\ Rescaled(d, u)[i] = [close |-> d[i].close, volume |-> u * d[i].volume]
             /\ u * d[i].volume \in Nat
  <2>1. d[i] \in [close : Close, volume : Volume]
    <3>1. d[i] \in Candle
      BY <1>1
    <3> QED
      BY <3>1 DEF Candle
  <2>2. d[i].close \in Nat /\ d[i].volume \in Nat
    BY <2>1 DEF ClassifierAssumption
  <2>3. [d[i] EXCEPT !.volume = u * @] = [close |-> d[i].close, volume |-> u * d[i].volume]
    BY <2>1
  <2>4. Rescaled(d, u)[i] = [d[i] EXCEPT !.volume = u * @]
    BY <1>1 DEF Rescaled
  <2> QED
    BY <2>2, <2>3, <2>4
<1>3. DOMAIN Rescaled(d, u) = 1 .. Len(d)
  BY <1>1 DEF Rescaled
<1>4. ASSUME NEW i \in 1 .. Len(d) PROVE Rescaled(d, u)[i] \in [close : Nat, volume : Nat]
  <2> DEFINE v == u * d[i].volume
  <2>1. v \in Nat /\ d[i].close \in Nat /\ Rescaled(d, u)[i] = [close |-> d[i].close, volume |-> v]
    BY <1>2
  <2> HIDE DEF v
  <2> QED
    BY <2>1
<1>5. Rescaled(d, u) = [i \in 1 .. Len(d) |-> Rescaled(d, u)[i]]
  BY <1>1 DEF Rescaled
<1> DEFINE e == Rescaled(d, u)
           V == [close : Nat, volume : Nat]
           n == Len(d)
<1> HIDE DEF e, V, n
<1>6. e \in Seq(V) /\ Len(e) = n
  BY <1>1, <1>4, <1>5 DEF e, V, n
<1> QED
  BY <1>1, <1>2, <1>3, <1>6 DEF SameButUnit, e, V, n

LEMMA PartIsSame ==
    ASSUME ClassifierAssumption, NEW d \in Seq(Candle), NEW u \in Nat \ {0},
           NEW a \in Nat \ {0}, NEW b \in 0 .. Len(d), a <= b + 1
    PROVE  SameButUnit(SubSeq(d, a, b), SubSeq(Rescaled(d, u), a, b), u)
<1> DEFINE e == Rescaled(d, u)
           p == SubSeq(d, a, b)
           q == SubSeq(e, a, b)
<1>1. SameButUnit(d, e, u) /\ e \in Seq([close : Nat, volume : Nat])
  BY RescaledIsSame
<1>2. Len(d) \in Nat /\ Len(e) = Len(d)
  BY <1>1 DEF SameButUnit
<1> HIDE DEF e
<1>3. /\ Len(p) = b - a + 1 /\ Len(q) = b - a + 1
      /\ DOMAIN p = 1 .. Len(p) /\ DOMAIN q = 1 .. Len(p)
  BY <1>1, <1>2
<1>4. \A i \in 1 .. Len(p) : /\ a + i - 1 \in 1 .. Len(d)
                            /\ p[i] = d[a + i - 1] /\ q[i] = e[a + i - 1]
  BY <1>1, <1>2, <1>3
<1> HIDE DEF p, q
<1>5. Len(p) \in Nat /\ Len(q) = Len(p)
  BY <1>2, <1>3
<1>6. SameButUnit(p, q, u)
  <2>1. ASSUME NEW i \in 1 .. Len(p)
        PROVE  /\ p[i].close \in Nat /\ p[i].volume \in Nat
               /\ q[i].close = p[i].close /\ q[i].volume = u * p[i].volume
    <3> DEFINE k == a + i - 1
    <3>1. k \in 1 .. Len(d) /\ p[i] = d[k] /\ q[i] = e[k]
      BY <1>4
    <3> HIDE DEF k
    <3>2. /\ d[k].close \in Nat /\ d[k].volume \in Nat
          /\ e[k].close = d[k].close /\ e[k].volume = u * d[k].volume
      BY <1>1, <3>1 DEF SameButUnit
    <3> QED
      BY <3>1, <3>2
  <2> QED
    BY <1>3, <1>5, <2>1 DEF SameButUnit
<1> QED
  BY <1>6 DEF p, q, e

LEMMA SumsOfSame ==
    ASSUME NEW p, NEW q, NEW u \in Nat \ {0}, SameButUnit(p, q, u)
    PROVE  /\ Closes(p) \in Nat /\ Volumes(p) \in Nat
           /\ Closes(q) = Closes(p) /\ Volumes(q) = u * Volumes(p)
<1> DEFINE S == 1 .. Len(p)
           closes(s) == [i \in DOMAIN s |-> s[i].close]
           volumes(s) == [i \in DOMAIN s |-> s[i].volume]
<1>1. IsFiniteSet(S) /\ DOMAIN p = S /\ DOMAIN q = S
  BY FS_Interval DEF SameButUnit
<1>2. /\ Closes(p) = SumFunctionOnSet(closes(p), S) /\ Closes(q) = SumFunctionOnSet(closes(q), S)
      /\ Volumes(p) = SumFunctionOnSet(volumes(p), S)
      /\ Volumes(q) = SumFunctionOnSet(volumes(q), S)
  BY <1>1 DEF Closes, Volumes, SumOf, SumFunction
<1>3. /\ \A i \in S : closes(p)[i] \in Nat /\ volumes(p)[i] \in Nat
      /\ \A i \in S : closes(q)[i] = closes(p)[i] /\ volumes(q)[i] = u * volumes(p)[i]
  BY <1>1 DEF SameButUnit
<1>4. closes(q) = closes(p)
  BY <1>1 DEF SameButUnit
<1> DEFINE f == volumes(p)
           g == volumes(q)
<1>5. ASSUME NEW i \in S
      PROVE  f[i] \in Int /\ g[i] \in Int /\ u * f[i] <= g[i] /\ g[i] <= u * f[i]
  <2>1. f[i] \in Nat /\ g[i] = u * f[i]
    BY <1>3
  <2> HIDE DEF f, g
  <2> QED
    <3> DEFINE v == u * f[i]
    <3>1. v \in Nat /\ g[i] = v
      BY <2>1
    <3> HIDE DEF v
    <3>2. g[i] \in Int /\ v <= g[i] /\ g[i] <= v
      BY <3>1
    <3> QED
      BY <2>1, <3>2 DEF v
<1>11. u \in Int
  OBVIOUS
<1> HIDE DEF S, closes, volumes, f, g
<1>6. SumFunctionOnSet(closes(p), S) \in Nat /\ SumFunctionOnSet(volumes(p), S) \in Nat
  BY <1>1, <1>3, SumOfNaturals
<1>7. u * SumFunctionOnSet(f, S) <= SumFunctionOnSet(g, S)
  BY <1>1, <1>5, <1>11, SumScaled
<1>8. SumFunctionOnSet(g, S) <= u * SumFunctionOnSet(f, S)
  BY <1>1, <1>5, <1>11, SumScaledAbove
<1>9. SumFunctionOnSet(g, S) \in Int /\ SumFunctionOnSet(f, S) \in Int
  BY <1>1, <1>5, SumTakeOut
<1>10. SumFunctionOnSet(g, S) = u * SumFunctionOnSet(f, S)
  <2> DEFINE t == u * SumFunctionOnSet(f, S)
  <2>1. t \in Int
    BY <1>9
  <2> HIDE DEF t
  <2>2. t <= SumFunctionOnSet(g, S) /\ SumFunctionOnSet(g, S) <= t
    BY <1>7, <1>8 DEF t
  <2>3. SumFunctionOnSet(g, S) = t
    BY <1>9, <2>1, <2>2
  <2> QED
    BY <2>3 DEF t
<1> QED
  BY <1>2, <1>4, <1>6, <1>10 DEF f, g

(* The parts that the score functions add up.                              *)
LEMMA HalvesAreSame ==
    ASSUME ClassifierAssumption, NEW d \in Seq(Candle), NEW u \in Nat \ {0}
    PROVE  /\ SameButUnit(FirstHalf(d), FirstHalf(Rescaled(d, u)), u)
           /\ SameButUnit(SecondHalf(d), SecondHalf(Rescaled(d, u)), u)
           /\ \A n \in 1 .. Len(d) : SameButUnit(LastOnes(d, n), LastOnes(Rescaled(d, u), n), u)
<1>1. Len(d) \in Nat /\ Len(Rescaled(d, u)) = Len(d)
  BY RescaledIsSame DEF SameButUnit
<1>2. Mid(d) \in 0 .. Len(d) /\ Mid(Rescaled(d, u)) = Mid(d)
  BY <1>1 DEF Mid
<1>3. SameButUnit(FirstHalf(d), FirstHalf(Rescaled(d, u)), u)
  BY <1>1, <1>2, PartIsSame DEF FirstHalf
<1>4. SameButUnit(SecondHalf(d), SecondHalf(Rescaled(d, u)), u)
  BY <1>1, <1>2, PartIsSame DEF SecondHalf
<1>5. ASSUME NEW n \in 1 .. Len(d)
      PROVE  SameButUnit(LastOnes(d, n), LastOnes(Rescaled(d, u), n), u)
  BY <1>1, PartIsSame DEF LastOnes
<1> QED
  BY <1>3, <1>4, <1>5

LEMMA PricesAreSame ==
    ASSUME ClassifierAssumption, NEW d \in Seq(Candle), NEW u \in Nat \ {0}
    PROVE  /\ EarlyPrice(d) \in Nat /\ LatePrice(d) \in Nat
           /\ EarlyPrice(Rescaled(d, u)) = EarlyPrice(d)
           /\ LatePrice(Rescaled(d, u)) = LatePrice(d)
<1> DEFINE e == Rescaled(d, u)
<1>1. /\ Closes(FirstHalf(d)) \in Nat /\ Closes(SecondHalf(d)) \in Nat
      /\ Closes(FirstHalf(e)) = Closes(FirstHalf(d))
      /\ Closes(SecondHalf(e)) = Closes(SecondHalf(d))
  BY HalvesAreSame, SumsOfSame
<1>2. /\ Len(FirstHalf(d)) \in Nat /\ Len(SecondHalf(d)) \in Nat
      /\ Len(FirstHalf(e)) = Len(FirstHalf(d)) /\ Len(SecondHalf(e)) = Len(SecondHalf(d))
  BY HalvesAreSame DEF SameButUnit
<1>3. \A x, y \in Nat : x * y \in Nat
  OBVIOUS
<1> QED
  BY <1>1, <1>2, <1>3 DEF EarlyPrice, LatePrice

(* A market that rises does not fall.                                      *)
LEMMA TrendChooses ==
    ASSUME ClassifierAssumption, NEW d \in Seq(Candle), Len(d) >= 2
    PROVE  /\ Rises(d) => PriceTrendScore(d) = Rising
           /\ Falls(d) => PriceTrendScore(d) = Falling
<1>1. EarlyPrice(d) \in Nat /\ LatePrice(d) \in Nat /\ Len(d) \in Nat
  <2>1. 1 \in Nat \ {0}
    OBVIOUS
  <2> QED
    BY <2>1, PricesAreSame
<1>2. ~(Rises(d) /\ Falls(d))
  BY <1>1 DEF Rises, Falls
<1>3. ~(Len(d) < 2)
  BY <1>1
<1>4. ASSUME Rises(d) PROVE PriceTrendScore(d) = Rising
  BY <1>2, <1>3, <1>4 DEF PriceTrendScore, Rising
<1>5. ASSUME Falls(d) PROVE PriceTrendScore(d) = Falling
  BY <1>2, <1>3, <1>5 DEF PriceTrendScore, Falling
<1> QED
  BY <1>4, <1>5

(* No score function tells the units apart.                                *)
LEMMA ScoresAreSame ==
    ASSUME ClassifierAssumption, NEW d \in Seq(Candle), NEW u \in Nat \ {0}
    PROVE  Aggregated(Rescaled(d, u)) = Aggregated(d)
<1> DEFINE e == Rescaled(d, u)
<1>1. SameButUnit(d, e, u) /\ Len(d) \in Nat /\ Len(e) = Len(d)
  BY RescaledIsSame DEF SameButUnit
<1>2. /\ EarlyPrice(d) \in Nat /\ LatePrice(d) \in Nat
      /\ EarlyPrice(e) = EarlyPrice(d) /\ LatePrice(e) = LatePrice(d)
  BY PricesAreSame
<1>3. PriceTrendScore(e) = PriceTrendScore(d)
  <2>1. (Rises(e) <=> Rises(d)) /\ (Falls(e) <=> Falls(d))
    BY <1>2 DEF Rises, Falls
  <2> HIDE DEF e
  <2> QED
    BY <1>1, <2>1 DEF PriceTrendScore
<1>4. VolumeTrendScore(e) = VolumeTrendScore(d)
  <2>1. CASE Len(d) < 5
    <3>1. VolumeTrendScore(d) = Even
      BY <1>1, <2>1 DEF VolumeTrendScore
    <3>2. Len(e) \in Nat /\ Len(e) < 5
      BY <1>1, <2>1
    <3> HIDE DEF e
    <3>3. VolumeTrendScore(e) = Even
      BY <3>2 DEF VolumeTrendScore
    <3> QED
      BY <3>1, <3>3
  <2>2. CASE ~(Len(d) < 5)
    <3> DEFINE back == IF Len(d) > 20 THEN 20 ELSE Len(d)
               five(s) == Volumes(LastOnes(s, 5)) * back
               twenty(s) == Volumes(LastOnes(s, back)) * 5
               up(s) == 10 * (five(s) - twenty(s)) > twenty(s)
               down(s) == 10 * (twenty(s) - five(s)) > twenty(s)
    <3>1. 5 \in 1 .. Len(d) /\ back \in 1 .. Len(d) /\ back \in Nat
      BY <1>1, <2>2
    <3>2. /\ Volumes(LastOnes(d, 5)) \in Nat /\ Volumes(LastOnes(d, back)) \in Nat
          /\ Volumes(LastOnes(e, 5)) = u * Volumes(LastOnes(d, 5))
          /\ Volumes(LastOnes(e, back)) = u * Volumes(LastOnes(d, back))
      <4> HIDE DEF back
      <4>1. /\ SameButUnit(LastOnes(d, 5), LastOnes(e, 5), u)
            /\ SameButUnit(LastOnes(d, back), LastOnes(e, back), u)
        BY <3>1, HalvesAreSame
      <4> HIDE DEF e
      <4> QED
        BY <4>1, SumsOfSame
    <3>3. /\ five(d) \in Nat /\ twenty(d) \in Nat
          /\ five(e) = u * five(d) /\ twenty(e) = u * twenty(d)
      <4> HIDE DEF back, e
      <4> QED
        BY <3>1, <3>2, UnitOfProduct
    <3>4. (up(e) <=> up(d)) /\ (down(e) <=> down(d))
      <4> DEFINE f == five(d)
                 t == twenty(d)
      <4>1. f \in Nat /\ t \in Nat /\ five(e) = u * f /\ twenty(e) = u * t
        BY <3>3
      <4> HIDE DEF five, twenty, e, f, t
      <4>2. /\ 10 * (five(e) - twenty(e)) = u * (10 * (f - t))
            /\ 10 * (twenty(e) - five(e)) = u * (10 * (t - f))
        BY <4>1, UnitOfDifference
      <4>3. 10 * (f - t) \in Int /\ 10 * (t - f) \in Int
        BY <4>1
      <4>4. /\ u * (10 * (f - t)) > u * t <=> 10 * (f - t) > t
            /\ u * (10 * (t - f)) > u * t <=> 10 * (t - f) > t
        BY <4>1, <4>3, UnitKeepsOrder
      <4> QED
        BY <4>1, <4>2, <4>4 DEF f, t
    <3>5. \A s \in {d, e} :
            VolumeTrendScore(s) = CASE Len(s) < 5 -> Even
                                    [] Len(s) >= 5 /\ up(s) -> Moving
                                    [] Len(s) >= 5 /\ down(s) -> Favour("accumulation")
                                    [] OTHER -> Even
      BY <1>1 DEF VolumeTrendScore, Moving
    <3> HIDE DEF up, down, e
    <3> QED
      BY <1>1, <3>4, <3>5
  <2> QED
    BY <2>1, <2>2
<1>5. VolatilityScore(e) = VolatilityScore(d)
  <2>1. \A i \in 1 .. Len(d) : e[i].close = d[i].close
    BY <1>1 DEF SameButUnit
  <2> HIDE DEF e
  <2>2. \A i \in 1 .. Len(d) - 1 : i \in 1 .. Len(d) /\ i + 1 \in 1 .. Len(d)
    BY <1>1
  <2>3. [i \in 1 .. Len(d) - 1 |-> Ln[e[i + 1].close] - Ln[e[i].close]]
          = [i \in 1 .. Len(d) - 1 |-> Ln[d[i + 1].close] - Ln[d[i].close]]
    BY <2>1, <2>2
  <2>4. Spread(e) = Spread(d)
    BY <1>1, <2>3, Zenon DEF Spread
  <2> QED
    BY <1>1, <2>4 DEF VolatilityScore
<1>6. DivergenceScore(e) = DivergenceScore(d)
  <2> DEFINE late(s) == Volumes(SecondHalf(s)) * Len(FirstHalf(s))
             early(s) == Volumes(FirstHalf(s)) * Len(SecondHalf(s))
             rising(s) == late(s) > early(s)
  <2>1. /\ Volumes(FirstHalf(d)) \in Nat /\ Volumes(SecondHalf(d)) \in Nat
        /\ Volumes(FirstHalf(e)) = u * Volumes(FirstHalf(d))
        /\ Volumes(SecondHalf(e)) = u * Volumes(SecondHalf(d))
    BY HalvesAreSame, SumsOfSame
  <2>2. /\ Len(FirstHalf(d)) \in Nat /\ Len(SecondHalf(d)) \in Nat
        /\ Len(FirstHalf(e)) = Len(FirstHalf(d)) /\ Len(SecondHalf(e)) = Len(SecondHalf(d))
    BY HalvesAreSame DEF SameButUnit
  <2> HIDE DEF e
  <2>3. /\ late(d) \in Nat /\ early(d) \in Nat
        /\ late(e) = u * late(d) /\ early(e) = u * early(d)
    BY <2>1, <2>2, UnitOfProduct
  <2> HIDE DEF late, early
  <2>4. rising(e) <=> rising(d)
    BY <2>3, UnitKeepsOrder
  <2>5. \A s \in {d, e} :
          DivergenceScore(s) =
              CASE Len(s) < 5 -> Even
                [] Len(s) >= 5 /\ LatePrice(s) > EarlyPrice(s) /\ ~rising(s)
                      -> Favour("distribution")
                [] Len(s) >= 5 /\ ~(LatePrice(s) > EarlyPrice(s)) /\ rising(s)
                      -> Favour("markdown")
                [] OTHER -> Even
    BY DEF DivergenceScore, late, early
  <2> HIDE DEF rising
  <2> QED
    BY <1>1, <1>2, <2>4, <2>5 DEF e
<1> QED
  BY <1>3, <1>4, <1>5, <1>6 DEF Aggregated

-----------------------------------------------------------------------------
(* The inductive invariant: a verdict is the one on the data there is.     *)

IInv ==
    /\ data \in Seq(Candle) /\ Len(data) <= Window
    /\ verdict = Verdict(data)

THEOREM Invariance == Spec => []IInv
<1>1. Init => IInv
  BY ClassifierAssumption DEF Init, IInv, ClassifierAssumption
<1>2. IInv /\ [Next]_vars => IInv'
  <2> SUFFICES ASSUME IInv, [Next]_vars PROVE IInv'
    OBVIOUS
  <2>1. CASE Classify
    <3>1. PICK candle \in Candle :
            /\ data' = Append(data, candle)
            /\ verdict' = Verdict(Append(data, candle))
      BY <2>1 DEF Classify
    <3>2. /\ Append(data, candle) \in Seq(Candle)
          /\ Len(Append(data, candle)) = Len(data) + 1 /\ Len(data) \in Nat
      BY DEF IInv
    <3>3. Len(data) < Window /\ Window \in Nat
      BY <2>1, ClassifierAssumption DEF Classify, ClassifierAssumption
    <3>4. verdict' = Verdict(data)'
      BY <3>1 DEF Verdict
    <3> QED
      BY <3>1, <3>2, <3>3, <3>4 DEF IInv
  <2>2. CASE UNCHANGED vars
    BY <2>2 DEF IInv, vars
  <2> QED
    BY <2>1, <2>2 DEF Next
<1> QED
  BY <1>1, <1>2, PTL DEF Spec

-----------------------------------------------------------------------------
(* The properties.                                                         *)

(* Classify always answers with a regime, and a confidence between 0 and   *)
(* the total of the scores.                                                *)
THEOREM TypeCorrect == Spec => []TypeOK
<1>1. IInv => TypeOK
  <2> SUFFICES ASSUME IInv PROVE TypeOK
    OBVIOUS
  <2> DEFINE w == Verdict(data).regime
             c == Verdict(data).confidence
  <2>1. w \in Regime /\ c \in Nat /\ c <= 3100
    BY VerdictIsSound
  <2>2. data \in Seq(Candle) /\ Len(data) <= Window
    BY DEF IInv
  <2>3. verdict.regime = w /\ verdict.confidence = c
    BY Zenon DEF IInv
  <2> HIDE DEF w, c
  <2>4. c \in 0 .. 3100
    BY <2>1
  <2>5. verdict.regime \in Regime
    BY <2>1, <2>3
  <2>6. verdict.confidence \in 0 .. Total
    BY <2>3, <2>4 DEF Total
  <2> QED
    BY <2>2, <2>5, <2>6, Zenon DEF TypeOK
<1> QED
  BY <1>1, Invariance, PTL

(* PriceTrendScore's weight makes up for whatever the other three say for  *)
(* the opposite trend.                                                     *)
THEOREM OppositeNeverWins == Spec => []TrendIsHeeded
<1>1. IInv => TrendIsHeeded
  BY ClassifierAssumption, TrendChooses, TrendOutweighs DEF IInv, TrendIsHeeded
<1> QED
  BY <1>1, Invariance, PTL

(* The weights of buildEngine let no regime win that every signal ranks    *)
(* below another.                                                          *)
THEOREM NoCompromiseWins == Spec => []WinnerHasBacking
<1>1. IInv => WinnerHasBacking
  <2> SUFFICES ASSUME IInv PROVE WinnerHasBacking
    OBVIOUS
  <2>1. \/ Backs(PriceTrendScore(data), verdict.regime)
        \/ Backs(VolumeTrendScore(data), verdict.regime)
        \/ Backs(VolatilityScore(data), verdict.regime)
        \/ Backs(DivergenceScore(data), verdict.regime)
    BY WinnerIsBacked DEF IInv
  <2> QED
    BY <2>1 DEF WinnerHasBacking, Backs
<1> QED
  BY <1>1, Invariance, PTL

(* Classify finds the maximum, its lead over the next, and breaks ties by  *)
(* the order of AllRegimes.                                                *)
THEOREM LeadIsTrue == Spec => []ConfidenceIsLead
<1>1. IInv => ConfidenceIsLead
  <2> SUFFICES ASSUME IInv PROVE ConfidenceIsLead
    OBVIOUS
  <2> DEFINE score == Aggregated(data)
             w == verdict.regime
  <2>1. /\ w = Best(score) /\ w \in Regime
        /\ \A r \in Regime \ {w} : score[w] - score[r] >= verdict.confidence
        /\ \E r \in Regime \ {w} : score[w] - score[r] = verdict.confidence
    BY VerdictIsSound DEF IInv
  <2>2. score \in Score /\ \A r \in Regime : score[r] \in Nat
    BY Totals
  <2> HIDE DEF score, w
  <2>3. ASSUME NEW i \in 1 .. 4, score[w] - score[AllRegimes[i]] = 0
        PROVE  \E j \in 1 .. i : AllRegimes[j] = w
    <3>1. score[AllRegimes[i]] = score[w]
      BY <2>1, <2>2, <2>3, RegimesInOrder
    <3> QED
      BY <2>1, <2>2, <3>1, BestIsFirstOfBest
  <2>4. DOMAIN AllRegimes = 1 .. 4
    BY RegimesInOrder
  <2> QED
    BY <2>1, <2>3, <2>4 DEF ConfidenceIsLead, score, w
<1> QED
  BY <1>1, Invariance, PTL

(* Classify gives the same verdict on volumes in any other unit, of which  *)
(* the run has one.                                                        *)
LEMMA VerdictInUnit ==
    ASSUME IInv, NEW u \in Nat \ {0}
    PROVE  Verdict(Rescaled(data, u)) = verdict
<1>1. Aggregated(Rescaled(data, u)) = Aggregated(data)
  BY ClassifierAssumption, ScoresAreSame DEF IInv
<1> QED
  BY <1>1 DEF Verdict, IInv

THEOREM AnyUnitIsFree ==
    ASSUME NEW u \in Nat \ {0}
    PROVE  Spec => [](Verdict(Rescaled(data, u)) = verdict)
<1>1. IInv => Verdict(Rescaled(data, u)) = verdict
  BY VerdictInUnit
<1> QED
  BY <1>1, Invariance, PTL

(* Classify gives the same verdict on volumes in units of a 40th.          *)
THEOREM UnitIsFree == Spec => []UnitOfVolumeIsFree
<1>1. 40 \in Nat \ {0}
  OBVIOUS
<1>2. IInv => UnitOfVolumeIsFree
  BY <1>1, VerdictInUnit DEF UnitOfVolumeIsFree, Rescaled
<1> QED
  BY <1>2, Invariance, PTL
=============================================================================
