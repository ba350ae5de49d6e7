------------------------------ MODULE MarketData ------------------------------
(***************************************************************************)
(* Client.GetOHLCV of internal/market/coingecko/client.go: candles from    *)
(* one request, volumes from another, brought together by their times.     *)
(*                                                                         *)
(* A reply is a sequence of raw entries.  Those that are too short or hold *)
(* something that is not a number have ok = FALSE.                         *)
(***************************************************************************)
EXTENDS Integers, Sequences, SequencesExt

(* fetchOHLC, fetchVolumes: entries that do not parse are passed over.     *)
Parsed(reply) == SelectSeq(reply, LAMBDA entry : entry.ok)

Distance(s, t) == IF s < t THEN t - s ELSE s - t

(* Mutant of ClosestVolume: the difference keeps its sign.                 *)
ClosestVolumeSigned(target, points) ==
    IF points = <<>> THEN 0
    ELSE FoldLeft(LAMBDA closest, p :
                      IF target - p.time < target - closest.time THEN p ELSE closest,
                  Head(points), points).volume

(* The first of the nearest points.                                        *)
ClosestVolume(target, points) ==
    IF points = <<>> THEN 0
    ELSE FoldLeft(LAMBDA closest, p :
                      IF Distance(target, p.time) < Distance(target, closest.time)
                      THEN p ELSE closest,
                  Head(points), points).volume

GetOHLCV(ohlc, chart) ==
    LET candles == Parsed(ohlc)
        points  == Parsed(chart)
    IN  [i \in DOMAIN candles |->
            [low |-> candles[i].low, close |-> candles[i].close,
             high |-> candles[i].high,
             volume |-> ClosestVolume(candles[i].time, points)]]

-----------------------------------------------------------------------------
(* What the loop is to find: the volume of a point to which none is nearer *)
(* and, among equals, of the first one.                                    *)
IsNearest(volume, target, points) ==
    \/ points = <<>> /\ volume = 0
    \/ \E k \in DOMAIN points :
          /\ volume = points[k].volume
          /\ \A j \in DOMAIN points :
                LET near == Distance(target, points[k].time)
                    other == Distance(target, points[j].time)
                IN  near < other \/ (near = other /\ k <= j)
=============================================================================
