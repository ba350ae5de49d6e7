--------------------------------- MODULE Stats ---------------------------------
(***************************************************************************)
(* `buyback stats` (SQLiteStore.GetFillStats, internal/store/sqlite.go)    *)
(* reading the database file that a `buyback run` keeps writing to.        *)
(*                                                                         *)
(* Every statement is a transaction of its own, and GetFillStats has two:  *)
(* the aggregates, and the rows again for the exact sums.  The writer may  *)
(* come between them.  Amounts are whole dollars; the filter on the token  *)
(* and the time of a fill is one bit of an order and one of a fill.        *)
(***************************************************************************)
EXTENDS Integers, Sequences, FiniteSets, Functions

CONSTANTS
    Amount,         \* the amounts of orders and fills
    MaxOrders,      \* bound on the rows of orders
    MaxFills        \* bound on the rows of fills

ASSUME StatsAssumption ==
    /\ Amount \subseteq Nat
    /\ MaxOrders \in Nat /\ MaxFills \in Nat

VARIABLES
    orders,         \* the table orders, by id
    fills,          \* the table fills
    phase,          \* where GetFillStats stands
    report,         \* the FillStats under construction or returned
    seen            \* history: the exact sum at the time of the first query

vars == <<orders, fills, phase, report, seen>>

OrderRow == [amount : Amount, mine : BOOLEAN]

FillRow == [order : 1 .. MaxOrders, filled : Amount, recent : BOOLEAN]

Report == [fills : Nat, total : Nat, rateFilled : Nat, rateOrdered : Nat]

TypeOK ==
    /\ orders \in Seq(OrderRow) /\ Len(orders) <= MaxOrders
    /\ fills \in Seq(FillRow) /\ Len(fills) <= MaxFills
    /\ phase \in {"idle", "rows", "done", "failed"}
    /\ report \in Report
    /\ seen \in Nat

Blank == [fills |-> 0, total |-> 0, rateFilled |-> 0, rateOrdered |-> 0]

Init ==
    /\ orders = <<>> /\ fills = <<>>
    /\ phase = "idle"
    /\ report = Blank
    /\ seen = 0

-----------------------------------------------------------------------------
(* The writer.                                                             *)

SaveOrder ==
    /\ Len(orders) < MaxOrders
    /\ \E row \in OrderRow : orders' = Append(orders, row)
    /\ UNCHANGED <<fills, phase, report, seen>>

(* Mutant of SaveFill: the fills are saved without their order as well.    *)
SaveFillAnyway ==
    /\ Len(fills) < MaxFills
    /\ \E amount \in Amount, recent \in BOOLEAN :
          fills' = Append(fills,
              [order |-> Len(orders), filled |-> amount, recent |-> recent])
    /\ UNCHANGED <<orders, phase, report, seen>>

(* A cycle saves the fills of an order right after the order.              *)
SaveFill ==
    /\ orders # <<>> /\ Len(fills) < MaxFills
    /\ \E amount \in Amount, recent \in BOOLEAN :
          fills' = Append(fills,
              [order |-> Len(orders), filled |-> amount, recent |-> recent])
    /\ UNCHANGED <<orders, phase, report, seen>>

-----------------------------------------------------------------------------
(* The reader.                                                             *)

(* fills JOIN orders JOIN cycles WHERE token = ? AND filled_at >= ?        *)
Selected == {i \in DOMAIN fills : fills[i].recent /\ orders[fills[i].order].mine}

FilledOf(rows) == SumFunction([i \in rows |-> fills[i].filled])

(* The amount of an order counts once for every fill row of the join.      *)
OrderedOf(rows) == SumFunction([i \in rows |-> orders[fills[i].order].amount])

(* Mutant of Aggregate: it goes on to the rows without any fill as well.   *)
AggregateAlways ==
    /\ phase # "rows"
    /\ seen' = FilledOf(Selected)
    /\ report' = [fills |-> Cardinality(Selected), total |-> 0,
                  rateFilled |-> FilledOf(Selected),
                  rateOrdered |-> OrderedOf(Selected)]
    /\ phase' = "rows"
    /\ UNCHANGED <<orders, fills>>

(* The first query, with the return when there are no fills.               *)
Aggregate ==
    /\ phase # "rows"
    /\ seen' = FilledOf(Selected)
    /\ report' = [fills |-> Cardinality(Selected), total |-> 0,
                  rateFilled |-> FilledOf(Selected),
                  rateOrdered |-> OrderedOf(Selected)]
    /\ phase' = IF Selected = {} THEN "done" ELSE "rows"
    /\ UNCHANGED <<orders, fills>>

(* Mutant of ReadRows: the WHERE clause is missing from the second query.  *)
ReadRowsOfAll ==
    /\ phase = "rows"
    /\ report' = [report EXCEPT !.total = FilledOf(DOMAIN fills)]
    /\ phase' = "done"
    /\ UNCHANGED <<orders, fills, seen>>

(* The second query, for the exact sums.                                   *)
ReadRows ==
    /\ phase = "rows"
    /\ report' = [report EXCEPT !.total = FilledOf(Selected)]
    /\ phase' = "done"
    /\ UNCHANGED <<orders, fills, seen>>

(* Either statement may fail; then there is no report at all.              *)
QueryFails ==
    /\ phase' = "failed"
    /\ report' = Blank
    /\ seen' = 0
    /\ UNCHANGED <<orders, fills>>

Next == SaveOrder \/ SaveFill \/ Aggregate \/ ReadRows \/ QueryFails

Spec == Init /\ [][Next]_vars

-----------------------------------------------------------------------------
(* However the writer comes in between, the reported total is one the      *)
(* database had while the command ran: it is not below that of the first   *)
(* query, which the fill rate was computed from, nor above the present.    *)
TotalWasTrue ==
    phase = "done" => seen <= report.total /\ report.total <= FilledOf(Selected)

(* A report of no fills is one of no dollars and no rate, whatever has     *)
(* been written since it was begun.                                        *)
NoFillsNoTotal ==
    phase = "done" /\ report.fills = 0 => report = Blank

(* "Fill quality stats - average slippage, fill rate": when every order    *)
(* was filled to its amount, the fill rate is one.                         *)
FilledOrdersHaveFullRate ==
    LET FillsOf(o) == {i \in DOMAIN fills : fills[i].order = o}
        AllFilled == /\ \A i \in DOMAIN fills : fills[i].recent
                     /\ \A o \in DOMAIN orders :
                           orders[o].mine /\ FilledOf(FillsOf(o)) = orders[o].amount
    IN  phase = "done" /\ AllFilled /\ report.fills = Len(fills)
            => report.rateFilled = report.rateOrdered
=============================================================================
