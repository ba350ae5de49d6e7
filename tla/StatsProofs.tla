------------------------------ MODULE StatsProofs ------------------------------
(***************************************************************************)
(* Proofs about Stats, for any amounts and any number of rows: whatever    *)
(* the writer does between the two queries, the report is a true one.      *)
(***************************************************************************)
EXTENDS Stats, FoldTheorems

(* A fill is one of an order that is there.                                *)
FillsHaveOrders == \A i \in DOMAIN fills : fills[i].order \in DOMAIN orders

(* The first query has found something, and it is still there.             *)
FoundIsThere == phase = "rows" => report.fills > 0 /\ seen <= FilledOf(Selected)

IInv ==
    /\ TypeOK
    /\ FillsHaveOrders
    /\ FoundIsThere
    /\ TotalWasTrue
    /\ NoFillsNoTotal

-----------------------------------------------------------------------------
(* An appended row changes no other.                                       *)
LEMMA RowAppended ==
    ASSUME NEW S, NEW seq \in Seq(S), NEW e \in S
    PROVE  /\ Append(seq, e) \in Seq(S) /\ Len(Append(seq, e)) = Len(seq) + 1
           /\ DOMAIN Append(seq, e) = DOMAIN seq \cup {Len(seq) + 1}
           /\ Append(seq, e)[Len(seq) + 1] = e
           /\ \A i \in DOMAIN seq : Append(seq, e)[i] = seq[i]
  OBVIOUS

(* What the tables hold.                                                   *)
LEMMA Rows ==
    ASSUME StatsAssumption, TypeOK, FillsHaveOrders
    PROVE  /\ IsFiniteSet(DOMAIN fills) /\ Selected \subseteq DOMAIN fills
           /\ IsFiniteSet(Selected)
           /\ \A i \in DOMAIN fills :
                 /\ fills[i] \in FillRow /\ fills[i].filled \in Nat
                 /\ orders[fills[i].order].amount \in Nat
<1>1. fills \in Seq(FillRow) /\ orders \in Seq(OrderRow)
  BY DEF TypeOK
<1>2. DOMAIN fills = 1 .. Len(fills) /\ Len(fills) \in Nat
  BY <1>1
<1>3. IsFiniteSet(DOMAIN fills) /\ Selected \subseteq DOMAIN fills
  BY <1>2, FS_Interval DEF Selected
<1>4. ASSUME NEW i \in DOMAIN fills
      PROVE  /\ fills[i] \in FillRow /\ fills[i].filled \in Nat
             /\ orders[fills[i].order].amount \in Nat
  <2>1. fills[i] \in FillRow
    BY <1>1
  <2>2. orders[fills[i].order] \in OrderRow
    BY <1>1 DEF FillsHaveOrders
  <2> QED
    BY <2>1, <2>2 DEF FillRow, OrderRow, StatsAssumption
<1> QED
  BY <1>3, <1>4, FS_Subset

(* The sums of a query are natural numbers, and 0 without a row.           *)
LEMMA QuerySums ==
    ASSUME StatsAssumption, TypeOK, FillsHaveOrders
    PROVE  /\ FilledOf(Selected) \in Nat /\ OrderedOf(Selected) \in Nat
           /\ Cardinality(Selected) \in Nat
           /\ Cardinality(Selected) = 0 <=> Selected = {}
           /\ Selected = {} => FilledOf(Selected) = 0 /\ OrderedOf(Selected) = 0
<1> DEFINE filled == [i \in Selected |-> fills[i].filled]
           ordered == [i \in Selected |-> orders[fills[i].order].amount]
<1>1. /\ IsFiniteSet(Selected)
      /\ \A i \in Selected : filled[i] \in Nat /\ ordered[i] \in Nat
  BY Rows
<1>2. /\ FilledOf(Selected) = SumFunctionOnSet(filled, Selected)
      /\ OrderedOf(Selected) = SumFunctionOnSet(ordered, Selected)
  BY DEF FilledOf, OrderedOf, SumFunction
<1> HIDE DEF filled, ordered
<1>3. FilledOf(Selected) \in Nat /\ OrderedOf(Selected) \in Nat
  BY <1>1, <1>2, SumOfNaturals
<1>4. Selected = {} => FilledOf(Selected) = 0 /\ OrderedOf(Selected) = 0
  BY <1>2, SumOfNone
<1> QED
  BY <1>1, <1>3, <1>4, FS_CardinalityType, FS_EmptySet

(* What was selected stays selected, with the same amounts.                *)
LEMMA SelectionGrows ==
    ASSUME StatsAssumption, TypeOK, FillsHaveOrders, TypeOK', FillsHaveOrders',
           DOMAIN fills \subseteq DOMAIN fills', DOMAIN orders \subseteq DOMAIN orders',
           \A i \in DOMAIN fills : fills'[i] = fills[i],
           \A o \in DOMAIN orders : orders'[o] = orders[o]
    PROVE  FilledOf(Selected)' \in Nat /\ FilledOf(Selected) <= FilledOf(Selected)'
<1> DEFINE before == [i \in Selected |-> fills[i].filled]
           after == [i \in Selected' |-> fills'[i].filled]
<1>1. Selected \subseteq Selected'
  BY DEF Selected, FillsHaveOrders
<1>2. IsFiniteSet(Selected') /\ \A i \in Selected' : after[i] \in Nat
  <2>1. fills' \in Seq(FillRow)
    BY DEF TypeOK
  <2>2. DOMAIN fills' = 1 .. Len(fills') /\ Len(fills') \in Nat
    BY <2>1
  <2>3. IsFiniteSet(DOMAIN fills') /\ Selected' \subseteq DOMAIN fills'
    BY <2>2, FS_Interval DEF Selected
  <2>4. \A i \in DOMAIN fills' : fills'[i] \in FillRow
    BY <2>1
  <2>5. \A i \in DOMAIN fills' : fills'[i].filled \in Nat
    BY <2>4 DEF FillRow, StatsAssumption
  <2> QED
    BY <2>3, <2>5, FS_Subset
<1>3. IsFiniteSet(Selected) /\ \A i \in Selected : before[i] \in Int /\ after[i] = before[i]
  BY <1>1, Rows
<1>4. /\ FilledOf(Selected) = SumFunctionOnSet(before, Selected)
      /\ FilledOf(Selected)' = SumFunctionOnSet(after, Selected')
  BY DEF FilledOf, SumFunction
<1> HIDE DEF before, after
<1>5. SumFunctionOnSet(before, Selected) = SumFunctionOnSet(after, Selected)
  BY <1>3, SumSame
<1>6. SumFunctionOnSet(after, Selected) <= SumFunctionOnSet(after, Selected')
  BY <1>1, <1>2, SumOfMore
<1>7. SumFunctionOnSet(after, Selected') \in Nat
  BY <1>2, SumOfNaturals
<1> QED
  BY <1>4, <1>5, <1>6, <1>7

(* The writer takes nothing away from what the reader has found.           *)
LEMMA WriterStep ==
    ASSUME StatsAssumption, IInv, TypeOK', FillsHaveOrders',
           DOMAIN fills \subseteq DOMAIN fills', DOMAIN orders \subseteq DOMAIN orders',
           \A i \in DOMAIN fills : fills'[i] = fills[i],
           \A o \in DOMAIN orders : orders'[o] = orders[o],
           UNCHANGED <<phase, report, seen>>
    PROVE  IInv'
<1>1. /\ FilledOf(Selected) \in Nat /\ FilledOf(Selected)' \in Nat
      /\ FilledOf(Selected) <= FilledOf(Selected)'
  BY SelectionGrows, QuerySums DEF IInv
<1>2. seen \in Nat /\ report.total \in Nat
  BY DEF IInv, TypeOK, Report
<1> QED
  BY <1>1, <1>2 DEF IInv, FoundIsThere, TotalWasTrue, NoFillsNoTotal, Blank

(* Every step of the writer and of the reader keeps the invariant.         *)
LEMMA Step ==
    ASSUME StatsAssumption, IInv, [Next]_vars
    PROVE  IInv'
<1>0. TypeOK /\ FillsHaveOrders
  BY DEF IInv
<1>1. orders \in Seq(OrderRow) /\ fills \in Seq(FillRow)
  BY <1>0 DEF TypeOK
<1>2. CASE UNCHANGED vars
  <2>1. UNCHANGED <<orders, fills, phase, report, seen>>
    BY <1>2 DEF vars
  <2>2. FilledOf(Selected)' = FilledOf(Selected)
    BY <2>1 DEF FilledOf, Selected
  <2> QED
    BY <2>1, <2>2 DEF IInv, TypeOK, FillsHaveOrders, FoundIsThere, TotalWasTrue, NoFillsNoTotal
<1>3. CASE SaveOrder
  <2>1. PICK row \in OrderRow : orders' = Append(orders, row)
    BY <1>3 DEF SaveOrder
  <2>2. /\ orders' \in Seq(OrderRow) /\ Len(orders') = Len(orders) + 1
        /\ DOMAIN orders' = DOMAIN orders \cup {Len(orders) + 1}
        /\ \A o \in DOMAIN orders : orders'[o] = orders[o]
    BY <1>1, <2>1, RowAppended
  <2>3. Len(orders) < MaxOrders /\ UNCHANGED <<fills, phase, report, seen>>
    BY <1>3 DEF SaveOrder
  <2>4. TypeOK'
    BY <1>0, <1>1, <2>2, <2>3 DEF TypeOK, StatsAssumption
  <2>5. FillsHaveOrders'
    BY <1>0, <2>2, <2>3 DEF FillsHaveOrders
  <2> QED
    BY <2>2, <2>3, <2>4, <2>5, WriterStep
<1>4. CASE SaveFill
  <2>1. PICK amount \in Amount, recent \in BOOLEAN :
          fills' = Append(fills,
              [order |-> Len(orders), filled |-> amount, recent |-> recent])
    BY <1>4 DEF SaveFill
  <2> DEFINE row == [order |-> Len(orders), filled |-> amount, recent |-> recent]
  <2>2. Len(orders) \in 1 .. MaxOrders /\ Len(orders) \in DOMAIN orders
    BY <1>0, <1>1, <1>4 DEF SaveFill, TypeOK, StatsAssumption
  <2>3. row \in FillRow /\ row.order = Len(orders)
    BY <2>2 DEF FillRow
  <2> HIDE DEF row
  <2>4. /\ fills' \in Seq(FillRow) /\ Len(fills') = Len(fills) + 1
        /\ DOMAIN fills' = DOMAIN fills \cup {Len(fills) + 1}
        /\ fills'[Len(fills) + 1] = row
        /\ \A i \in DOMAIN fills : fills'[i] = fills[i]
    <3>1. fills' = Append(fills, row)
      BY <2>1 DEF row
    <3> QED
      BY <1>1, <2>3, <3>1, RowAppended
  <2>5. Len(fills) < MaxFills /\ UNCHANGED <<orders, phase, report, seen>>
    BY <1>4 DEF SaveFill
  <2>6. TypeOK'
    BY <1>0, <1>1, <2>4, <2>5 DEF TypeOK, StatsAssumption
  <2>7. FillsHaveOrders'
    BY <1>0, <2>2, <2>3, <2>4, <2>5 DEF FillsHaveOrders
  <2> QED
    BY <2>4, <2>5, <2>6, <2>7, WriterStep
<1>5. CASE Aggregate
  <2>1. /\ seen' = FilledOf(Selected)
        /\ report' = [fills |-> Cardinality(Selected), total |-> 0,
                      rateFilled |-> FilledOf(Selected),
                      rateOrdered |-> OrderedOf(Selected)]
        /\ phase' = IF Selected = {} THEN "done" ELSE "rows"
        /\ UNCHANGED <<orders, fills>>
    BY <1>5 DEF Aggregate
  <2>2. /\ FilledOf(Selected) \in Nat /\ OrderedOf(Selected) \in Nat
        /\ Cardinality(Selected) \in Nat
        /\ Cardinality(Selected) = 0 <=> Selected = {}
        /\ Selected = {} => FilledOf(Selected) = 0 /\ OrderedOf(Selected) = 0
    BY <1>0, QuerySums
  <2>3. FilledOf(Selected)' = FilledOf(Selected)
    BY <2>1 DEF FilledOf, Selected
  <2>4. TypeOK' /\ FillsHaveOrders'
    BY <1>0, <2>1, <2>2 DEF TypeOK, Report, FillsHaveOrders
  <2>5. FoundIsThere'
    BY <2>1, <2>2, <2>3 DEF FoundIsThere
  <2>6. TotalWasTrue' /\ NoFillsNoTotal'
    BY <2>1, <2>2, <2>3 DEF TotalWasTrue, NoFillsNoTotal, Blank
  <2> QED
    BY <2>4, <2>5, <2>6 DEF IInv
<1>6. CASE ReadRows
  <2>1. /\ phase = "rows" /\ phase' = "done"
        /\ report' = [report EXCEPT !.total = FilledOf(Selected)]
        /\ UNCHANGED <<orders, fills, seen>>
    BY <1>6 DEF ReadRows
  <2>2. FilledOf(Selected) \in Nat
    BY <1>0, QuerySums
  <2>3. FilledOf(Selected)' = FilledOf(Selected)
    BY <2>1 DEF FilledOf, Selected
  <2>4. report \in Report
    BY <1>0 DEF TypeOK
  <2>5. /\ report' \in Report /\ report'.total = FilledOf(Selected)
        /\ report'.fills = report.fills
    BY <2>1, <2>2, <2>4 DEF Report
  <2>6. TypeOK' /\ FillsHaveOrders' /\ FoundIsThere'
    BY <1>0, <2>1, <2>5 DEF TypeOK, FillsHaveOrders, FoundIsThere
  <2>7. report.fills > 0 /\ seen <= FilledOf(Selected)
    BY <2>1 DEF IInv, FoundIsThere
  <2>8. TotalWasTrue'
    BY <2>1, <2>2, <2>3, <2>5, <2>7 DEF TotalWasTrue
  <2>9. NoFillsNoTotal'
    BY <2>5, <2>7 DEF NoFillsNoTotal
  <2> QED
    BY <2>6, <2>8, <2>9 DEF IInv
<1>7. CASE QueryFails
  BY <1>0, <1>7 DEF QueryFails, IInv, TypeOK, FillsHaveOrders, FoundIsThere, TotalWasTrue,
     NoFillsNoTotal, Blank, Report
<1> QED
  BY <1>2, <1>3, <1>4, <1>5, <1>6, <1>7 DEF Next

(* The invariant holds throughout.                                         *)
THEOREM Invariance == Spec => []IInv
<1>1. Init => IInv
  BY StatsAssumption DEF Init, IInv, TypeOK, FillsHaveOrders, FoundIsThere, TotalWasTrue,
     NoFillsNoTotal, Blank, Report, StatsAssumption
<1>2. IInv /\ [Next]_vars => IInv'
  BY StatsAssumption, Step
<1> QED
  BY <1>1, <1>2, PTL DEF Spec

(* Every variable keeps to its type: every fill has an order.              *)
THEOREM TypeCorrect == Spec => []TypeOK
<1>1. IInv => TypeOK
  BY DEF IInv
<1> QED
  BY <1>1, Invariance, PTL

(* The reported total is one that the tables had while the command ran.    *)
THEOREM TotalIsTrue == Spec => []TotalWasTrue
<1>1. IInv => TotalWasTrue
  BY DEF IInv
<1> QED
  BY <1>1, Invariance, PTL

(* A report of no fills reports nothing else.                              *)
THEOREM NothingOfNothing == Spec => []NoFillsNoTotal
<1>1. IInv => NoFillsNoTotal
  BY DEF IInv
<1> QED
  BY <1>1, Invariance, PTL
================================================================================
