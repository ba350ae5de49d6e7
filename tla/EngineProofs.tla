------------------------------ MODULE EngineProofs ------------------------------
(***************************************************************************)
(* Proofs about Engine, for any exchanges, any number of sub-orders, any   *)
(* number of calls, crashes and restarts, and any mixture of faults: the   *)
(* types, the links between the tables, the truth of the fill rows, and    *)
(* that every step is one of Ledger or leaves it alone, from which it      *)
(* follows that a process at rest has recorded what venues hold.           *)
(***************************************************************************)
EXTENDS Engine, TLAPS

(* The orders of the current call carry its number, the others a lower one *)
(* and none carries 0, the number of what a dry run makes up.              *)
CallsAreNumbered ==
    /\ \A o \in orders : o.call = calls /\ o.call > 0
    /\ \A o \in past : o.call < calls /\ o.call > 0

(* Where the process can stand with what in memory.                        *)
PhasesAreKept ==
    /\ pc \in {"ohlcv", "price", "depth", "route", "routed"} => calls < MaxCycles
    /\ pc \in {"routed", "execute"} => allocs # {}
    /\ pc \notin {"routed", "execute", "saveCycle", "saveRows"} => allocs = {}
    /\ pc = "execute" => ~flags.dryRun
    /\ todo # {} \/ due # {} => pc = "saveRows" /\ allocs # {}
    /\ filled \subseteq placed

(* What the row of the cycle that is being saved must say.                 *)
ThisCall == IF flags.dryRun THEN 0 ELSE calls

(* The order rows still to write all belong to the cycle row of this cycle.*)
TodoIsLinked ==
    /\ \A row \in todo :
          row.cycle \in DOMAIN cycleRows /\ cycleRows[row.cycle].call = ThisCall
    /\ \A row, r \in todo : row.cycle = r.cycle

(* The fill rows still to write are those of the latest order row, of what *)
(* Execute (or the simulation) filled there, and not in the table yet.     *)
DueIsLinked ==
    /\ \A row \in due :
          /\ row.order \in DOMAIN orderRows
          /\ orderRows[row.order].exchange = row.fill.exchange
          /\ cycleRows[orderRows[row.order].cycle].call = row.fill.call
          /\ row.fill.call > 0 => row.fill \in filled /\ ~Recorded(row.fill)
          /\ \A r \in todo : r.exchange # row.fill.exchange
    /\ \A row, r \in due : row.order = r.order

(* The rows of a plan in progress.                                         *)
PlanIsLinked ==
    /\ Len(plan) >= 1 => plan[1] \in DOMAIN cycleRows /\ cycleRows[plan[1]].call = 0
    /\ Len(plan) >= 2 =>
          plan[2] \in DOMAIN orderRows /\ orderRows[plan[2]].cycle = plan[1]

(* A row of cycles for every regime row that is written or about to be.    *)
RegimesAreCounted ==
    regimeRows + (IF pc = "saveRows" THEN 1 ELSE 0)
               + (IF plan = <<>> THEN 0 ELSE 1) <= Len(cycleRows)

(* The orders of this call are those of the allocations at hand.           *)
OrdersAreAllocated ==
    pc \in {"execute", "saveCycle", "saveRows"} /\ ~flags.dryRun /\ allocs # {} =>
        \A o \in orders : o.exchange \in allocs

Settled(o) == Recorded(o) \/ o.call \in trouble

Busy == ~flags.dryRun /\ allocs # {} /\ pc \in {"execute", "saveCycle", "saveRows"}

Awaited(o) == \E row \in todo : row.exchange = o.exchange

(* The books: everything given to earlier calls is settled, and outside of *)
(* the steps from Execute to the last row that of this call as well.       *)
(* Within them nothing is recorded before its order row, and what is not   *)
(* settled has its fill or its order row still to come.                    *)
BooksAreKept ==
    /\ \A o \in past : Settled(o)
    /\ ~Busy => \A o \in orders : Settled(o)
    /\ Busy /\ pc \in {"execute", "saveCycle"} => \A o \in orders : ~Recorded(o)
    /\ Busy /\ pc \in {"saveCycle", "saveRows"} => filled = orders
    /\ Busy /\ pc = "saveRows" => \A o \in orders :
          /\ Settled(o) \/ Awaited(o) \/ \E row \in due : row.fill = o
          /\ Awaited(o) => ~Recorded(o)

IInv ==
    /\ TypeOK
    /\ CallsAreNumbered
    /\ PhasesAreKept
    /\ OrdersAreAllocated
    /\ TodoIsLinked
    /\ DueIsLinked
    /\ PlanIsLinked
    /\ RegimesAreCounted
    /\ BooksAreKept
    /\ RowsAreLinked
    /\ FillRowsAreTrue

-----------------------------------------------------------------------------
(* A table after an insert: one more row, the others where they were.      *)
LEMMA Inserted ==
    ASSUME NEW Row, NEW table \in Seq(Row), NEW row \in Row
    PROVE  /\ Append(table, row) \in Seq(Row)
           /\ DOMAIN Append(table, row) = DOMAIN table \cup {Len(table) + 1}
           /\ Len(table) + 1 \notin DOMAIN table
           /\ Len(Append(table, row)) = Len(table) + 1
           /\ Append(table, row)[Len(table) + 1] = row
           /\ \A i \in DOMAIN table : Append(table, row)[i] = table[i]
  OBVIOUS

(* A row of a table is a row.                                              *)
LEMMA RowOf ==
    ASSUME NEW Row, NEW table \in Seq(Row), NEW i \in DOMAIN table
    PROVE  table[i] \in Row
  OBVIOUS

(* A row inserted into fills records its own order, and nothing else.      *)
LEMMA RecordedInserted ==
    ASSUME TypeOK, NEW row \in FillRow, fillRows' = Append(fillRows, row)
    PROVE  \A o : Recorded(o)' <=> Recorded(o) \/ o = row.fill
<1>1. fillRows \in Seq(FillRow)
  BY DEF TypeOK
<1> QED
  BY <1>1, Inserted DEF Recorded

(* What is recorded depends on the table of fills alone.                   *)
LEMMA RecordedSame ==
    ASSUME UNCHANGED fillRows
    PROVE  \A o : Recorded(o)' <=> Recorded(o)
  BY DEF Recorded

(* What is unsettled is an order of this call.                             *)
LEMMA UnsettledIsThisCall ==
    ASSUME IInv
    PROVE  /\ Unsettled \subseteq 0 .. MaxCycles
           /\ Unsettled \subseteq {calls}
           /\ Busy => \A o \in orders : Recorded(o) \/ o.call \in Unsettled
           /\ \A c \in Unsettled : \E o \in orders : ~Recorded(o) /\ o.call = c
           /\ \A c \in Unsettled : c > 0
  BY DEF IInv, TypeOK, CallsAreNumbered, Unsettled, Busy, Order

(* Every step keeps the types.                                             *)
LEMMA TypeStep ==
    ASSUME EngineAssumption, IInv, [Next]_vars
    PROVE  TypeOK'
<1> USE EngineAssumption DEF EngineAssumption
<1>0. TypeOK /\ PhasesAreKept /\ Unsettled \subseteq 0 .. MaxCycles
  BY UnsettledIsThisCall DEF IInv
<1> USE <1>0
<1>1. CASE Tick \/ Serve \/ Stop \/ Interrupt \/ UNCHANGED vars
  BY <1>1 DEF Tick, Serve, Stop, Interrupt, TypeOK, vars, loop, call, book,
      tables, saving, planning
<1>2. CASE Crash \/ Restart
  <2>1. CASE Crash
    <3>1. crashes' \in 0 .. MaxCrashes /\ trouble' \subseteq 0 .. MaxCycles
      BY <2>1 DEF Crash, TypeOK
    <3> QED
      BY <2>1, <3>1 DEF Crash, Die, TypeOK, call, book, tables, planning
  <2>2. CASE Restart
    BY <2>2 DEF Restart, TypeOK, call, book, tables, saving, planning
  <2> QED
    BY <1>2, <2>1, <2>2
<1>3. CASE ReadOHLCV \/ OHLCVFails \/ ReadPrice \/ PriceFails \/ ReadDepth \/ Route
             \/ RouteFails \/ Simulate
  <2>1. CASE ReadOHLCV \/ OHLCVFails \/ ReadPrice \/ RouteFails \/ Simulate
    BY <2>1 DEF ReadOHLCV, OHLCVFails, ReadPrice, RouteFails, Simulate, Decide, GiveUp,
        Leave, Ended, TypeOK, loop, call, book, tables, saving, planning
  <2>2. CASE PriceFails
    BY <2>2 DEF PriceFails, Decide, Die, TypeOK, loop, call, book, tables, saving, planning
  <2>3. CASE ReadDepth
    BY <2>3 DEF ReadDepth, Decide, TypeOK, loop, call, book, tables, saving, planning
  <2>4. CASE Route
    BY <2>4 DEF Route, Answering, Decide, TypeOK, loop, call, book, tables, saving, planning
  <2> QED
    BY <1>3, <2>1, <2>2, <2>3, <2>4
<1>4. CASE BeginExecute
  <2>1. calls + 1 \in 0 .. MaxCycles
    BY <1>4 DEF BeginExecute, TypeOK, PhasesAreKept
  <2>2. [call : {calls + 1}, exchange : allocs, sub : 1 .. Subs] \subseteq Order
    BY <2>1 DEF TypeOK, Order
  <2> QED
    BY <1>4, <2>1, <2>2 DEF BeginExecute, TypeOK, loop, tables, saving, planning
<1>5. ASSUME NEW o \in orders, Accept(o) \/ Record(o) PROVE TypeOK'
  BY <1>5 DEF Accept, Record, Call!Accept, Call!Record, Others, TypeOK, loop, book,
      tables, saving, planning
<1>6. ASSUME NEW o \in past, AcceptLate(o) PROVE TypeOK'
  BY <1>6 DEF AcceptLate, TypeOK, loop, call, tables, saving, planning
<1>7. CASE ExecuteReturns
  BY <1>7 DEF ExecuteReturns, Call!Return, Leave, Ended, Others, TypeOK, loop, book,
      tables, saving, planning
<1>8. CASE SkipSaving \/ SaveCycleFails \/ SaveOrderFails \/ SaveFillFails
  BY <1>8 DEF SkipSaving, SaveCycleFails, SaveOrderFails, SaveFillFails, Leave, Ended,
      Rest, Cycling, TypeOK, loop, call, book, tables, saving, planning
<1>9. CASE SaveCycle
  <2>1. [cycle : {Len(cycleRows) + 1}, exchange : allocs] \subseteq OrderRow
    BY DEF TypeOK, OrderRow
  <2>2. [call |-> IF allocs = {} \/ flags.dryRun THEN 0 ELSE calls] \in CycleRow
    BY DEF TypeOK, CycleRow
  <2>3. cycleRows' \in Seq(CycleRow)
    BY <1>9, <2>2, Inserted DEF SaveCycle, TypeOK
  <2> QED
    BY <1>9, <2>1, <2>3 DEF SaveCycle, Rest, Cycling, TypeOK, loop, call, book, planning
<1>10. CASE SaveOrder
  <2>1. PICK row \in Foremost :
          /\ orderRows' = Append(orderRows, row)
          /\ due' = {[order |-> Len(orderRows) + 1, fill |-> f] :
                        f \in {x \in Fills : x.exchange = row.exchange}}
          /\ todo' = todo \ {row}
    BY <1>10 DEF SaveOrder
  <2>2. row \in OrderRow
    BY <2>1 DEF Foremost, TypeOK
  <2>3. orderRows' \in Seq(OrderRow)
    BY <2>1, <2>2, Inserted DEF TypeOK
  <2>4. Fills \subseteq Order
    BY DEF Fills, TypeOK, Order
  <2>5. due' \subseteq FillRow
    BY <2>1, <2>4 DEF FillRow, TypeOK
  <2> QED
    BY <1>10, <2>1, <2>3, <2>5 DEF SaveOrder, Rest, Cycling, TypeOK, loop, call, book,
        planning
<1>11. CASE SaveFill
  <2>1. PICK row \in due : fillRows' = Append(fillRows, row) /\ due' = due \ {row}
    BY <1>11 DEF SaveFill
  <2>2. fillRows' \in Seq(FillRow)
    BY <2>1, Inserted DEF TypeOK
  <2> QED
    BY <1>11, <2>1, <2>2 DEF SaveFill, Rest, Cycling, TypeOK, loop, call, book, planning
<1>12. CASE SaveRegime
  <2>1. regimeRows' \in Nat
    BY <1>12 DEF SaveRegime, TypeOK
  <2> QED
    BY <1>12, <2>1 DEF SaveRegime, Leave, Ended, Rest, TypeOK, loop, call, book, saving,
        planning
<1>13. CASE Plan
  <2>1. CASE PlanSavesCycle
    <3>1. [call |-> 0] \in CycleRow
      BY DEF CycleRow
    <3>2. cycleRows' \in Seq(CycleRow)
      BY <2>1, <3>1, Inserted DEF PlanSavesCycle, TypeOK
    <3> QED
      BY <2>1, <3>2 DEF PlanSavesCycle, Process, TypeOK, loop, call, book, saving
  <2>2. CASE PlanSavesOrder
    <3>1. PICK x \in Exchange :
            orderRows' = Append(orderRows, [cycle |-> plan[1], exchange |-> x])
      BY <2>2 DEF PlanSavesOrder
    <3>2. [cycle |-> plan[1], exchange |-> x] \in OrderRow
      BY <2>2 DEF PlanSavesOrder, OrderRow, TypeOK
    <3>3. orderRows' \in Seq(OrderRow)
      BY <3>1, <3>2, Inserted DEF TypeOK
    <3> QED
      BY <2>2, <3>3 DEF PlanSavesOrder, Process, TypeOK, loop, call, book, saving
  <2>3. CASE PlanSavesFill
    <3>0. PlanIsLinked /\ Len(plan) = 2 /\ plan \in Seq(Nat)
      BY <2>3 DEF PlanSavesFill, IInv, TypeOK
    <3>1. plan[2] \in Nat
      <4>1. DOMAIN plan = 1 .. 2
        BY <3>0
      <4> QED
        BY <3>0, <4>1, RowOf
    <3>2. plan[2] \in DOMAIN orderRows
      BY <3>0 DEF PlanIsLinked
    <3>3. orderRows[plan[2]] \in OrderRow
      BY <3>2, RowOf DEF TypeOK
    <3>4. orderRows[plan[2]].exchange \in Exchange
      BY <3>3 DEF OrderRow
    <3>5. [order |-> plan[2],
           fill |-> [call |-> 0, exchange |-> orderRows[plan[2]].exchange, sub |-> 0]]
              \in FillRow
      BY <3>1, <3>4 DEF FillRow, Order
    <3>6. fillRows' \in Seq(FillRow)
      BY <2>3, <3>5, Inserted DEF PlanSavesFill, TypeOK
    <3> QED
      BY <2>3, <3>6 DEF PlanSavesFill, Process, TypeOK, loop, call, book, saving
  <2>4. CASE PlanSavesRegime
    BY <2>4 DEF PlanSavesRegime, Process, TypeOK, loop, call, book, saving
  <2> QED
    BY <1>13, <2>1, <2>2, <2>3, <2>4 DEF Plan
<1> QED
  BY <1>1, <1>2, <1>3, <1>4, <1>5, <1>6, <1>7, <1>8, <1>9, <1>10, <1>11, <1>12, <1>13
  DEF Next, Cycle, Persist

(* Every step keeps the numbering of calls and the phases of a cycle.      *)
LEMMA PhaseStep ==
    ASSUME EngineAssumption, IInv, [Next]_vars
    PROVE  CallsAreNumbered' /\ PhasesAreKept'
<1>0. TypeOK /\ CallsAreNumbered /\ PhasesAreKept
  BY DEF IInv
<1> USE <1>0
<1>1. CASE Tick \/ Serve \/ Stop \/ Interrupt \/ UNCHANGED vars
  BY <1>1 DEF Tick, Serve, Stop, Interrupt, Room, CallsAreNumbered, PhasesAreKept,
      vars, loop, call, book, saving
<1>2. CASE Crash \/ Restart
  BY <1>2 DEF Crash, Restart, Running, Room, Die, CallsAreNumbered, PhasesAreKept, loop,
      call, book, saving
<1>3. CASE ReadOHLCV \/ OHLCVFails \/ ReadPrice \/ PriceFails \/ ReadDepth \/ Route
             \/ RouteFails \/ Simulate
  <2>1. UNCHANGED <<calls, call, book>>
    BY <1>3 DEF ReadOHLCV, OHLCVFails, ReadPrice, PriceFails, ReadDepth, Route, RouteFails,
        Simulate, Decide, GiveUp, Die, call, book
  <2>2. CallsAreNumbered'
    BY <2>1 DEF CallsAreNumbered, call, book
  <2>3. CASE ReadOHLCV \/ OHLCVFails \/ ReadPrice \/ RouteFails
    BY <2>1, <2>2, <2>3 DEF ReadOHLCV, OHLCVFails, ReadPrice, RouteFails, Decide, GiveUp,
        Leave, Ended, PhasesAreKept, loop, call, saving
  <2>4. CASE PriceFails
    BY <2>1, <2>2, <2>4 DEF PriceFails, Decide, Die, PhasesAreKept, loop, call, saving
  <2>5. CASE ReadDepth
    BY <2>1, <2>2, <2>5 DEF ReadDepth, Decide, PhasesAreKept, loop, call, saving
  <2>6. CASE Route
    <3>1. allocs' # {} /\ pc = "route" /\ pc' = "routed"
          /\ UNCHANGED <<flags, todo, due, filled, placed>>
      BY <2>6 DEF Route, Decide, loop, call, saving
    <3> QED
      BY <2>1, <2>2, <3>1 DEF PhasesAreKept
  <2>7. CASE Simulate
    BY <2>1, <2>2, <2>7 DEF Simulate, Decide, PhasesAreKept, loop, call, saving
  <2> QED
    BY <1>3, <2>2, <2>3, <2>4, <2>5, <2>6, <2>7
<1>4. CASE BeginExecute
  <2>0. calls \in Nat /\ calls' = calls + 1 /\ past' = past \cup orders
        /\ \A o \in orders' : o.call = calls + 1
    BY <1>4 DEF BeginExecute, TypeOK
  <2>1. CallsAreNumbered'
    BY <2>0 DEF CallsAreNumbered, TypeOK, Order
  <2>2. PhasesAreKept'
    BY <1>4 DEF BeginExecute, PhasesAreKept, loop, saving
  <2> QED
    BY <2>1, <2>2
<1>5. ASSUME NEW o \in orders, Accept(o) \/ Record(o)
      PROVE  CallsAreNumbered' /\ PhasesAreKept'
  BY <1>5 DEF Accept, Record, Call!Accept, Call!Record, Others, CallsAreNumbered,
      PhasesAreKept, loop, book, saving
<1>6. ASSUME NEW o \in past, AcceptLate(o) PROVE CallsAreNumbered' /\ PhasesAreKept'
  BY <1>6 DEF AcceptLate, CallsAreNumbered, PhasesAreKept, loop, call, saving
<1>7. CASE ExecuteReturns
  BY <1>7 DEF ExecuteReturns, Call!Return, Leave, Ended, Others, CallsAreNumbered,
      PhasesAreKept, loop, book, saving
<1>8. CASE SkipSaving \/ SaveCycleFails
  BY <1>8 DEF SkipSaving, SaveCycleFails, Leave, Ended, Rest, CallsAreNumbered,
      PhasesAreKept, loop, call, book, saving
<1>9. CASE SaveOrderFails \/ SaveFillFails
  BY <1>9 DEF SaveOrderFails, SaveFillFails, Foremost, Rest, Cycling, CallsAreNumbered,
      PhasesAreKept, loop, call, book
<1>10. CASE SaveCycle
  BY <1>10 DEF SaveCycle, Rest, Cycling, CallsAreNumbered, PhasesAreKept, loop, call, book
<1>11. CASE SaveOrder \/ SaveFill
  BY <1>11 DEF SaveOrder, SaveFill, Foremost, Rest, Cycling, CallsAreNumbered,
      PhasesAreKept, loop, call, book
<1>12. CASE SaveRegime
  BY <1>12 DEF SaveRegime, Leave, Ended, Rest, CallsAreNumbered, PhasesAreKept, loop,
      call, book, saving
<1>13. CASE Plan
  BY <1>13 DEF Plan, PlanSavesCycle, PlanSavesOrder, PlanSavesFill, PlanSavesRegime,
      Process, CallsAreNumbered, PhasesAreKept, loop, call, book, saving
<1> QED
  BY <1>1, <1>2, <1>3, <1>4, <1>5, <1>6, <1>7, <1>8, <1>9, <1>10, <1>11, <1>12, <1>13
  DEF Next, Cycle, Persist

(* Every step keeps the orders of this call on its allocations.            *)
LEMMA AllocationStep ==
    ASSUME IInv, [Next]_vars
    PROVE  OrdersAreAllocated'
<1>0. OrdersAreAllocated /\ PhasesAreKept
  BY DEF IInv
<1> USE <1>0 DEF OrdersAreAllocated, PhasesAreKept
<1>1. CASE Tick \/ Serve \/ Stop \/ Interrupt \/ UNCHANGED vars \/ Crash \/ Restart
  BY <1>1 DEF Tick, Serve, Stop, Interrupt, Crash, Restart, Die, vars, loop, call
<1>2. CASE ReadOHLCV \/ OHLCVFails \/ ReadPrice \/ PriceFails \/ ReadDepth \/ Route
             \/ RouteFails \/ Simulate
  BY <1>2 DEF ReadOHLCV, OHLCVFails, ReadPrice, PriceFails, ReadDepth, Route, RouteFails,
      Simulate, Decide, GiveUp, Leave, Die, loop, call
<1>3. CASE BeginExecute
  BY <1>3 DEF BeginExecute, loop
<1>4. ASSUME NEW o \in orders, Accept(o) \/ Record(o) PROVE OrdersAreAllocated'
  BY <1>4 DEF Accept, Record, Call!Accept, Call!Record, Others, loop
<1>5. ASSUME NEW o \in past, AcceptLate(o) PROVE OrdersAreAllocated'
  BY <1>5 DEF AcceptLate, loop, call
<1>6. CASE ExecuteReturns
  BY <1>6 DEF ExecuteReturns, Call!Return, Leave, Others, loop
<1>7. CASE Persist
  BY <1>7 DEF Persist, SkipSaving, SaveCycle, SaveCycleFails, SaveOrder, SaveOrderFails,
      SaveFill, SaveFillFails, SaveRegime, Leave, Rest, Cycling, loop, call
<1>8. CASE Plan
  BY <1>8 DEF Plan, PlanSavesCycle, PlanSavesOrder, PlanSavesFill, PlanSavesRegime,
      Process, loop, call
<1> QED
  BY <1>1, <1>2, <1>3, <1>4, <1>5, <1>6, <1>7, <1>8 DEF Next, Cycle

-----------------------------------------------------------------------------
Links ==
    TodoIsLinked /\ DueIsLinked /\ PlanIsLinked /\ RegimesAreCounted /\ RowsAreLinked

(* A step that writes no row and adds nothing to what is to be written.    *)
LEMMA LinkFrame ==
    ASSUME IInv, UNCHANGED <<tables, plan>>, todo' \subseteq todo, due' \subseteq due,
           (todo' = {} /\ due' = {}) \/ UNCHANGED <<flags, calls, filled>>,
           pc' = "saveRows" => pc = "saveRows"
    PROVE  Links'
<1>1. Links /\ TypeOK
  BY DEF IInv, Links
<1>2. \A o : Recorded(o)' <=> Recorded(o)
  BY RecordedSame DEF tables
<1>3. TodoIsLinked'
  BY <1>1 DEF Links, TodoIsLinked, ThisCall, tables
<1>4. DueIsLinked'
  BY <1>1, <1>2 DEF Links, DueIsLinked, tables
<1>5. PlanIsLinked'
  BY <1>1 DEF Links, PlanIsLinked, tables
<1>6. RegimesAreCounted'
  BY <1>1 DEF Links, RegimesAreCounted, tables, TypeOK
<1>7. RowsAreLinked'
  BY <1>1 DEF Links, RowsAreLinked, tables
<1> QED
  BY <1>3, <1>4, <1>5, <1>6, <1>7 DEF Links

(* The steps of the process that write a row, and those of a plan.         *)
LEMMA SaveCycleLinks ==
    ASSUME EngineAssumption, IInv, SaveCycle
    PROVE  Links'
<1> DEFINE row == [call |-> IF allocs = {} \/ flags.dryRun THEN 0 ELSE calls]
<1>0. Links /\ TypeOK /\ PhasesAreKept
  BY DEF IInv, Links
<1>1. row \in CycleRow /\ cycleRows \in Seq(CycleRow) /\ cycleRows' = Append(cycleRows, row)
  BY <1>0 DEF SaveCycle, TypeOK, CycleRow, EngineAssumption
<1> HIDE DEF row
<1>2. /\ DOMAIN cycleRows' = DOMAIN cycleRows \cup {Len(cycleRows) + 1}
      /\ Len(cycleRows') = Len(cycleRows) + 1
      /\ cycleRows'[Len(cycleRows) + 1] = row
      /\ \A i \in DOMAIN cycleRows : cycleRows'[i] = cycleRows[i]
  BY <1>1, Inserted
<1>3. /\ UNCHANGED <<orderRows, fillRows, regimeRows, plan, calls, flags, filled, due>>
      /\ todo' = [cycle : {Len(cycleRows) + 1}, exchange : allocs]
      /\ pc = "saveCycle" /\ pc' = "saveRows"
  BY DEF SaveCycle, Rest, loop, call, planning
<1>4. due = {}
  BY <1>0, <1>3 DEF PhasesAreKept
<1>5. allocs # {} => row.call = ThisCall
  BY DEF row, ThisCall
<1>6. TodoIsLinked'
  <2>1. \A r \in todo' : r.cycle = Len(cycleRows) + 1 /\ allocs # {}
    BY <1>3
  <2>2. ThisCall' = ThisCall
    BY <1>3 DEF ThisCall
  <2> QED
    BY <1>2, <1>5, <2>1, <2>2 DEF TodoIsLinked
<1>7. DueIsLinked'
  BY <1>3, <1>4 DEF DueIsLinked
<1>8. PlanIsLinked'
  BY <1>0, <1>2, <1>3 DEF Links, PlanIsLinked
<1>9. RegimesAreCounted'
  BY <1>0, <1>2, <1>3 DEF Links, RegimesAreCounted, TypeOK
<1>10. RowsAreLinked'
  <2>1. RowsAreLinked /\ regimeRows \in Nat /\ Len(cycleRows) \in Nat
    BY <1>0 DEF Links, TypeOK
  <2>2. \A i \in DOMAIN orderRows' : orderRows'[i].cycle \in DOMAIN cycleRows'
    BY <1>2, <1>3, <2>1 DEF RowsAreLinked
  <2>3. \A i \in DOMAIN fillRows' :
           /\ fillRows'[i].order \in DOMAIN orderRows'
           /\ orderRows'[fillRows'[i].order].exchange = fillRows'[i].fill.exchange
           /\ cycleRows'[orderRows'[fillRows'[i].order].cycle].call
                  = fillRows'[i].fill.call
    BY <1>2, <1>3, <2>1 DEF RowsAreLinked
  <2> QED
    BY <1>2, <1>3, <2>1, <2>2, <2>3 DEF RowsAreLinked
<1> QED
  BY <1>6, <1>7, <1>8, <1>9, <1>10 DEF Links

(* While order rows are to be written, the fills at hand are of this call. *)
LEMMA FillsOfThisCall ==
    ASSUME IInv, todo # {}
    PROVE  /\ \A f \in Fills : f.call = ThisCall
           /\ \A f \in Fills : f.call > 0 => f \in filled
<1>1. filled \subseteq orders /\ CallsAreNumbered
  BY DEF IInv, TypeOK
<1> QED
  BY <1>1 DEF Fills, ThisCall, CallsAreNumbered

(* The fills of an allocation whose order row is still to come are not in  *)
(* the table.                                                              *)
LEMMA AwaitedIsUnrecorded ==
    ASSUME IInv, NEW row \in todo, NEW f \in Fills, f.exchange = row.exchange, f.call > 0
    PROVE  ~Recorded(f)
<1>1. ~flags.dryRun
  BY DEF Fills
<1>2. f \in orders
  BY <1>1 DEF IInv, TypeOK, Fills
<1>3. Busy /\ pc = "saveRows"
  BY <1>1 DEF IInv, PhasesAreKept, Busy
<1> QED
  BY <1>2, <1>3 DEF IInv, BooksAreKept, Awaited

(* An order row belongs to the row of its cycle, and its fills to it.      *)
LEMMA SaveOrderLinks ==
    ASSUME IInv, SaveOrder
    PROVE  Links'
<1>0. Links /\ TypeOK /\ PhasesAreKept
  BY DEF IInv, Links
<1>1. PICK row \in Foremost :
        /\ orderRows' = Append(orderRows, row)
        /\ due' = {[order |-> Len(orderRows) + 1, fill |-> f] :
                      f \in {x \in Fills : x.exchange = row.exchange}}
        /\ todo' = todo \ {row}
  BY DEF SaveOrder
<1> DEFINE id == Len(orderRows) + 1
<1>2. row \in todo /\ row \in OrderRow
  BY <1>0 DEF Foremost, TypeOK
<1>3. orderRows \in Seq(OrderRow)
  BY <1>0 DEF TypeOK
<1>4. /\ DOMAIN orderRows' = DOMAIN orderRows \cup {id}
      /\ orderRows'[id] = row
      /\ \A i \in DOMAIN orderRows : orderRows'[i] = orderRows[i]
      /\ id \notin DOMAIN orderRows
  BY <1>1, <1>2, <1>3, Inserted
<1>5. /\ UNCHANGED <<cycleRows, fillRows, regimeRows, plan, calls, flags, filled, pc>>
      /\ due = {}
  BY DEF SaveOrder, Rest, loop, call, planning
<1>6. TodoIsLinked' /\ ThisCall' = ThisCall
  BY <1>0, <1>1, <1>5 DEF Links, TodoIsLinked, ThisCall
<1>7. row.cycle \in DOMAIN cycleRows /\ cycleRows[row.cycle].call = ThisCall
  BY <1>0, <1>2 DEF Links, TodoIsLinked
<1>8. DueIsLinked'
  <2> SUFFICES ASSUME NEW r \in due'
               PROVE  /\ r.order \in DOMAIN orderRows'
                      /\ orderRows'[r.order].exchange = r.fill.exchange
                      /\ cycleRows'[orderRows'[r.order].cycle].call = r.fill.call
                      /\ r.fill.call > 0 => r.fill \in filled' /\ ~Recorded(r.fill)'
                      /\ \A t \in todo' : t.exchange # r.fill.exchange
                      /\ r.order = id
    BY DEF DueIsLinked
  <2> HIDE DEF id
  <2>1. PICK f \in Fills : f.exchange = row.exchange /\ r = [order |-> id, fill |-> f]
    BY <1>1 DEF id
  <2>2. r.order = id /\ r.fill = f
    BY <2>1
  <2>3. f.call = ThisCall /\ (f.call > 0 => f \in filled)
    BY <1>2, FillsOfThisCall
  <2>4. f.call > 0 => ~Recorded(f)
    BY <1>2, <2>1, AwaitedIsUnrecorded
  <2>5. ~Recorded(f) => ~Recorded(f)'
    BY <1>5, RecordedSame
  <2>6. \A t \in todo' : t.exchange # row.exchange
    <3> SUFFICES ASSUME NEW t \in todo, t.exchange = row.exchange PROVE t = row
      BY <1>1
    <3>1. t.cycle = row.cycle
      BY <1>0, <1>2 DEF Links, TodoIsLinked
    <3>2. t \in OrderRow
      BY <1>0 DEF TypeOK
    <3> QED
      BY <1>2, <3>1, <3>2 DEF OrderRow
  <2> QED
    BY <1>4, <1>5, <1>7, <2>1, <2>2, <2>3, <2>4, <2>5, <2>6
<1>9. PlanIsLinked'
  BY <1>0, <1>4, <1>5 DEF Links, PlanIsLinked
<1>10. RegimesAreCounted'
  BY <1>0, <1>5 DEF Links, RegimesAreCounted
<1>11. RowsAreLinked'
  <2>1. RowsAreLinked
    BY <1>0 DEF Links
  <2> HIDE DEF id
  <2>2. \A i \in DOMAIN orderRows' : orderRows'[i].cycle \in DOMAIN cycleRows'
    BY <1>4, <1>5, <1>7, <2>1 DEF RowsAreLinked
  <2>3. \A i \in DOMAIN fillRows' :
           /\ fillRows'[i].order \in DOMAIN orderRows'
           /\ orderRows'[fillRows'[i].order].exchange = fillRows'[i].fill.exchange
           /\ cycleRows'[orderRows'[fillRows'[i].order].cycle].call
                  = fillRows'[i].fill.call
    BY <1>4, <1>5, <2>1 DEF RowsAreLinked
  <2> QED
    BY <1>5, <2>1, <2>2, <2>3 DEF RowsAreLinked
<1> QED
  BY <1>6, <1>8, <1>9, <1>10, <1>11 DEF Links

(* A fill row hangs where persistCycle meant it to.                        *)
LEMMA SaveFillLinks ==
    ASSUME IInv, SaveFill
    PROVE  Links'
<1>0. Links /\ TypeOK
  BY DEF IInv, Links
<1>1. PICK row \in due : fillRows' = Append(fillRows, row) /\ due' = due \ {row}
  BY DEF SaveFill
<1>2. row \in FillRow /\ fillRows \in Seq(FillRow)
  BY <1>0 DEF TypeOK
<1>3. /\ DOMAIN fillRows' = DOMAIN fillRows \cup {Len(fillRows) + 1}
      /\ fillRows'[Len(fillRows) + 1] = row
      /\ \A i \in DOMAIN fillRows : fillRows'[i] = fillRows[i]
  BY <1>1, <1>2, Inserted
<1>4. \A o : Recorded(o)' <=> Recorded(o) \/ o = row.fill
  BY <1>0, <1>1, <1>2, RecordedInserted
<1>5. UNCHANGED <<cycleRows, orderRows, regimeRows, plan, calls, flags, filled, pc, todo>>
  BY DEF SaveFill, Rest, loop, call, planning
<1>6. TodoIsLinked'
  BY <1>0, <1>5 DEF Links, TodoIsLinked, ThisCall
<1>7. DueIsLinked'
  <2>1. \A r \in due' : r \in due /\ r.fill # row.fill
    <3> SUFFICES ASSUME NEW r \in due, r.fill = row.fill PROVE r = row
      BY <1>1
    <3>1. r.order = row.order
      BY <1>0 DEF Links, DueIsLinked
    <3>2. r \in FillRow
      BY <1>0 DEF TypeOK
    <3> QED
      BY <1>2, <3>1, <3>2 DEF FillRow
  <2> QED
    BY <1>0, <1>4, <1>5, <2>1 DEF Links, DueIsLinked
<1>8. PlanIsLinked'
  BY <1>0, <1>5 DEF Links, PlanIsLinked
<1>9. RegimesAreCounted'
  BY <1>0, <1>5 DEF Links, RegimesAreCounted
<1>10. RowsAreLinked'
  <2>1. RowsAreLinked /\ DueIsLinked
    BY <1>0 DEF Links
  <2>2. \A i \in DOMAIN fillRows' :
           /\ fillRows'[i].order \in DOMAIN orderRows'
           /\ orderRows'[fillRows'[i].order].exchange = fillRows'[i].fill.exchange
           /\ cycleRows'[orderRows'[fillRows'[i].order].cycle].call
                  = fillRows'[i].fill.call
    BY <1>3, <1>5, <2>1 DEF RowsAreLinked, DueIsLinked
  <2> QED
    BY <1>5, <2>1, <2>2 DEF RowsAreLinked
<1> QED
  BY <1>6, <1>7, <1>8, <1>9, <1>10 DEF Links

(* The regime of a cycle has the row of that cycle.                        *)
LEMMA SaveRegimeLinks ==
    ASSUME IInv, SaveRegime
    PROVE  Links'
<1>1. Links /\ TypeOK
  BY DEF IInv, Links
<1>2. /\ UNCHANGED <<cycleRows, orderRows, fillRows, plan, calls, flags, filled, todo, due>>
      /\ regimeRows' \in {regimeRows, regimeRows + 1}
      /\ pc = "saveRows" /\ pc' # "saveRows"
      /\ todo = {} /\ due = {}
  BY DEF SaveRegime, Leave, Ended, Rest, loop, call, planning, saving
<1>3. TodoIsLinked' /\ DueIsLinked'
  BY <1>2 DEF TodoIsLinked, DueIsLinked
<1>4. PlanIsLinked'
  BY <1>1, <1>2 DEF Links, PlanIsLinked
<1>5. RegimesAreCounted' /\ regimeRows' <= Len(cycleRows')
  BY <1>1, <1>2 DEF Links, RegimesAreCounted, TypeOK
<1>6. RowsAreLinked'
  BY <1>1, <1>2, <1>5 DEF Links, RowsAreLinked
<1> QED
  BY <1>3, <1>4, <1>5, <1>6 DEF Links

(* The cycle row of a plan gets an id of its own, whoever writes beside it.*)
LEMMA PlanSavesCycleLinks ==
    ASSUME IInv, PlanSavesCycle
    PROVE  Links'
<1>0. Links /\ TypeOK
  BY DEF IInv, Links
<1>1. /\ cycleRows' = Append(cycleRows, [call |-> 0])
      /\ plan = <<>> /\ plan' = <<Len(cycleRows) + 1>>
      /\ UNCHANGED <<orderRows, fillRows, regimeRows, calls, flags, filled, todo, due, pc>>
  BY DEF PlanSavesCycle, Process, loop, call, saving
<1>2. cycleRows \in Seq(CycleRow) /\ [call |-> 0] \in CycleRow
  <2>1. calls \in 0 .. MaxCycles /\ MaxCycles \in Nat
    BY <1>0, EngineAssumption DEF TypeOK, EngineAssumption
  <2> QED
    BY <1>0, <2>1 DEF TypeOK, CycleRow
<1>3. /\ DOMAIN cycleRows' = DOMAIN cycleRows \cup {Len(cycleRows) + 1}
      /\ Len(cycleRows') = Len(cycleRows) + 1
      /\ cycleRows'[Len(cycleRows) + 1] = [call |-> 0]
      /\ \A i \in DOMAIN cycleRows : cycleRows'[i] = cycleRows[i]
  BY <1>1, <1>2, Inserted
<1>4. \A o : Recorded(o)' <=> Recorded(o)
  BY <1>1, RecordedSame
<1>5. RowsAreLinked /\ TodoIsLinked /\ DueIsLinked /\ RegimesAreCounted
  BY <1>0 DEF Links
<1>6. TodoIsLinked'
  BY <1>1, <1>3, <1>5 DEF TodoIsLinked, ThisCall
<1>7. DueIsLinked'
  BY <1>1, <1>3, <1>4, <1>5 DEF DueIsLinked, RowsAreLinked
<1>8. PlanIsLinked'
  BY <1>1, <1>3 DEF PlanIsLinked
<1>9. RegimesAreCounted' /\ regimeRows' <= Len(cycleRows')
  BY <1>0, <1>1, <1>3, <1>5 DEF RegimesAreCounted, TypeOK
<1>10. RowsAreLinked'
  BY <1>1, <1>3, <1>5, <1>9 DEF RowsAreLinked
<1> QED
  BY <1>6, <1>7, <1>8, <1>9, <1>10 DEF Links

(* The order row of a plan belongs to the cycle row of that plan.          *)
LEMMA PlanSavesOrderLinks ==
    ASSUME IInv, PlanSavesOrder
    PROVE  Links'
<1>0. Links /\ TypeOK
  BY DEF IInv, Links
<1>1. PICK x \in Exchange :
        orderRows' = Append(orderRows, [cycle |-> plan[1], exchange |-> x])
  BY DEF PlanSavesOrder
<1>2. /\ Len(plan) = 1 /\ plan' = Append(plan, Len(orderRows) + 1)
      /\ UNCHANGED <<cycleRows, fillRows, regimeRows, calls, flags, filled, todo, due, pc>>
  BY DEF PlanSavesOrder, Process, loop, call, saving
<1>3. /\ RowsAreLinked /\ TodoIsLinked /\ DueIsLinked /\ PlanIsLinked /\ RegimesAreCounted
      /\ plan \in Seq(Nat) /\ orderRows \in Seq(OrderRow)
  BY <1>0 DEF Links, TypeOK
<1>4. plan[1] \in Nat /\ plan[1] \in DOMAIN cycleRows
  <2>1. DOMAIN plan = 1 .. 1
    BY <1>2, <1>3
  <2> QED
    BY <1>2, <1>3, <2>1, RowOf DEF PlanIsLinked
<1> DEFINE row == [cycle |-> plan[1], exchange |-> x]
           id == Len(orderRows) + 1
<1>5. row \in OrderRow /\ row.cycle = plan[1]
  BY <1>4 DEF OrderRow
<1>6. orderRows' = Append(orderRows, row)
  BY <1>1
<1> HIDE DEF row
<1>7. /\ DOMAIN orderRows' = DOMAIN orderRows \cup {id}
      /\ orderRows'[id] = row
      /\ \A i \in DOMAIN orderRows : orderRows'[i] = orderRows[i]
  BY <1>3, <1>5, <1>6, Inserted
<1>8. /\ Len(plan') = 2 /\ plan'[1] = plan[1] /\ plan'[2] = id
  <2>1. DOMAIN plan = 1 .. 1
    BY <1>2, <1>3
  <2>2. id \in Nat
    BY <1>3
  <2> QED
    BY <1>2, <1>3, <2>1, <2>2, Inserted
<1> HIDE DEF id
<1>9. \A o : Recorded(o)' <=> Recorded(o)
  BY <1>2, RecordedSame
<1>10. TodoIsLinked'
  BY <1>2, <1>3 DEF TodoIsLinked, ThisCall
<1>11. DueIsLinked'
  BY <1>2, <1>3, <1>7, <1>9 DEF DueIsLinked
<1>12. PlanIsLinked'
  BY <1>2, <1>3, <1>4, <1>5, <1>7, <1>8 DEF PlanIsLinked
<1>13. RegimesAreCounted'
  <2>1. Len(<<>>) = 0
    OBVIOUS
  <2>2. plan # <<>> /\ plan' # <<>>
    BY <1>2, <1>8, <2>1
  <2> QED
    BY <1>2, <1>3, <2>2 DEF RegimesAreCounted
<1>14. RowsAreLinked'
  BY <1>2, <1>3, <1>4, <1>5, <1>7 DEF RowsAreLinked
<1> QED
  BY <1>10, <1>11, <1>12, <1>13, <1>14 DEF Links

(* The fill row of a plan belongs to its order row, and is of call 0.      *)
LEMMA PlanSavesFillLinks ==
    ASSUME IInv, PlanSavesFill
    PROVE  /\ Links'
           /\ \A o : o.call > 0 => (Recorded(o)' <=> Recorded(o))
           /\ \A i \in DOMAIN fillRows' : fillRows'[i].fill.call > 0 =>
                 i \in DOMAIN fillRows /\ fillRows'[i] = fillRows[i]
<1>0. Links /\ TypeOK
  BY DEF IInv, Links
<1>1. /\ RowsAreLinked /\ TodoIsLinked /\ DueIsLinked /\ PlanIsLinked /\ RegimesAreCounted
      /\ plan \in Seq(Nat) /\ orderRows \in Seq(OrderRow) /\ fillRows \in Seq(FillRow)
  BY <1>0 DEF Links, TypeOK
<1> DEFINE f == [call |-> 0, exchange |-> orderRows[plan[2]].exchange, sub |-> 0]
           row == [order |-> plan[2], fill |-> f]
<1>2. /\ fillRows' = Append(fillRows, row)
      /\ Len(plan) = 2 /\ plan' = Append(plan, Len(fillRows) + 1)
      /\ UNCHANGED <<cycleRows, orderRows, regimeRows, calls, flags, filled, todo, due, pc>>
  BY DEF PlanSavesFill, Process, loop, call, saving
<1>3. plan[2] \in Nat /\ plan[1] \in DOMAIN cycleRows /\ cycleRows[plan[1]].call = 0
      /\ plan[2] \in DOMAIN orderRows /\ orderRows[plan[2]].cycle = plan[1]
  <2>1. DOMAIN plan = 1 .. 2
    BY <1>1, <1>2
  <2>2. plan[2] \in Nat
    BY <1>1, <2>1, RowOf
  <2> QED
    BY <1>1, <1>2, <2>2 DEF PlanIsLinked
<1>4. orderRows[plan[2]].exchange \in Exchange
  <2>1. orderRows[plan[2]] \in OrderRow
    BY <1>1, <1>3, RowOf
  <2> QED
    BY <2>1 DEF OrderRow
<1>5. /\ f \in Order /\ f.call = 0 /\ f.exchange = orderRows[plan[2]].exchange
      /\ row \in FillRow /\ row.order = plan[2] /\ row.fill = f
  <2>1. MaxCycles \in Nat /\ Subs \in Nat
    BY EngineAssumption DEF EngineAssumption
  <2>2. f \in Order
    BY <1>4, <2>1 DEF Order
  <2> HIDE DEF f
  <2>3. row \in FillRow
    BY <1>3, <2>2 DEF FillRow
  <2> QED
    BY <2>2, <2>3 DEF f
<1> HIDE DEF f, row
<1>6. /\ DOMAIN fillRows' = DOMAIN fillRows \cup {Len(fillRows) + 1}
      /\ fillRows'[Len(fillRows) + 1] = row
      /\ \A i \in DOMAIN fillRows : fillRows'[i] = fillRows[i]
  BY <1>1, <1>2, <1>5, Inserted
<1>7. \A o : Recorded(o)' <=> Recorded(o) \/ o = f
  BY <1>0, <1>2, <1>5, RecordedInserted
<1>8. \A o : o.call > 0 => (Recorded(o)' <=> Recorded(o))
  BY <1>5, <1>7
<1>9. TodoIsLinked'
  BY <1>1, <1>2 DEF TodoIsLinked, ThisCall
<1>10. DueIsLinked'
  BY <1>1, <1>2, <1>8 DEF DueIsLinked
<1>11. PlanIsLinked'
  <2>1. plan'[1] = plan[1] /\ plan'[2] = plan[2]
    BY <1>1, <1>2
  <2> QED
    BY <1>2, <1>3, <2>1 DEF PlanIsLinked
<1>12. RegimesAreCounted'
  <2>1. plan # <<>> /\ plan' # <<>>
    BY <1>1, <1>2
  <2> QED
    BY <1>1, <1>2, <2>1 DEF RegimesAreCounted
<1>13. RowsAreLinked'
  <2>1. /\ row.order \in DOMAIN orderRows
        /\ orderRows[row.order].exchange = row.fill.exchange
        /\ cycleRows[orderRows[row.order].cycle].call = row.fill.call
    BY <1>3, <1>5
  <2>2. \A i \in DOMAIN fillRows' :
           /\ fillRows'[i].order \in DOMAIN orderRows'
           /\ orderRows'[fillRows'[i].order].exchange = fillRows'[i].fill.exchange
           /\ cycleRows'[orderRows'[fillRows'[i].order].cycle].call
                  = fillRows'[i].fill.call
    BY <1>1, <1>2, <1>6, <2>1 DEF RowsAreLinked
  <2> QED
    BY <1>1, <1>2, <2>2 DEF RowsAreLinked
<1>14. ASSUME NEW i \in DOMAIN fillRows', fillRows'[i].fill.call > 0
       PROVE  i \in DOMAIN fillRows /\ fillRows'[i] = fillRows[i]
  <2>1. i # Len(fillRows) + 1
    BY <1>5, <1>6, <1>14
  <2> QED
    BY <1>6, <1>14, <2>1
<1> QED
  BY <1>8, <1>9, <1>10, <1>11, <1>12, <1>13, <1>14 DEF Links

(* The regime row of a plan has the cycle row of that plan.                *)
LEMMA PlanSavesRegimeLinks ==
    ASSUME IInv, PlanSavesRegime
    PROVE  Links'
<1>1. Links /\ TypeOK
  BY DEF IInv, Links
<1>2. /\ regimeRows' = regimeRows + 1 /\ plan # <<>> /\ plan' = <<>>
      /\ UNCHANGED <<cycleRows, orderRows, fillRows, calls, flags, filled, todo, due, pc>>
  BY DEF PlanSavesRegime, Process, loop, call, saving
<1>3. \A o : Recorded(o)' <=> Recorded(o)
  BY <1>2, RecordedSame
<1>4. TodoIsLinked' /\ DueIsLinked'
  BY <1>1, <1>2, <1>3 DEF Links, TodoIsLinked, ThisCall, DueIsLinked
<1>5. PlanIsLinked'
  BY <1>2 DEF PlanIsLinked
<1>6. RegimesAreCounted' /\ regimeRows' <= Len(cycleRows')
  BY <1>1, <1>2 DEF Links, RegimesAreCounted, TypeOK
<1>7. RowsAreLinked'
  BY <1>1, <1>2, <1>6 DEF Links, RowsAreLinked
<1> QED
  BY <1>4, <1>5, <1>6, <1>7 DEF Links

(* Every step keeps the links between the tables.                          *)
LEMMA LinkStep ==
    ASSUME EngineAssumption, IInv, [Next]_vars
    PROVE  Links'
<1>0. TypeOK /\ PhasesAreKept
  BY DEF IInv
<1>1. CASE Tick \/ Serve \/ Stop \/ Interrupt \/ UNCHANGED vars
  BY <1>1, LinkFrame DEF Tick, Serve, Stop, Interrupt, vars, loop, call, saving, planning
<1>2. CASE Crash \/ Restart
  <2>1. CASE Crash
    BY <2>1, LinkFrame DEF Crash, Die, planning
  <2>2. CASE Restart
    BY <1>0, <2>2, LinkFrame DEF Restart, Running, PhasesAreKept, saving, planning
  <2> QED
    BY <1>2, <2>1, <2>2
<1>3. CASE ReadOHLCV \/ OHLCVFails \/ ReadPrice \/ ReadDepth \/ Route \/ RouteFails
             \/ Simulate
  <2>1. UNCHANGED <<tables, plan, todo, due, flags, calls, filled>> /\ pc' # "saveRows"
    BY <1>3 DEF ReadOHLCV, OHLCVFails, ReadPrice, ReadDepth, Route, RouteFails, Simulate,
        Decide, GiveUp, Leave, Ended, loop, call, saving, planning
  <2> QED
    BY <2>1, LinkFrame
<1>4. CASE PriceFails
  BY <1>4, LinkFrame DEF PriceFails, Decide, Die, loop, call, saving, planning
<1>5. CASE BeginExecute
  BY <1>0, <1>5, LinkFrame DEF BeginExecute, PhasesAreKept, saving, planning
<1>6. ASSUME NEW o \in orders, Accept(o) \/ Record(o) PROVE Links'
  <2>1. CASE Accept(o)
    BY <2>1, LinkFrame DEF Accept, Call!Accept, Others, loop, saving, planning
  <2>2. CASE Record(o)
    BY <1>0, <2>2, LinkFrame DEF Record, PhasesAreKept, Others, loop, saving, planning
  <2> QED
    BY <1>6, <2>1, <2>2
<1>7. ASSUME NEW o \in past, AcceptLate(o) PROVE Links'
  BY <1>7, LinkFrame DEF AcceptLate, loop, call, saving, planning
<1>8. CASE ExecuteReturns
  BY <1>8, LinkFrame DEF ExecuteReturns, Call!Return, Leave, Ended, Others, loop, saving,
      planning
<1>9. CASE SkipSaving \/ SaveCycleFails
  BY <1>9, LinkFrame DEF SkipSaving, SaveCycleFails, Leave, Ended, Rest, loop, call,
      saving, planning
<1>10. CASE SaveOrderFails \/ SaveFillFails
  <2>1. /\ UNCHANGED <<tables, plan, flags, calls, filled, pc>>
        /\ todo' \subseteq todo /\ due' \subseteq due
    BY <1>10 DEF SaveOrderFails, SaveFillFails, Rest, loop, call, planning
  <2> QED
    BY <2>1, LinkFrame
<1>11. CASE Plan
  BY <1>11, PlanSavesCycleLinks, PlanSavesOrderLinks, PlanSavesFillLinks,
     PlanSavesRegimeLinks DEF Plan
<1> QED
  BY <1>1, <1>2, <1>3, <1>4, <1>5, <1>6, <1>7, <1>8, <1>9, <1>10, <1>11, SaveCycleLinks,
     SaveOrderLinks, SaveFillLinks, SaveRegimeLinks
  DEF Next, Cycle, Persist

-----------------------------------------------------------------------------
(* The books.                                                              *)

(* A step that records nothing leaves the fill rows true: what venues hold *)
(* they go on holding.                                                     *)
LEMMA TruthFrame ==
    ASSUME FillRowsAreTrue, AllHeld \subseteq AllHeld',
           \A i \in DOMAIN fillRows' : fillRows'[i].fill.call > 0 =>
               i \in DOMAIN fillRows /\ fillRows'[i] = fillRows[i]
    PROVE  FillRowsAreTrue'
<1> SUFFICES ASSUME NEW i \in DOMAIN fillRows', fillRows'[i].fill.call > 0
             PROVE  /\ fillRows'[i].fill \in AllHeld'
                    /\ \A j \in DOMAIN fillRows' :
                          fillRows'[j].fill = fillRows'[i].fill => i = j
  BY DEF FillRowsAreTrue
<1>1. i \in DOMAIN fillRows /\ fillRows'[i] = fillRows[i]
  OBVIOUS
<1>2. ASSUME NEW j \in DOMAIN fillRows', fillRows'[j].fill = fillRows'[i].fill PROVE i = j
  <2>1. j \in DOMAIN fillRows /\ fillRows'[j] = fillRows[j]
    BY <1>2
  <2> QED
    BY <1>1, <1>2, <2>1 DEF FillRowsAreTrue
<1> QED
  BY <1>1, <1>2 DEF FillRowsAreTrue

(* Every step keeps the fill rows true.                                    *)
LEMMA TruthStep ==
    ASSUME EngineAssumption, IInv, [Next]_vars
    PROVE  FillRowsAreTrue'
<1>0. TypeOK /\ FillRowsAreTrue
  BY DEF IInv
<1>1. CASE SaveFill
  <2>1. PICK row \in due : fillRows' = Append(fillRows, row) /\ due' = due \ {row}
    BY <1>1 DEF SaveFill
  <2>2. row \in FillRow /\ fillRows \in Seq(FillRow)
    BY <1>0 DEF TypeOK
  <2>3. /\ DOMAIN fillRows' = DOMAIN fillRows \cup {Len(fillRows) + 1}
        /\ fillRows'[Len(fillRows) + 1] = row
        /\ \A i \in DOMAIN fillRows : fillRows'[i] = fillRows[i]
    BY <2>1, <2>2, Inserted
  <2>4. row.fill.call > 0 => row.fill \in AllHeld /\ ~Recorded(row.fill)
    BY DEF IInv, DueIsLinked, PhasesAreKept, AllHeld
  <2>5. AllHeld' = AllHeld
    BY <1>1 DEF SaveFill, Rest, call, book, AllHeld
  <2>6. \A i \in DOMAIN fillRows : row.fill.call > 0 => fillRows[i].fill # row.fill
    BY <2>4 DEF Recorded
  <2> QED
    BY <1>0, <2>3, <2>4, <2>5, <2>6 DEF FillRowsAreTrue
<1>2. CASE PlanSavesFill
  <2>1. AllHeld' = AllHeld
    BY <1>2 DEF PlanSavesFill, Process, call, book, AllHeld
  <2> QED
    BY <1>0, <1>2, <2>1, PlanSavesFillLinks, TruthFrame
<1>3. ASSUME UNCHANGED fillRows, AllHeld \subseteq AllHeld' PROVE FillRowsAreTrue'
  BY <1>0, <1>3, TruthFrame
<1>4. CASE Tick \/ Serve \/ Stop \/ Interrupt \/ UNCHANGED vars \/ Crash \/ Restart
  BY <1>3, <1>4 DEF Tick, Serve, Stop, Interrupt, Crash, Restart, Die, vars, call, book,
      tables, AllHeld
<1>5. CASE ReadOHLCV \/ OHLCVFails \/ ReadPrice \/ PriceFails \/ ReadDepth \/ Route
             \/ RouteFails \/ Simulate
  BY <1>3, <1>5 DEF ReadOHLCV, OHLCVFails, ReadPrice, PriceFails, ReadDepth, Route,
      RouteFails, Simulate, Decide, GiveUp, Die, call, book, tables, AllHeld
<1>6. CASE BeginExecute
  BY <1>3, <1>6 DEF BeginExecute, tables, AllHeld
<1>7. ASSUME NEW o \in orders, Accept(o) \/ Record(o) PROVE FillRowsAreTrue'
  BY <1>3, <1>7 DEF Accept, Record, Call!Accept, Call!Record, Others, book, tables, AllHeld
<1>8. ASSUME NEW o \in past, AcceptLate(o) PROVE FillRowsAreTrue'
  BY <1>3, <1>8 DEF AcceptLate, call, tables, AllHeld
<1>9. CASE ExecuteReturns
  BY <1>3, <1>9 DEF ExecuteReturns, Call!Return, Others, book, tables, AllHeld
<1>10. CASE SkipSaving \/ SaveCycle \/ SaveCycleFails \/ SaveOrder \/ SaveOrderFails
              \/ SaveFillFails \/ SaveRegime
  BY <1>3, <1>10 DEF SkipSaving, SaveCycle, SaveCycleFails, SaveOrder, SaveOrderFails,
      SaveFillFails, SaveRegime, Rest, call, book, tables, AllHeld
<1>11. CASE PlanSavesCycle \/ PlanSavesOrder \/ PlanSavesRegime
  BY <1>3, <1>11 DEF PlanSavesCycle, PlanSavesOrder, PlanSavesRegime, Process, call, book,
      AllHeld
<1> QED
  BY <1>1, <1>2, <1>4, <1>5, <1>6, <1>7, <1>8, <1>9, <1>10, <1>11
  DEF Next, Cycle, Persist, Plan

(* A step that changes none of what the books speak of but trouble, which  *)
(* only grows.                                                             *)
LEMMA BookFrame ==
    ASSUME IInv, CallsAreNumbered',
           UNCHANGED <<orders, past, todo, due>>, trouble \subseteq trouble',
           \A o : o.call > 0 => (Recorded(o)' <=> Recorded(o)),
           (~Busy /\ ~Busy') \/ UNCHANGED <<flags, allocs, pc, filled>>
    PROVE  BooksAreKept'
<1>1. BooksAreKept /\ CallsAreNumbered
  BY DEF IInv
<1>2. \A o \in orders \cup past : (Settled(o) => Settled(o)') /\ (Recorded(o)' <=> Recorded(o))
  BY <1>1 DEF Settled, CallsAreNumbered
<1>3. \A o : Awaited(o)' <=> Awaited(o)
  BY DEF Awaited
<1>4. CASE ~Busy /\ ~Busy'
  BY <1>1, <1>2, <1>4 DEF BooksAreKept
<1>5. CASE UNCHANGED <<flags, allocs, pc, filled>>
  <2>1. Busy' <=> Busy
    BY <1>5 DEF Busy
  <2> QED
    BY <1>1, <1>2, <1>3, <1>5, <2>1 DEF BooksAreKept
<1> QED
  BY <1>4, <1>5

(* A step that gives the cycle up: what is not in the table is in trouble. *)
LEMMA GivenUp ==
    ASSUME IInv, UNCHANGED <<orders, past, fillRows>>, trouble' = trouble \cup Unsettled,
           ~Busy'
    PROVE  BooksAreKept'
<1>1. BooksAreKept
  BY DEF IInv
<1>2. \A o \in past : Settled(o)'
  BY <1>1 DEF BooksAreKept, Settled, Recorded
<1>3. \A o \in orders : Settled(o)'
  BY <1>1, UnsettledIsThisCall DEF BooksAreKept, Settled, Recorded
<1> QED
  BY <1>2, <1>3 DEF BooksAreKept

(* A fill that Execute appends is not a row yet.                           *)
LEMMA RecordBooks ==
    ASSUME IInv, NEW o \in orders, Record(o)
    PROVE  BooksAreKept'
<1>1. BooksAreKept
  BY DEF IInv
<1>2. pc = "execute" /\ UNCHANGED <<flags, allocs, pc, orders, past, fillRows, trouble>>
  BY DEF Record, Call!Record, Others, loop, book, tables
<1>3. Busy' <=> Busy
  BY <1>2 DEF Busy
<1>4. \A x : (Settled(x)' <=> Settled(x)) /\ (Recorded(x)' <=> Recorded(x))
  BY <1>2 DEF Settled, Recorded
<1> QED
  BY <1>1, <1>2, <1>3, <1>4 DEF BooksAreKept

(* A call that begins finds the books of the earlier ones closed.          *)
LEMMA BeginExecuteBooks ==
    ASSUME EngineAssumption, IInv, BeginExecute
    PROVE  BooksAreKept'
<1>1. BooksAreKept /\ CallsAreNumbered /\ TypeOK /\ FillRowsAreTrue
  BY DEF IInv
<1>2. /\ pc = "routed" /\ pc' = "execute" /\ past' = past \cup orders
      /\ UNCHANGED <<fillRows, trouble>>
  BY DEF BeginExecute, tables
<1>3. \A x : (Settled(x)' <=> Settled(x)) /\ (Recorded(x)' <=> Recorded(x))
  BY <1>2 DEF Settled, Recorded
<1>4. ~Busy
  BY <1>2 DEF Busy
<1>5. \A o \in past' : Settled(o)'
  BY <1>1, <1>2, <1>3, <1>4 DEF BooksAreKept
<1>6. \A o \in orders' : o.call = calls + 1
  BY DEF BeginExecute
<1>7. \A i \in DOMAIN fillRows : fillRows[i].fill.call # calls + 1
  <2> SUFFICES ASSUME NEW i \in DOMAIN fillRows, fillRows[i].fill.call = calls + 1
               PROVE  FALSE
    OBVIOUS
  <2>1. calls \in Nat
    BY <1>1 DEF TypeOK
  <2>2. fillRows[i].fill \in AllHeld
    BY <1>1, <2>1 DEF FillRowsAreTrue
  <2>3. fillRows[i].fill \in orders \cup past
    BY <1>1, <2>2 DEF AllHeld, TypeOK
  <2> QED
    BY <1>1, <2>1, <2>3 DEF CallsAreNumbered
<1>8. \A o \in orders' : ~Recorded(o)'
  BY <1>3, <1>6, <1>7 DEF Recorded
<1> QED
  BY <1>2, <1>5, <1>8, PhaseStep DEF BooksAreKept, Busy, PhasesAreKept, BeginExecute, loop

(* A call that returns leaves all its fills, or is in trouble.             *)
LEMMA ExecuteReturnsBooks ==
    ASSUME IInv, ExecuteReturns
    PROVE  BooksAreKept'
<1>1. UNCHANGED <<flags, orders, past, filled, fillRows>> /\ pc = "execute"
  BY DEF ExecuteReturns, Call!Return, Others, loop, book, tables
<1>2. CASE /\ result' = "ok" /\ pc' = "saveCycle" /\ UNCHANGED <<allocs, trouble>>
  <2>1. filled = orders
    BY <1>2 DEF ExecuteReturns, Call!Return
  <2>2. Busy
    BY <1>1 DEF IInv, PhasesAreKept, Busy
  <2>3. \A x : (Settled(x)' <=> Settled(x)) /\ (Recorded(x)' <=> Recorded(x))
    BY <1>1, <1>2 DEF Settled, Recorded
  <2> QED
    BY <1>1, <1>2, <2>1, <2>2, <2>3 DEF IInv, BooksAreKept, Busy
<1>3. CASE Leave /\ trouble' = trouble \cup Unsettled
  <2>1. ~Busy'
    BY <1>3 DEF Leave, Busy
  <2> QED
    BY <1>1, <1>3, <2>1, GivenUp
<1> QED
  BY <1>2, <1>3 DEF ExecuteReturns

(* With the cycle row, an order row is awaited for every order.            *)
LEMMA SaveCycleBooks ==
    ASSUME IInv, SaveCycle
    PROVE  BooksAreKept'
<1>1. BooksAreKept /\ CallsAreNumbered /\ TypeOK
  BY DEF IInv
<1>2. /\ UNCHANGED <<flags, orders, past, filled, fillRows, allocs, trouble>>
      /\ pc = "saveCycle" /\ pc' = "saveRows"
      /\ todo' = [cycle : {Len(cycleRows) + 1}, exchange : allocs]
  BY DEF SaveCycle, Rest, Cycling, loop, call, book
<1>3. Busy' <=> Busy
  BY <1>2 DEF Busy
<1>4. \A x : (Settled(x)' <=> Settled(x)) /\ (Recorded(x)' <=> Recorded(x))
  BY <1>2 DEF Settled, Recorded
<1>5. ASSUME Busy, NEW o \in orders PROVE Awaited(o)' /\ ~Recorded(o)
  <2>1. o.exchange \in allocs
    BY <1>5, <1>2 DEF IInv, OrdersAreAllocated, Busy
  <2> DEFINE row == [cycle |-> Len(cycleRows) + 1, exchange |-> o.exchange]
  <2>2. row \in todo' /\ row.exchange = o.exchange
    BY <1>2, <2>1
  <2>3. Awaited(o)'
    BY <2>2 DEF Awaited
  <2> QED
    BY <1>1, <1>2, <1>5, <2>3 DEF BooksAreKept
<1> QED
  BY <1>1, <1>2, <1>3, <1>4, <1>5 DEF BooksAreKept

(* In saveRows, the books are those of each order of this call.            *)
BookOf(o) ==
    /\ Settled(o) \/ Awaited(o) \/ \E row \in due : row.fill = o
    /\ Awaited(o) => ~Recorded(o)

(* While rows are written, it is enough to look at each order of this call.*)
LEMMA SavingFrame ==
    ASSUME IInv, pc = "saveRows",
           UNCHANGED <<flags, allocs, pc, orders, past, filled>>,
           trouble \subseteq trouble', \A o : o.call > 0 => (Recorded(o) => Recorded(o)'),
           Busy => \A o \in orders : BookOf(o)'
    PROVE  BooksAreKept'
<1>1. BooksAreKept /\ CallsAreNumbered
  BY DEF IInv
<1>2. Busy' <=> Busy
  BY DEF Busy
<1>3. \A o \in orders \cup past : Settled(o) => Settled(o)'
  BY <1>1 DEF Settled, CallsAreNumbered
<1> QED
  BY <1>1, <1>2, <1>3 DEF BooksAreKept, BookOf

(* What is known of such an order before a step.                           *)
LEMMA BookBefore ==
    ASSUME IInv, pc = "saveRows", Busy, NEW o \in orders
    PROVE  BookOf(o) /\ o \in filled /\ o \in Order /\ ~flags.dryRun /\ o.call > 0
  BY DEF IInv, BooksAreKept, BookOf, TypeOK, Busy, CallsAreNumbered

(* An order row hands its orders on to the fill rows.                      *)
LEMMA SaveOrderBooks ==
    ASSUME IInv, SaveOrder
    PROVE  BooksAreKept'
<1>1. PICK row \in Foremost :
        /\ orderRows' = Append(orderRows, row)
        /\ due' = {[order |-> Len(orderRows) + 1, fill |-> f] :
                      f \in {x \in Fills : x.exchange = row.exchange}}
        /\ todo' = todo \ {row}
  BY DEF SaveOrder
<1>2. /\ UNCHANGED <<flags, allocs, pc, orders, past, filled, fillRows, trouble>>
      /\ pc = "saveRows" /\ due = {}
  BY DEF SaveOrder, Rest, Cycling, loop, call, book
<1>3. \A o : (Settled(o)' <=> Settled(o)) /\ (Recorded(o)' <=> Recorded(o))
  BY <1>2 DEF Settled, Recorded
<1>4. ASSUME Busy, NEW o \in orders PROVE BookOf(o)'
  <2>1. BookOf(o) /\ o \in filled /\ ~flags.dryRun
    BY <1>2, <1>4, BookBefore
  <2>2. Awaited(o)' => Awaited(o)
    BY <1>1 DEF Awaited
  <2>3. CASE o.exchange = row.exchange
    <3> DEFINE r == [order |-> Len(orderRows) + 1, fill |-> o]
    <3>1. r \in due' /\ r.fill = o
      BY <1>1, <2>1, <2>3 DEF Fills
    <3> QED
      BY <1>3, <2>1, <2>2, <3>1 DEF BookOf
  <2>4. CASE o.exchange # row.exchange
    <3>1. Awaited(o) => Awaited(o)'
      BY <1>1, <2>4 DEF Awaited
    <3> QED
      BY <1>2, <1>3, <2>1, <2>2, <3>1 DEF BookOf
  <2> QED
    BY <2>3, <2>4
<1> QED
  BY <1>2, <1>3, <1>4, SavingFrame

(* An order row that fails leaves its call in trouble.                     *)
LEMMA SaveOrderFailsBooks ==
    ASSUME IInv, SaveOrderFails
    PROVE  BooksAreKept'
<1>1. PICK row \in Foremost : todo' = todo \ {row}
  BY DEF SaveOrderFails
<1>2. /\ UNCHANGED <<flags, allocs, pc, orders, past, filled, fillRows, due>>
      /\ pc = "saveRows" /\ due = {} /\ trouble' = trouble \cup Unsettled
  BY DEF SaveOrderFails, Rest, Cycling, loop, call, book, tables
<1>3. \A o : Recorded(o)' <=> Recorded(o)
  BY <1>2 DEF Recorded
<1>4. ASSUME Busy, NEW o \in orders PROVE BookOf(o)'
  <2>1. BookOf(o)
    BY <1>2, <1>4, BookBefore
  <2>2. Awaited(o)' => Awaited(o)
    BY <1>1 DEF Awaited
  <2>3. Settled(o)'
    BY <1>2, <1>3, <1>4, UnsettledIsThisCall DEF Settled
  <2> QED
    BY <1>3, <2>1, <2>2, <2>3 DEF BookOf
<1> QED
  BY <1>2, <1>3, <1>4, SavingFrame

(* A fill row settles its order and no other.                              *)
LEMMA SaveFillBooks ==
    ASSUME IInv, SaveFill
    PROVE  BooksAreKept'
<1>1. PICK row \in due : fillRows' = Append(fillRows, row) /\ due' = due \ {row}
  BY DEF SaveFill
<1>2. /\ UNCHANGED <<flags, allocs, pc, orders, past, filled, todo, trouble>>
      /\ pc = "saveRows"
  BY DEF SaveFill, Rest, Cycling, loop, call, book
<1>3. \A o : Recorded(o)' <=> Recorded(o) \/ o = row.fill
  BY <1>1, RecordedInserted DEF IInv, TypeOK
<1>4. ASSUME Busy, NEW o \in orders PROVE BookOf(o)'
  <2>1. BookOf(o)
    BY <1>2, <1>4, BookBefore
  <2>2. Awaited(o)' <=> Awaited(o)
    BY <1>2 DEF Awaited
  <2>3. Settled(o)' \/ Awaited(o)' \/ \E r \in due' : r.fill = o
    BY <1>1, <1>2, <1>3, <2>1, <2>2 DEF BookOf, Settled
  <2>4. Awaited(o) => o # row.fill
    BY <1>1 DEF IInv, DueIsLinked, Awaited
  <2> QED
    BY <1>3, <2>1, <2>2, <2>3, <2>4 DEF BookOf
<1> QED
  BY <1>2, <1>3, <1>4, SavingFrame

(* A fill row that fails leaves its call in trouble.                       *)
LEMMA SaveFillFailsBooks ==
    ASSUME IInv, SaveFillFails
    PROVE  BooksAreKept'
<1>1. /\ UNCHANGED <<flags, allocs, pc, orders, past, filled, fillRows, todo>>
      /\ pc = "saveRows" /\ trouble' = trouble \cup Unsettled
  BY DEF SaveFillFails, Rest, Cycling, loop, call, book, tables
<1>2. \A o : Recorded(o)' <=> Recorded(o)
  BY <1>1 DEF Recorded
<1>3. ASSUME Busy, NEW o \in orders PROVE BookOf(o)'
  <2>1. BookOf(o)
    BY <1>1, <1>3, BookBefore
  <2>2. Awaited(o)' <=> Awaited(o)
    BY <1>1 DEF Awaited
  <2>3. Settled(o)'
    BY <1>1, <1>2, <1>3, UnsettledIsThisCall DEF Settled
  <2> QED
    BY <1>2, <2>1, <2>2, <2>3 DEF BookOf
<1> QED
  BY <1>1, <1>2, <1>3, SavingFrame

(* After the last fill row nothing is awaited: all is settled.             *)
LEMMA SaveRegimeBooks ==
    ASSUME IInv, SaveRegime
    PROVE  BooksAreKept'
<1>1. BooksAreKept
  BY DEF IInv
<1>2. /\ UNCHANGED <<flags, orders, past, fillRows, trouble>>
      /\ pc = "saveRows" /\ due = {} /\ todo = {} /\ allocs' = {}
  BY DEF SaveRegime, Leave, Rest, loop, call, book
<1>3. \A o : Settled(o)' <=> Settled(o)
  BY <1>2 DEF Settled, Recorded
<1>4. \A o \in orders : Settled(o)
  BY <1>1, <1>2 DEF BooksAreKept, Awaited
<1> QED
  BY <1>1, <1>2, <1>3, <1>4 DEF BooksAreKept, Busy

(* Every step keeps the books.                                             *)
LEMMA BookStep ==
    ASSUME EngineAssumption, IInv, [Next]_vars
    PROVE  BooksAreKept'
<1>0. CallsAreNumbered' /\ PhasesAreKept /\ TypeOK
  BY PhaseStep DEF IInv
<1>1. CASE Tick \/ Serve \/ Stop \/ Interrupt \/ UNCHANGED vars
  <2>1. UNCHANGED <<orders, past, todo, due, trouble, fillRows>>
    BY <1>1 DEF Tick, Serve, Stop, Interrupt, vars, call, book, tables, saving
  <2>2. (~Busy /\ ~Busy') \/ UNCHANGED <<flags, allocs, pc, filled>>
    BY <1>1 DEF Tick, Serve, Stop, Interrupt, vars, loop, call, Busy
  <2> QED
    BY <1>0, <2>1, <2>2, RecordedSame, BookFrame
<1>2. CASE Crash
  <2>1. ~Busy'
    BY <1>2 DEF Crash, Die, Busy
  <2> QED
    BY <1>2, <2>1, GivenUp DEF Crash, Die, call, book, tables
<1>3. CASE Restart
  BY <1>0, <1>3, RecordedSame, BookFrame DEF Restart, Running, Busy, call, book, tables,
     saving
<1>4. CASE ReadOHLCV \/ OHLCVFails \/ ReadPrice \/ PriceFails \/ ReadDepth \/ Route
             \/ RouteFails \/ Simulate
  <2>1. UNCHANGED <<orders, past, trouble, fillRows>>
    BY <1>4 DEF ReadOHLCV, OHLCVFails, ReadPrice, PriceFails, ReadDepth, Route, RouteFails,
        Simulate, Decide, GiveUp, Die, call, book, tables
  <2>2. UNCHANGED <<todo, due>>
    BY <1>0, <1>4 DEF ReadOHLCV, OHLCVFails, ReadPrice, PriceFails, ReadDepth, Route,
        RouteFails, Simulate, Decide, GiveUp, Die, saving, PhasesAreKept
  <2>3. ~Busy
    BY <1>4 DEF ReadOHLCV, OHLCVFails, ReadPrice, PriceFails, ReadDepth, Route,
        RouteFails, Simulate, Busy
  <2>4. ~Busy'
    <3>1. CASE ReadOHLCV \/ OHLCVFails \/ ReadPrice \/ Route \/ RouteFails
      BY <3>1 DEF ReadOHLCV, OHLCVFails, ReadPrice, Route, RouteFails, Decide, GiveUp,
          Leave, Busy
    <3>2. CASE PriceFails
      BY <3>2 DEF PriceFails, Decide, Die, Busy
    <3>3. CASE ReadDepth
      BY <1>0, <3>3 DEF ReadDepth, Decide, PhasesAreKept, Busy
    <3>4. CASE Simulate
      BY <3>4 DEF Simulate, Decide, loop, Busy
    <3> QED
      BY <1>4, <3>1, <3>2, <3>3, <3>4
  <2> QED
    BY <1>0, <2>1, <2>2, <2>3, <2>4, RecordedSame, BookFrame
<1>5. ASSUME NEW o \in orders, Accept(o) PROVE BooksAreKept'
  BY <1>0, <1>5, RecordedSame, BookFrame DEF Accept, Call!Accept, Others, loop, book,
     tables, saving
<1>6. ASSUME NEW o \in past, AcceptLate(o) PROVE BooksAreKept'
  BY <1>0, <1>6, RecordedSame, BookFrame DEF AcceptLate, loop, call, tables, saving
<1>7. CASE SkipSaving \/ SaveCycleFails
  <2>1. ~Busy'
    BY <1>7 DEF SkipSaving, SaveCycleFails, Leave, Busy
  <2> QED
    BY <1>7, <2>1, GivenUp DEF SkipSaving, SaveCycleFails, Rest, call, book, tables
<1>8. CASE Plan
  <2>1. UNCHANGED <<orders, past, todo, due, trouble, flags, allocs, pc, filled>>
    BY <1>8 DEF Plan, PlanSavesCycle, PlanSavesOrder, PlanSavesFill, PlanSavesRegime,
        Process, loop, call, book, saving
  <2>2. \A o : o.call > 0 => (Recorded(o)' <=> Recorded(o))
    <3>1. CASE PlanSavesFill
      BY <3>1, PlanSavesFillLinks
    <3>2. CASE PlanSavesCycle \/ PlanSavesOrder \/ PlanSavesRegime
      BY <3>2, RecordedSame DEF PlanSavesCycle, PlanSavesOrder, PlanSavesRegime
    <3> QED
      BY <1>8, <3>1, <3>2 DEF Plan
  <2> QED
    BY <1>0, <2>1, <2>2, BookFrame
<1> QED
  BY <1>1, <1>2, <1>3, <1>4, <1>5, <1>6, <1>7, <1>8, RecordBooks, BeginExecuteBooks,
     ExecuteReturnsBooks, SaveCycleBooks, SaveOrderBooks, SaveOrderFailsBooks,
     SaveFillBooks, SaveFillFailsBooks, SaveRegimeBooks
  DEF Next, Cycle, Persist

-----------------------------------------------------------------------------
(* The invariant is established and kept.                                  *)
LEMMA InitEstablishesIInv ==
    ASSUME EngineAssumption, Init
    PROVE  IInv
<1>1. MaxCycles \in Nat \ {0} /\ MaxCrashes \in Nat /\ MaxPlans \in Nat
  BY DEF EngineAssumption
<1>2. TypeOK
  <2>1. /\ cycleRows \in Seq(CycleRow) /\ orderRows \in Seq(OrderRow)
        /\ fillRows \in Seq(FillRow) /\ plan \in Seq(Nat)
    BY DEF Init
  <2>2. 0 \in 0 .. MaxCycles /\ 0 \in 0 .. MaxCrashes /\ 0 \in 0 .. MaxPlans
    BY <1>1
  <2>3. /\ calls \in 0 .. MaxCycles /\ crashes \in 0 .. MaxCrashes
        /\ plans \in 0 .. MaxPlans /\ regimeRows \in Nat
    BY <2>2 DEF Init
  <2>4. /\ faults \in Scenarios /\ flags \in Flags /\ pc = "ohlcv"
        /\ tick = FALSE /\ interrupted = FALSE /\ candles = FALSE /\ result = "none"
        /\ allocs = {} /\ orders = {} /\ placed = {} /\ filled = {} /\ past = {}
        /\ held = {} /\ todo = {} /\ due = {} /\ trouble = {}
    BY DEF Init
  <2> QED
    BY <2>1, <2>3, <2>4 DEF TypeOK
<1>3. CallsAreNumbered /\ PhasesAreKept /\ OrdersAreAllocated /\ TodoIsLinked /\ DueIsLinked
  BY <1>1 DEF Init, CallsAreNumbered, PhasesAreKept, OrdersAreAllocated, TodoIsLinked,
      DueIsLinked
<1>4. PlanIsLinked /\ RegimesAreCounted /\ RowsAreLinked /\ FillRowsAreTrue
  BY DEF Init, PlanIsLinked, RegimesAreCounted, RowsAreLinked, FillRowsAreTrue
<1>5. BooksAreKept
  BY DEF Init, BooksAreKept, Busy
<1> QED
  BY <1>2, <1>3, <1>4, <1>5 DEF IInv

(* Every step keeps the invariant.                                         *)
LEMMA StepKeepsIInv ==
    ASSUME EngineAssumption, IInv, [Next]_vars
    PROVE  IInv'
  BY TypeStep, PhaseStep, AllocationStep, LinkStep, TruthStep, BookStep DEF IInv, Links

(* The inductive invariant holds throughout: whatever the interleaving of  *)
(* the process, its crashes and restarts, the venues and a plan.           *)
THEOREM Invariance == Spec => []IInv
<1>1. Init => IInv
  BY EngineAssumption, InitEstablishesIInv
<1>2. IInv /\ [Next]_vars => IInv'
  BY EngineAssumption, StepKeepsIInv
<1> QED
  BY <1>1, <1>2, PTL DEF Spec

(* Every variable of the process keeps to its type.                        *)
THEOREM TypeCorrect == Spec => []TypeOK
<1>1. IInv => TypeOK
  BY DEF IInv
<1> QED
  BY <1>1, Invariance, PTL

(* The foreign keys SQLite does not enforce hold in every state.           *)
THEOREM LinksAreKept == Spec => []RowsAreLinked
<1>1. IInv => RowsAreLinked
  BY DEF IInv
<1> QED
  BY <1>1, Invariance, PTL

(* The fill rows record each held order at most once, and nothing else.    *)
THEOREM FillRowsStayTrue == Spec => []FillRowsAreTrue
<1>1. IInv => FillRowsAreTrue
  BY DEF IInv
<1> QED
  BY <1>1, Invariance, PTL

(* A process at rest has recorded what venues hold, but for the calls that *)
(* something went wrong after.                                             *)
THEOREM HeldStaysRecorded == Spec => []HeldIsRecorded
<1>1. IInv => HeldIsRecorded
  <2> SUFFICES ASSUME IInv, AtRest, NEW o \in AllHeld, o.call \notin trouble
               PROVE  Recorded(o)
    BY DEF HeldIsRecorded
  <2>1. o \in past \cup orders
    BY DEF IInv, TypeOK, AllHeld
  <2>2. ~Busy
    BY DEF AtRest, Busy
  <2>3. Settled(o)
    BY <2>1, <2>2 DEF IInv, BooksAreKept
  <2> QED
    BY <2>3 DEF Settled
<1> QED
  BY <1>1, Invariance, PTL

-----------------------------------------------------------------------------
(* The refinement.  The orders of a ledger are those that Execute places.  *)
Placed == [call : 1 .. MaxCycles, exchange : Exchange, sub : 1 .. Subs]

InTables == {o \in Given : Recorded(o)}

(* The orders that are given carry the number of a call.                   *)
LEMMA GivenIsNumbered ==
    ASSUME IInv
    PROVE  /\ \A o \in Given : o.call > 0 /\ o.call <= calls
           /\ AllHeld \subseteq Given
           /\ calls \in Nat
  BY DEF IInv, TypeOK, CallsAreNumbered, Given, AllHeld, Order

(* A step that gives, takes and records nothing.                           *)
LEMMA Stutter ==
    ASSUME IInv, UNCHANGED <<orders, past, placed, held, trouble>>,
           \A o : o.call > 0 => (Recorded(o)' <=> Recorded(o))
    PROVE  UNCHANGED Books!vars
<1>1. UNCHANGED <<Given, AllHeld, trouble>>
  BY DEF Given, AllHeld
<1>2. InTables' = InTables
  BY <1>1, GivenIsNumbered DEF InTables
<1> QED
  BY <1>1, <1>2 DEF Books!vars, InTables

(* A step that something went wrong in loses this call, if anything of it  *)
(* was still to be recorded.                                               *)
LEMMA Losing ==
    ASSUME IInv, UNCHANGED <<orders, past, placed, held, fillRows>>,
           trouble' = trouble \cup Unsettled
    PROVE  [Books!Next]_Books!vars
<1>1. UNCHANGED <<Given, AllHeld, InTables>>
  BY DEF Given, AllHeld, InTables, Recorded
<1>2. CASE Unsettled = {}
  BY <1>1, <1>2 DEF Books!vars, InTables
<1>3. CASE Unsettled # {}
  <2>1. PICK o \in orders : ~Recorded(o) /\ o.call \in Unsettled
    BY <1>3, UnsettledIsThisCall
  <2>2. Unsettled = {o.call}
    BY <2>1, UnsettledIsThisCall
  <2>3. o \in Given \ InTables
    BY <2>1 DEF Given, InTables
  <2>4. Books!Lose
    BY <1>1, <2>2, <2>3 DEF Books!Lose, InTables
  <2> QED
    BY <2>4 DEF Books!Next
<1> QED
  BY <1>2, <1>3

(* An order that comes to be held.                                         *)
LEMMA Taking ==
    ASSUME UNCHANGED <<orders, past, fillRows, trouble>>,
           NEW o \in Given \ AllHeld, AllHeld' = AllHeld \cup {o}
    PROVE  Books!Take
<1>1. UNCHANGED <<Given, InTables>>
  BY DEF Given, InTables, Recorded
<1> QED
  BY <1>1 DEF Books!Take, InTables

(* No order of a call that is only beginning is in the tables.             *)
LEMMA Unrecorded ==
    ASSUME IInv, NEW o, o.call = calls + 1
    PROVE  ~Recorded(o)
<1> SUFFICES ASSUME NEW i \in DOMAIN fillRows, fillRows[i].fill = o PROVE FALSE
  BY DEF Recorded
<1>1. o \in Given
  BY GivenIsNumbered DEF IInv, FillRowsAreTrue
<1> QED
  BY <1>1, GivenIsNumbered

(* A call of Execute gives out a batch while all books are closed.         *)
LEMMA Giving ==
    ASSUME EngineAssumption, IInv, BeginExecute
    PROVE  Books!Give
<1> DEFINE batch == [call : {calls + 1}, exchange : allocs, sub : 1 .. Subs]
<1>1. /\ pc = "routed" /\ past' = past \cup orders /\ held' = held \cup placed
      /\ orders' = batch /\ placed' = {} /\ UNCHANGED <<fillRows, trouble>>
  BY DEF BeginExecute, tables
<1>2. calls \in Nat /\ calls + 1 \in 1 .. MaxCycles /\ allocs \subseteq Exchange
  BY <1>1 DEF IInv, TypeOK, PhasesAreKept, EngineAssumption
<1>3. batch \subseteq Placed /\ \A o \in batch : o.call = calls + 1
  BY <1>2 DEF Placed
<1> HIDE DEF batch
<1>4. \A o \in Given : Books!Settled(o)
  <2>1. \A o \in Given : Settled(o)
    BY <1>1 DEF IInv, BooksAreKept, Busy, Given
  <2> QED
    BY <2>1 DEF Settled, Books!Settled
<1>5. \A o \in batch, p \in Given : o.call # p.call
  BY <1>2, <1>3, GivenIsNumbered
<1>6. batch \in SUBSET (Placed \ Given)
  BY <1>3, <1>5
<1>7. Given' = Given \cup batch /\ AllHeld' = AllHeld
  BY <1>1 DEF Given, AllHeld
<1>8. InTables' = InTables
  <2>1. \A o \in batch : ~Recorded(o)
    BY <1>3, Unrecorded
  <2>2. \A o : Recorded(o)' <=> Recorded(o)
    BY <1>1, RecordedSame
  <2> QED
    BY <1>7, <2>1, <2>2 DEF InTables
<1>9. \A o, p \in batch : o.call = p.call
  BY <1>3
<1> QED
  BY <1>1, <1>4, <1>5, <1>6, <1>7, <1>8, <1>9 DEF Books!Give, Placed, InTables

(* A fill row records a held order, or is one that a dry run made up.      *)
LEMMA Recording ==
    ASSUME IInv, SaveFill
    PROVE  [Books!Next]_Books!vars
<1>1. PICK row \in due : fillRows' = Append(fillRows, row)
  BY DEF SaveFill
<1>2. UNCHANGED <<orders, past, placed, held, trouble>>
  BY DEF SaveFill, Rest, call, book
<1>3. \A o : Recorded(o)' <=> Recorded(o) \/ o = row.fill
  BY <1>1, RecordedInserted DEF IInv, TypeOK
<1>4. CASE ~(row.fill.call > 0)
  BY <1>2, <1>3, <1>4, Stutter
<1>5. CASE row.fill.call > 0
  <2>1. row.fill \in AllHeld \ InTables
    BY <1>5 DEF IInv, DueIsLinked, PhasesAreKept, AllHeld, InTables
  <2>2. row.fill \in Given
    BY <2>1, GivenIsNumbered
  <2>3. UNCHANGED <<Given, AllHeld>>
    BY <1>2 DEF Given, AllHeld
  <2>4. InTables' = InTables \cup {row.fill}
    BY <1>3, <2>2, <2>3 DEF InTables
  <2> QED
    BY <1>2, <2>1, <2>3, <2>4 DEF Books!Record, Books!Next, InTables
<1> QED
  BY <1>4, <1>5

(* Every step of the engine is one of the ledger or leaves it alone.       *)
LEMMA StepIsLedgerStep ==
    ASSUME EngineAssumption, IInv, [Next]_vars
    PROVE  [Books!Next]_Books!vars
<1>1. CASE Tick \/ Serve \/ Stop \/ Interrupt \/ Restart \/ UNCHANGED vars
  BY <1>1, RecordedSame, Stutter DEF Tick, Serve, Stop, Interrupt, Restart, vars, call,
     book, tables
<1>2. CASE ReadOHLCV \/ OHLCVFails \/ ReadPrice \/ PriceFails \/ ReadDepth \/ Route
             \/ RouteFails \/ Simulate
  <2>1. UNCHANGED <<orders, past, placed, held, trouble, fillRows>>
    BY <1>2 DEF ReadOHLCV, OHLCVFails, ReadPrice, PriceFails, ReadDepth, Route, RouteFails,
        Simulate, Decide, GiveUp, Die, call, book, tables
  <2> QED
    BY <2>1, RecordedSame, Stutter
<1>3. CASE SaveCycle \/ SaveOrder \/ SaveRegime
  BY <1>3, RecordedSame, Stutter DEF SaveCycle, SaveOrder, SaveRegime, Rest, call, book
<1>4. CASE Crash \/ SkipSaving \/ SaveCycleFails \/ SaveOrderFails \/ SaveFillFails
  BY <1>4, Losing DEF Crash, Die, SkipSaving, SaveCycleFails, SaveOrderFails,
     SaveFillFails, Rest, call, book, tables
<1>5. CASE ExecuteReturns
  <2>1. UNCHANGED <<orders, past, placed, held, fillRows>>
    BY <1>5 DEF ExecuteReturns, Call!Return, Others, book, tables
  <2>2. CASE UNCHANGED trouble
    BY <2>1, <2>2, RecordedSame, Stutter
  <2>3. CASE trouble' = trouble \cup Unsettled
    BY <2>1, <2>3, Losing
  <2> QED
    BY <1>5, <2>2, <2>3 DEF ExecuteReturns
<1>6. ASSUME NEW o \in orders, Accept(o) PROVE [Books!Next]_Books!vars
  <2>1. /\ o \notin placed /\ placed' = placed \cup {o}
        /\ UNCHANGED <<orders, past, held, fillRows, trouble>>
    BY <1>6 DEF Accept, Call!Accept, Others, book, tables
  <2>2. o \notin held
    BY DEF IInv, TypeOK, CallsAreNumbered, Order
  <2>3. o \in Given \ AllHeld /\ AllHeld' = AllHeld \cup {o}
    BY <2>1, <2>2 DEF Given, AllHeld
  <2> QED
    BY <2>1, <2>3, Taking DEF Books!Next
<1>7. ASSUME NEW o \in past, AcceptLate(o) PROVE [Books!Next]_Books!vars
  <2>1. /\ o \notin held /\ held' = held \cup {o}
        /\ UNCHANGED <<orders, past, placed, fillRows, trouble>>
    BY <1>7 DEF AcceptLate, call, tables
  <2>2. o \notin placed
    BY DEF IInv, TypeOK, CallsAreNumbered, Order
  <2>3. o \in Given \ AllHeld /\ AllHeld' = AllHeld \cup {o}
    BY <2>1, <2>2 DEF Given, AllHeld
  <2> QED
    BY <2>1, <2>3, Taking DEF Books!Next
<1>8. ASSUME NEW o \in orders, Record(o) PROVE [Books!Next]_Books!vars
  BY <1>8, RecordedSame, Stutter DEF Record, Call!Record, Others, book, tables
<1>9. CASE Plan
  <2>1. UNCHANGED <<orders, past, placed, held, trouble>>
    BY <1>9 DEF Plan, PlanSavesCycle, PlanSavesOrder, PlanSavesFill, PlanSavesRegime,
        Process, call, book
  <2>2. \A o : o.call > 0 => (Recorded(o)' <=> Recorded(o))
    <3>1. CASE PlanSavesFill
      BY <3>1, PlanSavesFillLinks
    <3>2. CASE PlanSavesCycle \/ PlanSavesOrder \/ PlanSavesRegime
      BY <3>2, RecordedSame DEF PlanSavesCycle, PlanSavesOrder, PlanSavesRegime
    <3> QED
      BY <1>9, <3>1, <3>2 DEF Plan
  <2> QED
    BY <2>1, <2>2, Stutter
<1>10. CASE BeginExecute
  BY <1>10, Giving DEF Books!Next
<1> QED
  BY <1>1, <1>2, <1>3, <1>4, <1>5, <1>6, <1>7, <1>8, <1>9, <1>10, Recording
  DEF Next, Cycle, Persist

(* The engine keeps its books as Ledger says, but for the liveness: no call *)
(* of Execute begins before every order of the earlier ones is in the       *)
(* tables or its call is known to have failed, and nothing is recorded that *)
(* no venue holds, or twice.                                                *)
THEOREM Refinement == Spec => Books!Safety
<1>1. Init => Books!Init
  BY DEF Init, Books!Init, Given, AllHeld
<1>2. IInv /\ [Next]_vars => [Books!Next]_Books!vars
  BY EngineAssumption, StepIsLedgerStep
<1> QED
  BY <1>1, <1>2, Invariance, PTL DEF Spec, Books!Safety
=============================================================================
