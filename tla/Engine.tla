-------------------------------- MODULE Engine --------------------------------
(***************************************************************************)
(* The process around the router: the loop of `buyback run`                *)
(* (cmd/buyback/main.go), Engine.RunCycle and Engine.persistCycle          *)
(* (internal/engine/engine.go) and the four SQLite tables behind           *)
(* store.Store (internal/store/sqlite.go).                                 *)
(*                                                                         *)
(* Router.Execute is its abstract specification, Placement, and what the   *)
(* process as a whole promises is Ledger, which it implements.  Prices and *)
(* amounts are reduced to the decisions made of them (Routing has the      *)
(* amounts): is the price below the target, is the budget above the        *)
(* minimum, which exchanges had liquidity.  Beside the process, `buyback   *)
(* plan` may be at work on the same file.                                  *)
(***************************************************************************)
EXTENDS Integers, Sequences, FiniteSets

CONSTANTS
    Exchange,       \* the configured exchanges
    Position,       \* where each stands in the engine's slice
    Remote,         \* those that heed the context: HTTP clients
    Subs,           \* the sub-orders of an allocation
    Flags,          \* the ways in which a process is started
    MinPositive,    \* min_execution_size is positive
    Scenarios,      \* what may happen besides, together: sets of faults
    MaxCycles,      \* bound on the calls of Execute and on the rows of cycles
    MaxCrashes,     \* bound on the crashes
    MaxPlans        \* bound on the invocations of `buyback plan`

Fault == {"save", "crash", "interrupt", "empty", "plan", "restart"}

(* --dry-run; whether the database could be opened; --interval.            *)
Flag == [dryRun : BOOLEAN, store : BOOLEAN, continuous : BOOLEAN]

ASSUME EngineAssumption ==
    /\ Position \in [Exchange -> Nat]
    /\ Remote \subseteq Exchange
    /\ Subs \in Nat \ {0}
    /\ Flags \subseteq Flag
    /\ MinPositive \in BOOLEAN
    /\ Scenarios \subseteq SUBSET Fault
    /\ MaxCycles \in Nat \ {0} /\ MaxCrashes \in Nat /\ MaxPlans \in Nat

VARIABLES
    faults,         \* the scenario of this behaviour
    flags,          \* how the process was started
    pc,             \* where the process stands
    tick,           \* the one tick the ticker's channel can hold
    interrupted,    \* the context of the process is cancelled
    candles,        \* whether the OHLCV data of this cycle is not empty
    allocs,         \* the exchanges of summary.Allocations
    calls,          \* how often Execute has been called
    orders, placed, filled, result,     \* the latest call, as in Placement
    past,           \* the orders of the calls before it
    held,           \* those of them that venues hold
    cycleRows, orderRows, fillRows, regimeRows,     \* the tables, by their ids
    todo,           \* the order rows persistCycle has still to write
    due,            \* the fill rows still to write for the latest of them
    plan,           \* the ids of the rows that `buyback plan` has written
    plans,          \* how often it has been started
    trouble,        \* history: calls after which something went wrong
    crashes         \* history: how often the process died

loop == <<flags, tick, interrupted>>
call == <<orders, placed, filled, result>>
book == <<past, held>>
tables == <<cycleRows, orderRows, fillRows, regimeRows>>
saving == <<todo, due>>
planning == <<plan, plans, faults>>

vars == <<pc, loop, candles, allocs, calls, call, book, tables, saving,
          planning, trouble, crashes>>

(* A sub-order is known by the call it was given to, its exchange and its  *)
(* index; the fill a dry run makes up has call 0 and index 0.              *)
Order == [call : 0 .. MaxCycles, exchange : Exchange, sub : 0 .. Subs]

CycleRow == [call : 0 .. MaxCycles]

OrderRow == [cycle : Nat, exchange : Exchange]

FillRow == [order : Nat, fill : Order]

TypeOK ==
    /\ faults \in Scenarios
    /\ flags \in Flags
    /\ pc \in {"idle", "ohlcv", "price", "depth", "route", "routed", "execute",
               "saveCycle", "saveRows", "stopped", "crashed"}
    /\ tick \in BOOLEAN /\ interrupted \in BOOLEAN /\ candles \in BOOLEAN
    /\ allocs \subseteq Exchange
    /\ calls \in 0 .. MaxCycles
    /\ orders \subseteq Order /\ placed \subseteq orders /\ filled \subseteq orders
    /\ result \in {"none", "ok", "error"}
    /\ past \subseteq Order /\ held \subseteq past
    /\ cycleRows \in Seq(CycleRow)
    /\ orderRows \in Seq(OrderRow) /\ todo \subseteq OrderRow
    /\ fillRows \in Seq(FillRow) /\ due \subseteq FillRow
    /\ regimeRows \in Nat
    /\ plan \in Seq(Nat) /\ plans \in 0 .. MaxPlans
    /\ trouble \subseteq 0 .. MaxCycles
    /\ crashes \in 0 .. MaxCrashes

Init ==
    /\ faults \in Scenarios
    /\ flags \in Flags
    /\ pc = "ohlcv"         \* the first cycle is run at once
    /\ tick = FALSE
    /\ interrupted = FALSE
    /\ candles = FALSE
    /\ allocs = {}
    /\ calls = 0
    /\ orders = {} /\ placed = {} /\ filled = {} /\ result = "none"
    /\ past = {} /\ held = {}
    /\ cycleRows = <<>> /\ orderRows = <<>> /\ fillRows = <<>> /\ regimeRows = 0
    /\ todo = {} /\ due = {}
    /\ plan = <<>> /\ plans = 0
    /\ trouble = {}
    /\ crashes = 0

Call == INSTANCE Placement

-----------------------------------------------------------------------------
(* The loop: runContinuous, or the single cycle without an interval.       *)

Running == pc \notin {"stopped", "crashed"}

Ended == IF flags.continuous THEN "idle" ELSE "stopped"

(* RunCycle returns, and its local variables are gone.                     *)
Leave == pc' = Ended /\ candles' = FALSE /\ allocs' = {}

(* The ticker drops the ticks that find its channel full.                  *)
Tick ==
    /\ flags.continuous /\ Running /\ ~tick
    /\ tick' = TRUE
    /\ UNCHANGED <<flags, pc, interrupted, candles, allocs, calls, call, book, tables,
                   saving, planning, trouble, crashes>>

(* MaxCycles: no cycle starts when there is no room for its records.       *)
Room == calls < MaxCycles /\ Len(cycleRows) < MaxCycles + plans

Serve ==
    /\ pc = "idle" /\ tick /\ Room
    /\ pc' = "ohlcv"
    /\ tick' = FALSE
    /\ UNCHANGED <<flags, interrupted, candles, allocs, calls, call, book, tables,
                   saving, planning, trouble, crashes>>

(* Mutant of Stop: a waiting tick comes first.                             *)
StopWithoutTick ==
    /\ pc = "idle" /\ interrupted /\ ~tick
    /\ pc' = "stopped"
    /\ UNCHANGED <<loop, candles, allocs, calls, call, book, tables, saving,
                   planning, trouble, crashes>>

Stop ==
    /\ pc = "idle" /\ interrupted
    /\ pc' = "stopped"
    /\ UNCHANGED <<loop, candles, allocs, calls, call, book, tables, saving,
                   planning, trouble, crashes>>

Interrupt ==
    /\ "interrupt" \in faults
    /\ Running /\ ~interrupted
    /\ interrupted' = TRUE
    /\ UNCHANGED <<flags, pc, tick, candles, allocs, calls, call, book, tables,
                   saving, planning, trouble, crashes>>

Recorded(o) == \E i \in DOMAIN fillRows : fillRows[i].fill = o

(* The call whose fills are on their way into the tables, if any are not   *)
(* there yet.                                                              *)
Unsettled ==
    IF ~flags.dryRun /\ allocs # {} /\ pc \in {"execute", "saveCycle", "saveRows"}
    THEN {o.call : o \in {x \in orders : ~Recorded(x)}}
    ELSE {}

(* The process is gone, and everything it had in memory.                   *)
Die ==
    /\ pc' = "crashed"
    /\ tick' = FALSE /\ interrupted' = FALSE
    /\ candles' = FALSE /\ allocs' = {} /\ todo' = {} /\ due' = {}
    /\ UNCHANGED <<flags, calls, call, book, tables, planning>>

Crash ==
    /\ "crash" \in faults
    /\ Running
    /\ crashes < MaxCrashes
    /\ crashes' = crashes + 1
    /\ trouble' = trouble \cup Unsettled
    /\ Die

(* A new process, after a crash or an ordinary end, and not always started *)
(* the same way: all that is left is the file and what the venues hold.    *)
Restart ==
    /\ "restart" \in faults
    /\ ~Running /\ Room
    /\ flags' \in Flags
    /\ pc' = "ohlcv"
    /\ tick' = FALSE /\ interrupted' = FALSE
    /\ UNCHANGED <<candles, allocs, calls, call, book, tables, saving, planning,
                   trouble, crashes>>

-----------------------------------------------------------------------------
(* Engine.RunCycle.                                                        *)

Decide(next) ==
    /\ pc' = next
    /\ UNCHANGED <<loop, calls, call, book, tables, saving, planning, trouble, crashes>>

GiveUp ==
    /\ Leave
    /\ UNCHANGED <<loop, calls, call, book, tables, saving, planning, trouble, crashes>>

ReadOHLCV ==
    /\ pc = "ohlcv" /\ ~interrupted
    /\ candles' \in IF "empty" \in faults THEN BOOLEAN ELSE {TRUE}
    /\ Decide("price")
    /\ UNCHANGED allocs

OHLCVFails ==
    /\ pc = "ohlcv"
    /\ GiveUp

ReadPrice ==
    /\ pc = "price" /\ ~interrupted
    /\ Decide("depth")
    /\ UNCHANGED <<candles, allocs>>

(* The fallback is the close of the last candle: without one, it panics.   *)
PriceFails ==
    /\ pc = "price"
    /\ \/ candles /\ Decide("depth") /\ UNCHANGED <<candles, allocs>>
       \/ ~candles /\ Die /\ UNCHANGED <<trouble, crashes>>

(* An exchange whose client heeds the context has no liquidity to show     *)
(* once the context is cancelled: its error counts as none.                *)
Answering == IF interrupted THEN Exchange \ Remote ELSE Exchange

(* The target of no candles is 0, which no positive price reaches (the     *)
(* test is price <= target).  A budget of 0                                *)
(* is under the minimum unless the minimum is 0 as well.                   *)
ReadDepth ==
    /\ pc = "depth"
    /\ \E liquid \in SUBSET Answering, below \in BOOLEAN, enough \in BOOLEAN :
          /\ below => candles
          /\ liquid = {} => (enough <=> ~MinPositive)
          /\ Decide(IF below /\ enough THEN "route" ELSE "saveCycle")
    /\ UNCHANGED <<candles, allocs>>

Route ==
    /\ pc = "route"
    /\ allocs' \in (SUBSET Answering) \ {{}}
    /\ Decide("routed")
    /\ UNCHANGED candles

RouteFails ==
    /\ pc = "route"
    /\ GiveUp

Simulate ==
    /\ flags.dryRun
    /\ pc = "routed"
    /\ Decide("saveCycle")
    /\ UNCHANGED <<candles, allocs>>

(* Mutant of BeginExecute: what the last call placed is not put away.      *)
BeginOverOld ==
    /\ ~flags.dryRun
    /\ pc = "routed"
    /\ pc' = "execute"
    /\ calls' = calls + 1
    /\ past' = past \cup orders
    /\ orders' = [call : {calls + 1}, exchange : allocs, sub : 1 .. Subs]
    /\ result' = "none"
    /\ UNCHANGED <<placed, filled, held, loop, candles, allocs, tables, saving,
                   planning, trouble, crashes>>

(* Mutant of BeginExecute: the dry-run flag is not looked at.              *)
BeginEvenDry ==
    /\ pc = "routed"
    /\ pc' = "execute"
    /\ calls' = calls + 1
    /\ past' = past \cup orders
    /\ held' = held \cup placed
    /\ orders' = [call : {calls + 1}, exchange : allocs, sub : 1 .. Subs]
    /\ placed' = {} /\ filled' = {} /\ result' = "none"
    /\ UNCHANGED <<loop, candles, allocs, tables, saving, planning, trouble, crashes>>

BeginExecute ==
    /\ ~flags.dryRun
    /\ pc = "routed"
    /\ pc' = "execute"
    /\ calls' = calls + 1
    /\ past' = past \cup orders
    /\ held' = held \cup placed
    /\ orders' = [call : {calls + 1}, exchange : allocs, sub : 1 .. Subs]
    /\ placed' = {} /\ filled' = {} /\ result' = "none"
    /\ UNCHANGED <<loop, candles, allocs, tables, saving, planning, trouble, crashes>>

Others == <<loop, calls, book, tables, saving, planning, crashes>>

(* A venue takes an order, at any time.                                    *)
Accept(o) ==
    /\ Call!Accept(o)
    /\ UNCHANGED <<pc, candles, allocs, Others, trouble>>

Record(o) ==
    /\ pc = "execute"
    /\ Call!Record(o)
    /\ UNCHANGED <<pc, candles, allocs, Others, trouble>>

(* Mutant of ExecuteReturns: it waits for the fills of all orders.         *)
ExecuteWaitsForFills ==
    /\ pc = "execute"
    /\ filled = orders
    /\ Call!Return
    /\ pc' = "saveCycle"
    /\ UNCHANGED <<candles, allocs, Others, trouble>>

(* An error of Execute ends the cycle there and then: the fills are        *)
(* dropped and nothing is persisted.                                       *)
ExecuteReturns ==
    /\ pc = "execute"
    /\ Call!Return
    /\ \/ /\ result' = "ok"
          /\ pc' = "saveCycle"
          /\ UNCHANGED <<candles, allocs, trouble>>
       \/ /\ result' = "error"
          /\ Leave
          /\ trouble' = trouble \cup Unsettled
    /\ UNCHANGED Others

(* So does one whose call is long over.                                    *)
AcceptLate(o) ==
    /\ o \in past \ held
    /\ held' = held \cup {o}
    /\ UNCHANGED <<pc, loop, candles, allocs, calls, call, past, tables, saving,
                   planning, trouble, crashes>>

-----------------------------------------------------------------------------
(* Engine.persistCycle.  Every statement runs under the context of the     *)
(* process, so that none succeeds once that is cancelled.                  *)

Rest == <<loop, calls, call, book, planning, crashes>>

Cycling == <<candles, allocs>>

CanFail == interrupted \/ "save" \in faults

Fills ==
    IF flags.dryRun THEN [call : {0}, exchange : allocs, sub : {0}] ELSE filled

SkipSaving ==
    /\ ~flags.store
    /\ pc = "saveCycle"
    /\ Leave
    /\ trouble' = trouble \cup Unsettled
    /\ UNCHANGED <<Rest, tables, saving>>

(* A cycle that was skipped has no allocations, and so no call.  The id of *)
(* the row is kept for the order rows, whatever is written in between.     *)
SaveCycle ==
    /\ flags.store /\ ~interrupted
    /\ pc = "saveCycle"
    /\ cycleRows' = Append(cycleRows,
           [call |-> IF allocs = {} \/ flags.dryRun THEN 0 ELSE calls])
    /\ todo' = [cycle : {Len(cycleRows) + 1}, exchange : allocs]
    /\ pc' = "saveRows"
    /\ UNCHANGED <<Rest, Cycling, orderRows, fillRows, regimeRows, due, trouble>>

(* Without a cycle row there is nothing to hang the rest on.               *)
SaveCycleFails ==
    /\ flags.store /\ CanFail
    /\ pc = "saveCycle"
    /\ Leave
    /\ trouble' = trouble \cup Unsettled
    /\ UNCHANGED <<Rest, tables, saving>>

(* The loop goes through the allocations in the order of the slice.        *)
Foremost ==
    {row \in todo : \A r \in todo : Position[row.exchange] <= Position[r.exchange]}

(* Mutant of SaveOrder: every allocation is given the fills of all.        *)
SaveOrderAllFills ==
    /\ pc = "saveRows" /\ due = {}
    /\ ~interrupted
    /\ \E row \in Foremost :
          /\ orderRows' = Append(orderRows, row)
          /\ due' = {[order |-> Len(orderRows) + 1, fill |-> f] : f \in Fills}
          /\ todo' = todo \ {row}
    /\ UNCHANGED <<pc, Rest, Cycling, cycleRows, fillRows, regimeRows, trouble>>

(* Mutant of SaveOrder: the loop is left after the first allocation.       *)
SaveOrderOnce ==
    /\ pc = "saveRows" /\ due = {}
    /\ ~interrupted
    /\ \E row \in Foremost :
          /\ orderRows' = Append(orderRows, row)
          /\ due' = {[order |-> Len(orderRows) + 1, fill |-> f] :
                        f \in {x \in Fills : x.exchange = row.exchange}}
          /\ todo' = {}
    /\ UNCHANGED <<pc, Rest, Cycling, cycleRows, fillRows, regimeRows, trouble>>

SaveOrder ==
    /\ pc = "saveRows" /\ due = {}
    /\ ~interrupted
    /\ \E row \in Foremost :
          /\ orderRows' = Append(orderRows, row)
          /\ due' = {[order |-> Len(orderRows) + 1, fill |-> f] :
                        f \in {x \in Fills : x.exchange = row.exchange}}
          /\ todo' = todo \ {row}
    /\ UNCHANGED <<pc, Rest, Cycling, cycleRows, fillRows, regimeRows, trouble>>

(* The fills of an order row that could not be written are passed over.    *)
SaveOrderFails ==
    /\ pc = "saveRows" /\ due = {}
    /\ CanFail
    /\ \E row \in Foremost : todo' = todo \ {row}
    /\ trouble' = trouble \cup Unsettled
    /\ UNCHANGED <<pc, Rest, Cycling, tables, due>>

(* Mutant of SaveFill: the id of the order row is looked up in the table.  *)
SaveFillToLast ==
    /\ pc = "saveRows"
    /\ ~interrupted
    /\ \E row \in due :
          /\ fillRows' = Append(fillRows, [row EXCEPT !.order = Len(orderRows)])
          /\ due' = due \ {row}
    /\ UNCHANGED <<pc, Rest, Cycling, cycleRows, orderRows, regimeRows, todo, trouble>>

SaveFill ==
    /\ pc = "saveRows"
    /\ ~interrupted
    /\ \E row \in due :
          /\ fillRows' = Append(fillRows, row)
          /\ due' = due \ {row}
    /\ UNCHANGED <<pc, Rest, Cycling, cycleRows, orderRows, regimeRows, todo, trouble>>

SaveFillFails ==
    /\ pc = "saveRows"
    /\ CanFail
    /\ \E row \in due : due' = due \ {row}
    /\ trouble' = trouble \cup Unsettled
    /\ UNCHANGED <<pc, Rest, Cycling, tables, todo>>

SaveRegime ==
    /\ pc = "saveRows" /\ due = {} /\ todo = {}
    /\ \/ ~interrupted /\ regimeRows' = regimeRows + 1
       \/ CanFail /\ UNCHANGED regimeRows
    /\ Leave
    /\ UNCHANGED <<Rest, cycleRows, orderRows, fillRows, saving, trouble>>

-----------------------------------------------------------------------------
(* `buyback plan`: always a dry run, with the same buildEngine, hence on   *)
(* the same file.  It goes through persistCycle like everybody else, here  *)
(* with at most one allocation; it may end at any point.                   *)

Process ==
    <<pc, loop, candles, allocs, calls, call, book, saving, trouble, crashes>>

PlanSavesCycle ==
    /\ "plan" \in faults
    /\ plan = <<>> /\ plans < MaxPlans
    /\ cycleRows' = Append(cycleRows, [call |-> 0])
    /\ plan' = <<Len(cycleRows) + 1>>
    /\ plans' = plans + 1
    /\ UNCHANGED <<Process, faults, orderRows, fillRows, regimeRows>>

PlanSavesOrder ==
    /\ Len(plan) = 1
    /\ \E x \in Exchange :
          orderRows' = Append(orderRows, [cycle |-> plan[1], exchange |-> x])
    /\ plan' = Append(plan, Len(orderRows) + 1)
    /\ UNCHANGED <<Process, plans, faults, cycleRows, fillRows, regimeRows>>

PlanSavesFill ==
    /\ Len(plan) = 2
    /\ fillRows' = Append(fillRows,
           [order |-> plan[2],
            fill |-> [call |-> 0, exchange |-> orderRows[plan[2]].exchange, sub |-> 0]])
    /\ plan' = Append(plan, Len(fillRows) + 1)
    /\ UNCHANGED <<Process, plans, faults, cycleRows, orderRows, regimeRows>>

PlanSavesRegime ==
    /\ plan # <<>>
    /\ regimeRows' = regimeRows + 1
    /\ plan' = <<>>
    /\ UNCHANGED <<Process, plans, faults, cycleRows, orderRows, fillRows>>

Plan == PlanSavesCycle \/ PlanSavesOrder \/ PlanSavesFill \/ PlanSavesRegime

-----------------------------------------------------------------------------
Cycle ==
    \/ ReadOHLCV \/ OHLCVFails \/ ReadPrice \/ PriceFails
    \/ ReadDepth \/ Route \/ RouteFails \/ Simulate \/ BeginExecute
    \/ ExecuteReturns

Persist ==
    \/ SkipSaving \/ SaveCycle \/ SaveCycleFails
    \/ SaveOrder \/ SaveOrderFails \/ SaveFill \/ SaveFillFails \/ SaveRegime

Next ==
    \/ Tick \/ Serve \/ Stop \/ Interrupt \/ Crash \/ Restart
    \/ Cycle \/ Persist \/ Plan
    \/ \E o \in orders : Accept(o) \/ Record(o)
    \/ \E o \in past : AcceptLate(o)

(* The process goes on as long as it can, except that the market data      *)
(* client has no timeout: only a cancelled context is sure to end its      *)
(* requests.  A select with both channels ready picks either one, at       *)
(* random, so the interrupt is not overlooked for ever.                    *)
Fairness ==
    /\ WF_vars(Serve)
    /\ SF_vars(Stop)
    /\ WF_vars(interrupted /\ (OHLCVFails \/ PriceFails))
    /\ WF_vars(ReadDepth \/ Route \/ RouteFails \/ Simulate \/ BeginExecute)
    /\ WF_vars(ExecuteReturns)
    /\ WF_vars(Persist)

Spec == Init /\ [][Next]_vars /\ Fairness

-----------------------------------------------------------------------------
AllHeld == held \cup placed

AtRest == pc \in {"idle", "stopped"}

(* The foreign keys, which SQLite does not enforce here, hold all the      *)
(* same, across failed statements, interrupts, restarts and another        *)
(* process that writes in between: an order row belongs to a cycle row, a  *)
(* fill row to an order row of its own exchange and of the very cycle in   *)
(* which the order was placed.  No regime is recorded without its cycle.   *)
RowsAreLinked ==
    /\ \A i \in DOMAIN orderRows : orderRows[i].cycle \in DOMAIN cycleRows
    /\ \A i \in DOMAIN fillRows :
          LET id == fillRows[i].order
              fill == fillRows[i].fill
          IN  /\ id \in DOMAIN orderRows
              /\ orderRows[id].exchange = fill.exchange
              /\ cycleRows[orderRows[id].cycle].call = fill.call
    /\ regimeRows <= Len(cycleRows)

(* No order's fill is counted twice in the tables, and none is counted     *)
(* that no venue holds; a dry run in between makes up its fills (call 0)   *)
(* and adds none for an order of a live process.                           *)
FillRowsAreTrue ==
    \A i \in DOMAIN fillRows : fillRows[i].fill.call > 0 =>
        /\ fillRows[i].fill \in AllHeld
        /\ \A j \in DOMAIN fillRows : fillRows[j].fill = fillRows[i].fill => i = j

(* Whenever a process is at rest, every order a venue holds is in the      *)
(* tables, but for the calls of Execute that returned an error, ran into a *)
(* crash, or whose records could not be written.  A dry run places none    *)
(* and so owes none.                                                       *)
HeldIsRecorded ==
    AtRest => \A o \in AllHeld : o.call \notin trouble => Recorded(o)

(* The interrupt is obeyed from everywhere, also while the market data     *)
(* client hangs and while ticks keep coming.                               *)
StopsWhenInterrupted == interrupted ~> ~Running

(* Nothing but the market data client can hold up the loop for ever: no    *)
(* exchange, no failed cycle and no failed statement does.                 *)
OnlyProviderBlocks ==
    []<>(pc = "idle" \/ ~Running) \/ <>[](pc \in {"ohlcv", "price"})

(* The engine's calls of Execute are the batches of a ledger: the orders   *)
(* of the current and the earlier calls are given, a fill row records one. *)
Given == orders \cup past

Books == INSTANCE Ledger WITH
    Order <- [call : 1 .. MaxCycles, exchange : Exchange, sub : 1 .. Subs],
    given <- Given,
    held <- AllHeld,
    recorded <- {o \in Given : Recorded(o)},
    lost <- trouble

(* The engine keeps its books as Ledger says: no call of Execute begins    *)
(* before every order of the earlier ones is in the tables or its call has *)
(* failed, and every call comes to one of these two ends.                  *)
ImplementsLedger == Books!Spec

(* "Every cycle, order, fill, and regime classification is persisted to    *)
(* SQLite."                                                                *)
EverythingPersisted == flags.store /\ AtRest => \A o \in AllHeld : Recorded(o)

(* "Get current price from provider; fall back to latest OHLCV close": the *)
(* process does not die of a price request that fails.                     *)
PriceHasFallback == pc = "crashed" => crashes > 0
=============================================================================
