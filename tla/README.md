# A verification of the market-aware buyback engine

`buyback run` reads market data, classifies the regime of the market, derives
a budget and a target price, and buys a token on one or more exchanges. This
directory models that program in TLA+, checks the models with TLC and proves
their safety properties with TLAPS: every invariant that a passing run checks,
and every action property, is a theorem for all values of the constants.
Definitions carry the names of the code; `PROJECT.json` maps each one to its
lines.

## The system

| Part | Source | State it keeps | What it does |
|---|---|---|---|
| Run loop | `cmd/buyback/main.go` | ticker, context of the process | first cycle at once, then one per tick; SIGINT cancels the context |
| Engine | `internal/engine/engine.go` | none between cycles | `RunCycle`: data, regime, price, depth, skip or route, execute or simulate, persist |
| Pricing | `internal/engine/vwap.go` | none | VWAP, target price, realized volatility |
| Classifier | `internal/regime/*.go` | none | four score functions, weighted sum, winner and confidence |
| Router | `internal/exchange/router.go` | none | `Route`: weights by depth; `Execute`: a goroutine per sub-order in an errgroup |
| Exchanges | `internal/exchange/cow`, `mock` | the orders, at the venue | quotes, orders, order status |
| Market data | `internal/market/coingecko` | none | candles, volumes, price over HTTP without a timeout |
| Store | `internal/store` | four SQLite tables | inserts while a cycle is persisted; queries of the CLI |
| CLI queries | `cmd/buyback/main.go` | none | `stats`, `history`, `regimes`, `regime`, `plan` |

The loop calls the engine, which calls provider, classifier, router and store
in turn, all under the context of the process. The router's goroutines share a
slice behind a mutex and a context which the first error cancels. A `stats`
process reads the database file that a `run` process writes, and a `plan`
process writes its own dry cycle into it. What an exchange
has accepted is known to the exchange alone until an answer arrives.

What is hard to test in this: the interleavings of the goroutines with the
cancellation; requests and answers that are lost while the venue acts on them;
what is left in the tables by a failed `Execute`, a failed statement, an
interrupt or a crash; two readings of the depth, or of the fills, with the
world moving in between; an order book that executes, expires and cancels on
its own while its client asks about it; candles and volumes from two requests
with times of their own; rounding and boundaries of the routing; a year of
cycles that none of the cycles knows about. `PROJECT.json` lists each at its
line under `hazards`.

What makes each part correct:

- **Execute**: no fill without an accepted order, none twice; nil exactly when
  all is accounted for; the reported error is the cause; nothing goes on after
  the return.
- **Routing**: allocations fit the depth they were made from; no empty orders;
  the number of sub-orders stays near the configured one.
- **Engine and store**: rows belong together; what venues hold is recorded
  unless something is known to have gone wrong; the books of a call are closed
  before the next; a dry run calls no exchange; an interrupt ends the loop.
- **CoW client**: what is final stays so; a cancellation that succeeded is one;
  polling misses nothing; the two ways to learn what was bought agree, and with
  the budget that was divided.
- **Market data**: a candle has the volume of the nearest point, whatever else
  the replies hold.
- **Strategy**: it never buys above the whole window; the regimes and the
  volatility push the decision the way the documentation says.
- **Classifier**: the winner and its confidence are what the scores say; the
  trend cannot be contradicted; units do not matter.
- **stats**: a report is true of some moment of the database.

## Modules

| Module | Models | Its state in the code |
|---|---|---|
| `Placement` | the promise of one call of `Execute` (abstract) | orders given, held by venues, filled, result |
| `Execute` | `Router.Execute`, its errgroup, CoW client and mock exchange | `pc`: position in the goroutine; `at`, `exec`: the order at its venue; `amount`: the local `fill`; `fills`: `allFills`; `err`, `cancelled`: the errgroup; `interrupted`: the caller's context |
| `ExecuteProofs` | theorems about `Execute` | |
| `CowClient` | the CoW client and the order book over the life of orders | `book`, `sell`, `validTo`, `executed`, `trades`: the order book; `ids`, `report`, `ended`, `since`, `seen`: what the caller got |
| `CowClientProofs` | theorems about `CowClient` | |
| `Routing` | depth cap of `RunCycle`, `Route`, sub-order split of `Execute` | the overrides and the batch preference, two depth readings, `adjustedBudget`, scores, sub-orders |
| `RoutingProofs` | theorems about `Routing` | |
| `Ledger` | the promise of the process about its orders (abstract) | orders given, held, recorded; calls lost |
| `Engine` | `runContinuous`, `RunCycle`, `persistCycle`, the tables, `plan` beside it | `flags`: the command line; `pc`: position in the cycle; `tick`: the ticker's channel; the call variables of `Placement`; the rows; `plan`: what the other process has written |
| `EngineProofs` | theorems about `Engine` | |
| `Config` | `BuybackConfig`, `Load`, `Validate`, `Range.Mid` | none (operators) |
| `MarketData` | `GetOHLCV`: parsing and the merge of candles with volumes | none (operators) |
| `Strategy` | VWAP, target price, fallback price, budget, and the sum that many cycles spend; over `Config` and `MarketData` | the configuration, the replies a cycle got, what it made of them, what it and all together bought for |
| `StrategyProofs` | theorems about `Strategy`, with what `Config` and `MarketData` return | |
| `Classifier` | `Classify` and the four score functions | the candles and the latest result |
| `ClassifierProofs` | theorems about `Classifier` | |
| `Stats` | `GetFillStats` against a writer | the two tables it joins, the report |
| `StatsProofs` | theorems about `Stats` | |
| `FoldTheorems` | lemmas about the folds of the community modules, for all of these | |
| `MC...` | instances for TLC | |

`Engine` composes `Placement` (`Call == INSTANCE Placement`) over its own
variables: `Accept`, `Record` and `Return` of the abstract call are steps of
the engine. `Execute` implements `Placement` under the refinement mapping at
the end of the module: orders that a venue holds are placed, orders in
`allFills` are filled. What is shown of `Engine` therefore rests on no more of
`Execute` than is checked and proved about it. `Engine` in turn implements
`Ledger`: each call is a batch of orders, a fill row records one of them, and
the calls after which something went wrong are lost. `CowClient` looks at the
same client as `Execute`, one order at a time and for longer than a cycle
lasts, so that the two do not compose but overlap in `SubmitOrder` and
`OrderStatus`.

### How actions correspond to code

*Execute.* `Spawn` is one turn of the loops, up to `g.Go`. The goroutine is
`Draw`/`Wake` (jitter), then for a remote exchange `Send` and `Reply`,
`ReplyRefused` (HTTP 400 and above) or `LoseReply` (timeout, broken connection,
undecodable answer), for one in process `Register`; then `ReadStatus` or
`StatusFails` where the status asks for it, `AppendFill`, or `Fail`. `Abort` is
every place that watches the context. `VenueDecides` and `VenueExecutes` are
the remote exchange, which acts on what is on the wire whether or not anybody
waits. `Return` is `g.Wait` and what follows. Fields of a fill other than its
amount are left out, as is the name of the sub-order's exchange in the error.
A step of the code that touches only local variables is part of the next step.

*Routing.* `Cap` is `queryTotalDepth` with the liquidity score, `Skip` the
minimum, `Route` the second reading with filter and scores, `Split` the count
of each allocation. Floats and decimals are exact ratios, so a rounding of the
last bit is outside the model; the rounding to whole sub-orders is inside.
`Whole` is what weights are fractions of: scores that do not add up to
something positive are not normalised.
An exchange that fails to answer has depth 0, as in both places of the code.

*Engine.* One action per call that can fail or block. `ReadDepth` also takes
the decision (below target, above minimum), whose arithmetic is in `Strategy`
and `Routing`. Each insert is an action of its own with its failure beside it;
under a cancelled context only the failure is possible, since `database/sql`
refuses the statement. A sub-order carries the number of the call it belongs
to, which is how rows are compared with venues; row ids are positions in the
tables. `Crash` is the end of the process at any point; SIGTERM, which the
program does not catch, is one. `Restart` starts a process on the same file, after a crash or an ordinary end;
`flags` is how it was started (`--dry-run`, `--interval`, whether the database
opened), which need not be how the one before it was. Exchanges are gone through
in the order of the slice (`Position`), as `persistCycle` does.
`PlanSavesCycle` to `PlanSavesRegime` are `buyback plan` on the same file: a dry
cycle with at most one allocation, whose inserts fall anywhere among those of
the process. Its earlier steps read only.
`Subs` sub-orders per allocation stand for the split, and every one of them
goes to a configured exchange: the branch for unknown exchanges in `Execute`
is dead code, as `Route` only names configured ones. If `prefer_batch_auction`
and overrides change amounts, no action of this module can tell.

*CowClient.* `SubmitOrder` (the order book takes the order; the caller has its
id or, when the answer is lost, an error), `OrderStatus`, `CancelOrder` and
`RecentFills` are the methods; `Settle`, `Expire` and `Pass` are the order book
and the clock. A request that fails changes nothing and has no action. The
order book may call an open order `open`, `partiallyFilled` once something is
executed, or, before that, by a word the client does not know. A trade whose
date has neither of the two formats is not `readable`. The caller of
`RecentFills`, of which the repository has none but tests, is taken to go on
from the date of the latest fill it got. Trades are assumed to show up in the
answers in the order of their dates.

*Strategy.* One action per cycle; the regime is unconstrained and the realized
volatility is any value of `Vol`, but 0 where the returns do not differ. The
configuration is any that `Load` lets through; candles are what `GetOHLCV`
makes of two replies. `NextDay` exists for the question what cycles spend
together. `Validate` bounds neither the multipliers nor the minimum size from
below: `Most`, the largest multiplier, counts from 0, and only a minimum of 0 or
more keeps a negative budget from being routed (`TypeOK`).

*Classifier.* Scores in hundredths times weights in tenths make every sum of
the code an integer with total 3100, and the confidence is in that unit. The
logarithm of a close is a constant in thousandths. The code computes the same
sums in floating point; evaluating all 108 combinations of score tables both
ways gives the same winner, so ties are ties there too.

*Stats.* Each of the two statements is atomic; the writer may commit between
them. The filter by token and time is one bit of an order and one of a fill.

## Checks

All runs are exhaustive over their instances. Deadlock checking is off in all
but the `Stats` runs because the systems stop: a call returns, a process ends,
a cycle is split, the window is full.

| Run | Shows |
|---|---|
| `execute` | four orders, at CoW, a mock, a mock with a latency and a venue that uses every status, with jitter, losses, refusals, interrupt: every property of `Execute`, and that it implements `Placement!Spec`, safety and the liveness `WF(Return)` |
| `routing` | three exchanges (one for batches), all pairs of depth readings, with and without the batch preference, without overrides, with 50 and 300 percent, with a venue switched off, and with a negative override |
| `cow_client` | two orders at CoW, under any executions, expiries, cancellations, status requests and polls: reports are final, fills complete, amounts consistent |
| `engine_faults` | failing statements, a crash, restarts in other modes, interrupt, empty data, late acceptance, and a `plan` process, over two calls: the tables against the venues, `Ledger`, and that the loop stops after an interrupt and only the provider can hold it up |
| `stats_concurrent` | a report stays true of the database whatever is written meanwhile |
| `classifier` | every history of up to six candles |
| `strategy` | every reply of up to three candles with every reply of up to two volume points, five configurations of which `Validate` refuses two, all regimes, volatilities, prices and depths |

Five runs end in a violation, each of a sentence of the documentation or a
comment. They are the findings of `PROJECT.json`:

| Run | Statement | What the code does |
|---|---|---|
| `execute_pending_fills` | a fill is a completed trade fill | a pending order is reported with its full amount |
| `engine_unpersisted` | every order and fill is persisted | a failed `Execute` persists nothing, although venues hold orders |
| `engine_panic` | the price falls back to the latest close | with no candles the fallback indexes position -1 |
| `stats_fill_rate` | fill rate | an order counts once per fill in the denominator |
| `strategy_interval` | total annual budget | every cycle spends a daily budget, however many there are a day |

`strategy_interval` allows two cycles a day in a year of two days. The shortest
violation is two cycles in accumulation, whose multiplier is above 1: one
cycle a day would also exceed the year's budget if accumulation lasted for it.
`SpendingIsPaced` proves what bounds a year instead.

Smaller disagreements met while modelling have no run of their own:

- The number of sub-orders is not `order_split_count`, since each allocation
  rounds by itself and gets at least one; `SplitNearCount` says how far it can
  be off. The table records the configured count as `sub_order_count`.
- Sub-orders can be smaller than `min_execution_size`, which is compared with
  the budget of the whole cycle, although `configs/example.yaml` says such
  sub-orders are skipped.
- The exact total of `stats` can include fills that its count does not, as the
  two queries are not one transaction; `TotalWasTrue` says what remains true.
- The CoW client reports the depth of a quote in base units, and so do the
  amounts of its status and fills; `pkg/types/types.go:65` calls the depth
  "total available depth in USD". A quote of 10000 dollars thus counts as a
  depth of some ten thousand million. `router.go:229` would store such an amount
  as the dollars of a fill, if CoW ever answered a submission with filled.
- Orders to CoW ask for a minimum of one base unit: the slippage limit of the
  order is ignored, of which `config.go:39` says "MaxSlippageBps is the maximum
  acceptable slippage".
- `RecentFills` of the CoW client does not look at the pair
  (`exchange/exchange.go` says it returns fills for a trading pair), and
  includes fills at exactly the given time, so that a caller who goes on from
  the latest one gets it again.
- A status word the client does not know (`presignaturePending`) is reported as
  failed, and the order may still be executed: `ReportsAreFinal` is about
  filled and cancelled only.
- `vol_scaling_factor` may be negative, which turns the discount into a premium
  in volatile markets: `NeverAboveTheWindow` needs it to be 0 or more.
- `min_execution_size` and the multipliers may be negative too: where both are, a
  negative budget is routed.
- `exchange_weight_overrides` may be negative: the venue's amount is then
  negative and the others' exceed the budget.
- `CancelOrder` of the mock cancels an order that is already filled, after which
  its `RecentFills` does not show it any more.
- `plan` ("Show execution plan without executing") writes a cycle and made-up
  fills into the database, which `stats` counts.
- The score columns of `regime_history` are never filled in.

Every property of a passing run has a mutant: a variant of one definition, as a
plausible bug would make it, under which TLC finds the property violated. The
mutants stand before the definitions they vary.

### Bounds, and why they are enough

- *Execute*: 4 sub-orders, one at each kind of exchange. Two are needed for one to fail while another is
  underway, three for one to fail first, one to be cancelled and one to be
  accepted. `Amount` 2 gives none, part and all executed. The proofs remove
  these bounds.
- *Routing*: 3 exchanges, depths 0, 2, 5, 11, budgets below 0 and on both sides
  of the minimum and of the total depth; `Count` and `MinSize` are 3. The proofs have
  any number of exchanges, any depths and counts.
- *CowClient*: 2 orders of an allocation of 1 dollar at 5 base units to the
  dollar, which do not divide evenly, so 2 units each in one, two or no
  executions; moments 0 to 2 and a validity of 1, so that an order can be
  executed, expire, and be asked about afterwards. The proofs remove these.
- *Engine*: `MaxCycles` 2 bounds the calls and the cycle rows, so that an old
  call can still be answered during the next and rows of two cycles coexist;
  one crash, one `plan`; two exchanges, one sub-order each (a second one is
  one more of the same kind for `Engine`). Processes start live, dry, without a
  database, or for a single cycle, and every restart chooses anew. What may go
  wrong together is one of five `Scenarios`: statements, crash and restarts;
  interrupts and restarts; crash and interrupts; empty data and interrupts;
  `plan`. The full product is beyond a run of minutes; the proofs have it. A
  cycle without a call repeats freely where it writes no row.
- *Stats*: 2 orders and 3 fills, so that an order has two fills and another one;
  reports are repeated without bound. The proofs have any tables.
- *Classifier*: 6 candles, so that the last 5 and all of them differ; closes 3%
  and 9% apart on both sides of 2%, and of the thresholds of 30% and 80% for
  the volatility. The cut at 20 candles is in the definition but not reached; the proofs have it,
  with windows of any length.
- *Strategy*: 3 candles at times 10 apart, one of which may not parse; 2 volume
  points, before, between (as near to one as to the next) and after, or none, or
  a broken one; volumes 0 and 3; configurations with the defaults, with no
  discount and a multiplier and minimum below 0, with a negative scaling factor and
  no minimum, and two that are not valid; 2 days. The proofs remove these.

### Fairness

`Execute`: each goroutine goes on when it can, as the Go scheduler lets it; a
wait on the wire ends because the CoW client has a timeout of 30 s
(`cow/client.go`). Venues are under no obligation. `Engine`: weak fairness for
the steps of the process, again with nothing assumed of venues, restarts or `plan`. The market data
client has no timeout, so its requests need not end, except that a cancelled
context ends them. `Stop` has strong fairness: a `select` with both channels
ready picks one at random, so an interrupt is not passed over for ever, even
when a tick is always waiting. A crash is never required.

## Proofs

`ExecuteProofs` holds for every number of sub-orders, every assignment to
exchanges, and every set of answers. It rests on the assumptions of `Execute`
(`NAssumption`, `VenueAssumption`, `AmountAssumption`, `NoneAssumption`).

The safety properties are not inductive: that a returned nil means all fills
are there needs to know that a goroutine which is through has a fill or has
left an error. `IInv` adds what the code relies on without saying so:

- `PcFixesPlace`: up to the submission an order is nowhere, and past the answer
  it is at its venue; only spawned goroutines have begun.
- `FillsOfEnded`: a goroutine appends as its last act, and the one whose error
  is kept has appended nothing.
- `EndedIsKnown`: who is through has a fill, or there is an error.
- `CancelHasCause`: a cancelled context means an error, an interrupt or a
  return, and a goroutine stopped by it can count on the first two.
- `ReturnIsLast`: after the return all are through, and the result is that of
  the group.

`Invariance` is proved by one lemma per kind of step: those local to a goroutine
(`LocalStep`), the append, the failure, and the rest. `TypeCorrect`,
`FillsAreHeldTheorem`, `ResultMatchesFillsTheorem`, `NoSilentLossTheorem` and
`RootCauseTheorem` follow from it; `QuietAfterReturnTheorem` is an action
property from the same invariant. `Refinement` shows that initial states map to
initial states of `Placement` and every step to a step of it or a stutter;
`Return` is the step that needs the invariant.

`LocalFillsAreExactTheorem` needs one hypothesis, `LocalAnswers`: an exchange in
process never answers that an order is pending (the mock's `switch` has no such
case), since the fill then carries the whole amount.

`EngineProofs` holds for every set of exchanges in any order, every number of
sub-orders, every set of modes and of scenarios, all faults at once included,
and every bound. It rests on `EngineAssumption`. That a fill row belongs
to an order row of its exchange in its cycle is not inductive, because a step
inserts what earlier ones have put aside while other inserts went on. `IInv`
adds:

- `CallsAreNumbered`, `PhasesAreKept`, `OrdersAreAllocated`: orders carry the
  number of their call, what a phase of the cycle knows of the call, and that
  the orders of a live cycle are at its allocated exchanges;
- `TodoIsLinked`, `DueIsLinked`, `PlanIsLinked`: rows not yet written point to
  rows already written, of the right call and exchange, and no fill that is
  still due is in the table;
- `RegimesAreCounted`: there is a cycle row for each regime row, and another for
  each one still to come, of either process;
- `BooksAreKept`: an order of an earlier call, or of this one once its cycle has
  ended, is recorded or its call is in trouble; one that is underway is filled,
  and its row still to come.

`LinksAreKept`, `FillRowsStayTrue` and `HeldStaysRecorded` follow.
`Refinement` proves the safety part of `Ledger`: `BeginExecute` is `Give` and
needs `BooksAreKept` for the guard, `Accept` and `AcceptLate` are `Take`,
`SaveFill` is `Record`, every step that adds to `trouble` is `Lose`, and the
rest stutter. Its liveness, that books are closed, is left to TLC.

`CowClientProofs` holds for any number of orders, budgets, units and validity,
under `CowAssumption`. Its invariant says what the
reports still mean while the order book goes on: a final report is that of a
closed order with all that was executed (`ReportsAreTrue`), an order whose
cancellation succeeded is closed (`EndedIsCancelled`), nothing is executed of
an order that does not exist (`FreshIsUnexecuted`), and neither trade nor poll
is ahead of the clock (`NothingIsAhead`). From it follow `PollingIsComplete`,
`FinalReports` and `CancelledIsOver`; the last two are action properties. The
amounts need four more: every order sells the same part of the budget
(`SellsTheAmount`), a fulfilled one is executed in full (`FulfilledIsWhole`), a
report may lag behind but not run ahead (`ReportsLag`), and what is executed of
an order is what its trades come to (`TradesMakeExecuted`). Then
`ReportsFitBudget` follows from the rounding of one conversion per order, and
`FillsAgree` since trades that are all seen add up to all that is executed.

`RoutingProofs` holds for every finite set of exchanges, any part of them in
batches, every set of overrides, depths and budgets, every minimum and count, also
negative ones where `Validate` lets them through, under `RoutingAssumption`. `IInv` says what a phase rests on: the budget is
capped by the first reading (`Capped`), the scores are those of the second
(`Scored`), and the counts those of the scores (`Divided`). The
properties compare the two: `FailureIsNews`, because a budget that reaches a positive minimum
means that the first reading had depth; `DepthIsRespected`, because neutral
scores add up to no less than the second reading, and only the boost lets a
venue with batch auctions exceed its share of that; `CountIsNear`,
because every allocation is at most half a sub-order off its share, or at most
one up, where the rounding to at least one applies, and these add up. `DepthIsRewarded` is
that rounding keeps order.

`StatsProofs` holds for any number of rows and any amounts, under
`StatsAssumption`. That the total is one the tables had needs that the rows the
first query counted are still there when the second adds up
(`FoundIsThere`), which is so because the writer only appends and a row that is
selected once stays selected, and that every fill has an order
(`FillsHaveOrders`), without which the join could lose rows.

`StrategyProofs` holds for every set of configuration files, replies, prices,
depths and volatilities and for years of any length, under
`StrategyAssumption`: what the parser lets through are numbers, with the low of a candle
positive and at most its close, and the close at most its high. `SelectSeq` of the standard
modules is a recursion that the provers cannot enter, so the assumption is one
about the parsed replies; that unparsable entries are passed over is checked by
TLC. `IInv` says that the market of the latest cycle is what the cycle made of its
replies and its purchase what that market asks for (`Decided`), and that all
purchases fit as many cycles at the largest multiplier (`Spending`). No sign of
a multiplier, scaling factor or minimum is assumed, as `Validate` checks none.

- `NearestIsFound`: a loop invariant of `ClosestVolume`, that after k points it
  stands at the first of the nearest among them, along `FoldFromTheLast`.
- `NoChase`: where a price is above all highs it is above each typical price and
  each close, therefore above their averages (`VWAPBounds`), therefore
  above the target, as the discount is not negative.
- `MarkupIsOutbought`, `CalmIsNoObstacle`: a smaller discount never makes a
  cheap price dear (`CheapAfterLess`), and the discount of accumulation is at
  most that of markup, that of a calm market at most that of a volatile one.
- `SpendingIsPaced`: at any moment of a year no more has been spent than one
  daily budget at the largest multiplier per cycle run so far. This holds for
  every valid configuration, and the code has no tighter bound: with the defaults
  and one cycle a day a year can come to 1.75 times its budget, with
  `--interval 15m` to 168 times.

`ClassifierProofs` holds for any closes, volumes and logarithms and windows of
any length, under `ClassifierAssumption`. The invariant is that the verdict is
the one on the candles there are; everything else is said of `Verdict` on any
candles. The two loops over `AllRegimes` are unrolled to their four rounds
(`BestUnrolled`, `SecondUnrolled`), and shown to find the first of the best and the best of the
others, which is `LeadIsTrue`. `OppositeNeverWins` and `NoCompromiseWins` are
finite case analyses over the tables that the four functions can return
(`Tables`). For `AnyUnitIsFree`, the sums of scaled volumes are the scaled sums,
and each threshold compares sums of one degree; the run checks one unit
(`UnitIsFree`), the theorem has all.

### Sums, maxima and loops

The models add up and loop with the folds of the community modules. Those are
recursive functions over finite sets, and the induction theorems of the library
cannot be instantiated here. `FoldTheorems` takes the other way: the sets for
which a lemma is false would contain one that contains no other
(`SmallestSubset`, from the well-foundedness of strict inclusion on the
subsets of a finite set), and that one is refuted. In this way the recursion is
shown to define a function (`FoldsExist`, `FoldsUnique`), the elements of a sum
to come in any order (`AddsAnyFirst`), and so `SumTakeOut`: a sum is any one of its elements
and the sum of the others. From it follow linear bounds (`SumLinear`,
and `SumScaled`, `SumMonotone`, `SumAtMost`, `SumAtLeast` as instances),
supports and changes (`SumOfSupport`, `SumChanged`). `MaxOfFinite` and
`FoldFromTheLast` do the same for maxima and for loops over a sequence, and `PositionsInTurn` is
induction over its positions.

### Only model-checked

- Liveness: the parts of `ImplementsPlacement` and `ImplementsLedger` that say
  that something ends, `StopsWhenInterrupted` and `OnlyProviderBlocks`, which need
  `ENABLED`. Their safety parts are the two `Refinement` theorems.
- What `SelectSeq` makes of a raw reply (above).
- The findings: a violation is a behaviour that TLC shows.

## Not modelled

`CalculateRealizedVol` (its value is any of a set); the list queries of the
store and the commands `history` and `regimes` around them, and `regime`, which
prints a classification (they read and print); `UpdateOrderStatus` (no caller);
`CancelOrder` and `RecentFills` of the mock (tests only); `GetVWAP` (no caller, a copy of
`CalculateVWAP`); `GetLiquidity` beyond the reading it gives, quotes and their
prices (nothing uses the prices); YAML syntax; signing; the mock market provider
(test data); the empty stubs for Hyperliquid and 1inch; logging and formatting.
The units of depths and of executed amounts are real hazards without a
property: each conversion is one line, and a property of it would restate that
line. `FilledFitsBudget` and `FillsAddUp` are about the division and the two
accounts of one order, in base units throughout.

## Plan

Done, in this order: `Placement` and `Execute` with proofs, `Routing`, `Engine`
over `Placement`, `Stats`, `Classifier`, `Strategy`; then `Ledger` and `plan`
in `Engine`, with proofs, `Config` and `MarketData` under `Strategy`, negative
overrides, `CowClient` with proofs; then `FoldTheorems` and the proofs of
`Routing`, `Stats`, `Strategy`, `Classifier` and of the amounts of `CowClient`.
What remains possible:

1. `Decided` and the cap of `Routing` joined: that what a cycle spends, as
   `Strategy` has it, is what `Routing` divides. The two share no variable yet.
2. An instance of `Engine` with the scenarios combined, outside the time of a
   regular run.
3. `CalculateRealizedVol` over a table of logarithms, as `Classifier` does.
