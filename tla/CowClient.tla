------------------------------- MODULE CowClient -------------------------------
(***************************************************************************)
(* The CoW client (internal/exchange/cow/client.go) over the life of the   *)
(* orders of one allocation: SubmitOrder, OrderStatus, CancelOrder and     *)
(* RecentFills against an order book that executes, expires and cancels    *)
(* on its own.  Execute has the concurrency of the submissions; here the   *)
(* question is what the caller of the client can make of its answers.      *)
(*                                                                         *)
(* Orders are sold in base units of the quote token, Unit to a dollar.     *)
(* Nothing in the repository calls CancelOrder and RecentFills but tests,  *)
(* so the caller is any: it polls RecentFills from the latest fill it has. *)
(***************************************************************************)
EXTENDS Integers, Sequences, FiniteSets, Functions

CONSTANTS
    Order,      \* the sub-orders of the allocation
    Budget,     \* the amounts of the allocation, in dollars
    Unit,       \* base units to a dollar: 10^6 in the code
    Validity,   \* how long an order is valid: 30 minutes
    Time        \* the moments, from 0 on

ASSUME CowAssumption ==
    /\ IsFiniteSet(Order) /\ Order # {}
    /\ Budget \subseteq Nat
    /\ Unit \in Nat \ {0}
    /\ Validity \in Nat
    /\ Time \subseteq Nat /\ 0 \in Time

VARIABLES
    now,        \* the time
    budget,     \* AmountUSD of the allocation
    book,       \* the state of each order in the order book
    sell,       \* sellAmount of each order
    validTo,    \* validTo of each order
    executed,   \* executedSellAmount of each order
    trades,     \* the trades of the signer's address
    ids,        \* the orders whose id the caller has
    report,     \* the latest OrderStatusResult of each order
    ended,      \* the orders for which CancelOrder returned nil
    since,      \* what the caller passes to RecentFills next
    seen        \* the trades it has got from RecentFills, by their positions

asked == <<ids, report, ended, since, seen>>

venue == <<book, sell, validTo, executed, trades>>

vars == <<now, budget, venue, asked>>

Trade == [order : Order, amount : Nat \ {0}, date : Time, readable : BOOLEAN]

Status == {"pending", "partial", "filled", "cancelled", "failed"}

Unknown == [status |-> "none", filled |-> 0]

TypeOK ==
    /\ now \in Time
    /\ budget \in Budget
    /\ book \in [Order -> {"none", "open", "fulfilled", "cancelled", "expired"}]
    /\ sell \in [Order -> Nat]
    /\ validTo \in [Order -> Nat]
    /\ executed \in [Order -> Nat] /\ \A o \in Order : executed[o] <= sell[o]
    /\ trades \in Seq(Trade)
    /\ ids \subseteq Order /\ ended \subseteq ids
    /\ report \in [Order -> {Unknown} \cup [status : Status, filled : Nat]]
    /\ since \in Time
    /\ seen \subseteq DOMAIN trades

Init ==
    /\ now = 0
    /\ budget \in Budget
    /\ book = [o \in Order |-> "none"]
    /\ sell = [o \in Order |-> 0]
    /\ validTo = [o \in Order |-> 0]
    /\ executed = [o \in Order |-> 0]
    /\ trades = <<>>
    /\ ids = {}
    /\ report = [o \in Order |-> Unknown]
    /\ ended = {}
    /\ since = 0
    /\ seen = {}

-----------------------------------------------------------------------------
(* Mutant of SellAmount: rounded up.                                       *)
SellAmountUp == (budget * Unit) \div Cardinality(Order) + 1

(* The router divides the amount evenly; BigInt() cuts what is left of a   *)
(* base unit off.                                                          *)
SellAmount == (budget * Unit) \div Cardinality(Order)

(* The order book may take an order and the answer be lost, so that the    *)
(* caller has an error and no id.  An order it refuses, and one that never *)
(* gets there, leave nothing behind.                                       *)
SubmitOrder(o) ==
    /\ book[o] = "none"
    /\ SellAmount > 0
    /\ book' = [book EXCEPT ![o] = "open"]
    /\ sell' = [sell EXCEPT ![o] = SellAmount]
    /\ validTo' = [validTo EXCEPT ![o] = now + Validity]
    /\ ids' \in {ids, ids \cup {o}}
    /\ UNCHANGED <<now, budget, executed, trades, report, ended, since, seen>>

(* What the order book may call the state of an order.                     *)
Words(o) ==
    IF book[o] # "open" THEN {book[o]}
    ELSE {"open", IF executed[o] > 0 THEN "partiallyFilled" ELSE "presignaturePending"}

(* Mutant of MapCowStatus: whatever is filled is filled.                   *)
MapCowStatusFilled(word) ==
    CASE word = "open" -> "pending"
      [] word \in {"fulfilled", "partiallyFilled"} -> "filled"
      [] word \in {"cancelled", "expired"} -> "cancelled"
      [] OTHER -> "failed"

(* Mutant of MapCowStatus: a word nobody has heard of is passed on.        *)
MapCowStatusOpen(word) ==
    CASE word = "open" -> "pending"
      [] word = "fulfilled" -> "filled"
      [] word = "partiallyFilled" -> "partial"
      [] word \in {"cancelled", "expired"} -> "cancelled"
      [] OTHER -> word

MapCowStatus(word) ==
    CASE word = "open" -> "pending"
      [] word = "fulfilled" -> "filled"
      [] word = "partiallyFilled" -> "partial"
      [] word \in {"cancelled", "expired"} -> "cancelled"
      [] OTHER -> "failed"

(* Mutant of OrderStatus: an order that is cancelled has filled nothing.   *)
OrderStatusWhole(o) ==
    /\ o \in ids
    /\ \E word \in Words(o) :
          report' = [report EXCEPT ![o] =
              [status |-> MapCowStatus(word),
               filled |-> IF MapCowStatus(word) = "cancelled" THEN 0 ELSE executed[o]]]
    /\ UNCHANGED <<now, budget, venue, ids, ended, since, seen>>

(* Without an answer the caller learns nothing and nothing changes.        *)
OrderStatus(o) ==
    /\ o \in ids
    /\ \E word \in Words(o) :
          report' = [report EXCEPT ![o] =
              [status |-> MapCowStatus(word), filled |-> executed[o]]]
    /\ UNCHANGED <<now, budget, venue, ids, ended, since, seen>>

(* Mutant of CancelOrder: the HTTP status is not looked at.                *)
CancelOrderAnyStatus(o) ==
    /\ o \in ids
    /\ book' = [book EXCEPT ![o] = IF @ = "open" THEN "cancelled" ELSE @]
    /\ ended' \in {ended, ended \cup {o}}
    /\ UNCHANGED <<now, budget, sell, validTo, executed, trades, ids, report, since, seen>>

(* Only an open order can be cancelled; of any other the order book        *)
(* refuses it, with a status that becomes an error and no change.  Its     *)
(* answer to a cancellation can be lost.                                   *)
CancelOrder(o) ==
    /\ o \in ids
    /\ book[o] = "open"
    /\ book' = [book EXCEPT ![o] = "cancelled"]
    /\ ended' \in {ended, ended \cup {o}}
    /\ UNCHANGED <<now, budget, sell, validTo, executed, trades, ids, report, since, seen>>

(* Mutant of Since: a trade of that very moment is taken for old.          *)
SinceAfter(i) == trades[i].readable /\ trades[i].date > since

(* A date in neither of the two formats hides the trade for good.          *)
Since(i) == trades[i].readable /\ trades[i].date >= since

(* The pair is not looked at.  The caller goes on from the latest fill.    *)
RecentFills ==
    LET got == {i \in DOMAIN trades : Since(i)}
        dates == {trades[i].date : i \in got} \cup {since}
    IN  /\ seen' = seen \cup got
        /\ since' \in {t \in dates : \A d \in dates : d <= t}
        /\ UNCHANGED <<now, budget, venue, ids, report, ended>>

-----------------------------------------------------------------------------
(* The order book executes any part of an open order.                      *)
Settle(o) ==
    /\ book[o] = "open"
    /\ now <= validTo[o]
    /\ \E amount \in 1 .. (sell[o] - executed[o]), readable \in BOOLEAN :
          /\ executed' = [executed EXCEPT ![o] = @ + amount]
          /\ book' = [book EXCEPT ![o] =
                         IF executed[o] + amount = sell[o] THEN "fulfilled" ELSE "open"]
          /\ trades' = Append(trades, [order |-> o, amount |-> amount, date |-> now,
                                       readable |-> readable])
    /\ UNCHANGED <<now, budget, sell, validTo, asked>>

Expire(o) ==
    /\ book[o] = "open"
    /\ now > validTo[o]
    /\ book' = [book EXCEPT ![o] = "expired"]
    /\ UNCHANGED <<now, budget, sell, validTo, executed, trades, asked>>

Pass ==
    /\ now + 1 \in Time
    /\ now' = now + 1
    /\ UNCHANGED <<budget, venue, asked>>

Next ==
    \/ Pass \/ RecentFills
    \/ \E o \in Order :
          SubmitOrder(o) \/ OrderStatus(o) \/ CancelOrder(o) \/ Settle(o) \/ Expire(o)

Spec == Init /\ [][Next]_vars

-----------------------------------------------------------------------------
Final == {"filled", "cancelled"}

(* The amounts reported of all sub-orders together, base units, are never  *)
(* more than the budget in dollars comes to, and when all are reported as  *)
(* filled, less than a base unit each is missing.  Three conversions have  *)
(* to agree for this: the division, the one to base units, and none in the *)
(* report.                                                                 *)
FilledFitsBudget ==
    LET total == SumFunction([o \in Order |-> report[o].filled])
    IN  /\ total <= budget * Unit
        /\ (\A o \in Order : report[o].status = "filled") =>
              total + Cardinality(Order) > budget * Unit

(* An order reported as filled or cancelled has come to its end: it will   *)
(* not be reported differently afterwards, nor with another amount, though *)
(* the order book goes on with the other orders, and with this one if its  *)
(* word for it was misread.                                                *)
ReportsAreFinal ==
    [][\A o \in Order : report[o].status \in Final => report'[o] = report[o]]_vars

(* When CancelOrder has returned nil, the caller can rely on it: the order *)
(* is not executed any further and is never reported as filled or open     *)
(* again, however late the cancellation was.                               *)
CancelIsHeeded ==
    [][\A o \in ended :
          /\ executed'[o] = executed[o]
          /\ report'[o] # report[o] => report'[o].status = "cancelled"]_vars

(* Whoever polls RecentFills from the latest fill he has got misses none   *)
(* whose date can be read, even if more trades settle at that moment after *)
(* the poll, and even of orders whose submission seemed to fail.           *)
PollMissesNothing ==
    \A i \in DOMAIN trades :
        trades[i].readable /\ trades[i].date < since => i \in seen

SeenOf(o) == {i \in seen : trades[i].order = o}

(* The two ways to learn what was bought agree: once an order has come to  *)
(* its end, and all its trades have been got, they add up to the filled    *)
(* amount that OrderStatus reports, also if the order was cancelled or     *)
(* expired halfway.                                                        *)
FillsAddUp ==
    \A o \in Order :
        /\ report[o].status \in Final
        /\ \A i \in DOMAIN trades : trades[i].order = o => i \in seen
        => SumFunction([i \in SeenOf(o) |-> trades[i].amount]) = report[o].filled
=============================================================================
