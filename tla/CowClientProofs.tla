---------------------------- MODULE CowClientProofs ----------------------------
(***************************************************************************)
(* Proofs about CowClient, for any orders, amounts, validity and moments:  *)
(* the types, what the caller may rely on after a final report or a        *)
(* cancellation, that polling misses nothing, that reports fit the budget  *)
(* and that the trades add up to them.                                     *)
(***************************************************************************)
EXTENDS CowClient, FoldTheorems

(* A final report says what the order book will say for ever.              *)
ReportsAreTrue ==
    \A o \in Order :
        /\ report[o].status = "filled" => book[o] = "fulfilled"
        /\ report[o].status = "cancelled" => book[o] \in {"cancelled", "expired"}
        /\ report[o].status \in Final => report[o].filled = executed[o]

(* A nil from CancelOrder means that the order is cancelled.               *)
EndedIsCancelled == \A o \in ended : book[o] = "cancelled"

FreshIsUnexecuted == \A o \in Order : book[o] = "none" => executed[o] = 0

(* Nothing that is polled or traded lies ahead.                            *)
NothingIsAhead ==
    /\ since <= now
    /\ \A i \in DOMAIN trades : trades[i].date <= now

(* Every order is one over the same part of the budget, executed in full   *)
(* when it is fulfilled; a report can lag behind but not run ahead.        *)
SellsTheAmount ==
    \A o \in Order : sell[o] = IF book[o] = "none" THEN 0 ELSE SellAmount

FulfilledIsWhole == \A o \in Order : book[o] = "fulfilled" => executed[o] = sell[o]

ReportsLag == \A o \in Order : report[o].filled <= executed[o]

TradesOf(o) == {i \in DOMAIN trades : trades[i].order = o}

Amounts == [i \in DOMAIN trades |-> trades[i].amount]

(* What is executed of an order is what its trades come to.                *)
TradesMakeExecuted ==
    \A o \in Order : SumFunctionOnSet(Amounts, TradesOf(o)) = executed[o]

IInv ==
    /\ TypeOK
    /\ ReportsAreTrue
    /\ EndedIsCancelled
    /\ FreshIsUnexecuted
    /\ NothingIsAhead
    /\ PollMissesNothing
    /\ SellsTheAmount
    /\ FulfilledIsWhole
    /\ ReportsLag
    /\ TradesMakeExecuted

-----------------------------------------------------------------------------
(* The amount of a sub-order is a number of base units, and all together   *)
(* lose less than a base unit each.                                        *)
LEMMA SellAmountIsNat ==
    ASSUME CowAssumption, TypeOK
    PROVE  /\ Cardinality(Order) \in Nat \ {0} /\ budget * Unit \in Nat
           /\ SellAmount \in Nat
           /\ Cardinality(Order) * SellAmount <= budget * Unit
           /\ budget * Unit < Cardinality(Order) * SellAmount + Cardinality(Order)
<1>1. Cardinality(Order) \in Nat /\ Cardinality(Order) # 0
  BY FS_CardinalityType, FS_EmptySet DEF CowAssumption
<1>2. budget \in Nat /\ Unit \in Nat
  BY DEF CowAssumption, TypeOK
<1>3. budget * Unit \in Nat
  BY <1>2
<1> DEFINE total == budget * Unit
           n == Cardinality(Order)
<1>4. total \in Nat /\ n \in Nat \ {0}
  BY <1>1, <1>3
<1> HIDE DEF total, n
<1>5. /\ total \div n \in Nat
      /\ n * (total \div n) <= total /\ total < n * (total \div n) + n
  BY <1>4
<1> QED
  BY <1>4, <1>5 DEF total, n, SellAmount

(* A trade that is appended leaves the earlier ones where they were.       *)
LEMMA TradesAppended ==
    ASSUME NEW S, NEW seq \in Seq(S), NEW e \in S
    PROVE  /\ Append(seq, e) \in Seq(S)
           /\ DOMAIN Append(seq, e) = DOMAIN seq \cup {Len(seq) + 1}
           /\ Append(seq, e)[Len(seq) + 1] = e
           /\ \A i \in DOMAIN seq : Append(seq, e)[i] = seq[i]
  OBVIOUS

(* A trade has the date of a moment.                                       *)
LEMMA DateOf ==
    ASSUME TypeOK, NEW i \in DOMAIN trades
    PROVE  trades[i].date \in Time
<1>1. trades \in Seq(Trade)
  BY DEF TypeOK
<1>2. trades[i] \in Trade
  BY <1>1
<1> QED
  BY <1>2 DEF Trade

(* What the caller knows is what OrderStatus has told it.                  *)
LEMMA ReportOf ==
    ASSUME TypeOK, NEW o \in Order, OrderStatus(o)
    PROVE  \E word \in Words(o) :
               /\ report' = [report EXCEPT ![o] =
                     [status |-> MapCowStatus(word), filled |-> executed[o]]]
               /\ MapCowStatus(word) \in Status
               /\ MapCowStatus(word) = "filled" <=> word = "fulfilled"
               /\ MapCowStatus(word) = "cancelled" <=> word \in {"cancelled", "expired"}
<1>1. PICK word \in Words(o) :
        report' = [report EXCEPT ![o] =
            [status |-> MapCowStatus(word), filled |-> executed[o]]]
  BY DEF OrderStatus
<1>2. word \in {"none", "open", "fulfilled", "cancelled", "expired", "partiallyFilled",
                "presignaturePending"}
  BY DEF Words, TypeOK
<1>3. /\ MapCowStatus(word) \in Status
      /\ MapCowStatus(word) = "filled" <=> word = "fulfilled"
      /\ MapCowStatus(word) = "cancelled" <=> word \in {"cancelled", "expired"}
  BY <1>2 DEF MapCowStatus, Status
<1> QED
  BY <1>1, <1>3

(* The words the order book has for an order that is no longer open.       *)
LEMMA WordsOfClosed ==
    ASSUME TypeOK, NEW o \in Order, NEW word \in Words(o)
    PROVE  /\ book[o] # "open" => word = book[o]
           /\ book[o] = "open" => word \in {"open", "partiallyFilled", "presignaturePending"}
<1>1. CASE book[o] # "open"
  BY <1>1 DEF Words
<1>2. CASE book[o] = "open" /\ executed[o] > 0
  BY <1>2 DEF Words
<1>3. CASE book[o] = "open" /\ ~(executed[o] > 0)
  BY <1>3 DEF Words
<1> QED
  BY <1>1, <1>2, <1>3

(* What an order that settles comes to.                                    *)
LEMMA SettledBy ==
    ASSUME TypeOK, NEW o \in Order, Settle(o)
    PROVE  \E amount \in Nat \ {0}, trade \in Trade :
               /\ executed' = [executed EXCEPT ![o] = @ + amount]
               /\ executed[o] + amount <= sell[o]
               /\ book' \in {[book EXCEPT ![o] = "fulfilled"], [book EXCEPT ![o] = "open"]}
               /\ book'[o] = "fulfilled" => executed[o] + amount = sell[o]
               /\ trade.date = now /\ trade.order = o /\ trade.amount = amount
               /\ trades' = Append(trades, trade)
<1>1. PICK amount \in 1 .. (sell[o] - executed[o]), readable \in BOOLEAN :
        /\ executed' = [executed EXCEPT ![o] = @ + amount]
        /\ book' = [book EXCEPT ![o] =
                       IF executed[o] + amount = sell[o] THEN "fulfilled" ELSE "open"]
        /\ trades' = Append(trades, [order |-> o, amount |-> amount, date |-> now,
                                     readable |-> readable])
  BY DEF Settle
<1>2. executed[o] \in Nat /\ sell[o] \in Nat
  BY DEF TypeOK
<1>3. amount \in Nat \ {0} /\ executed[o] + amount <= sell[o]
  BY <1>2
<1>4. [order |-> o, amount |-> amount, date |-> now, readable |-> readable] \in Trade
  BY <1>3 DEF Trade, TypeOK
<1>5. book'[o] = "fulfilled" => executed[o] + amount = sell[o]
  BY <1>1 DEF TypeOK
<1> QED
  BY <1>1, <1>3, <1>4, <1>5

(* Every step keeps the types.                                             *)
LEMMA TypeStep ==
    ASSUME CowAssumption, IInv, [Next]_vars
    PROVE  TypeOK'
<1>0. TypeOK /\ FreshIsUnexecuted
  BY DEF IInv
<1> USE <1>0
<1>1. CASE UNCHANGED vars
  BY <1>1 DEF vars, venue, asked, TypeOK
<1>2. CASE Pass
  BY <1>2 DEF Pass, venue, asked, TypeOK
<1>3. CASE RecentFills
  <2> DEFINE got == {i \in DOMAIN trades : Since(i)}
  <2>1. got \subseteq DOMAIN trades /\ seen' = seen \cup got
    BY <1>3 DEF RecentFills
  <2>2. \A i \in DOMAIN trades : trades[i].date \in Time
    BY DateOf
  <2>3. since' \in Time
    BY <1>3, <2>2 DEF RecentFills, TypeOK
  <2> QED
    BY <1>3, <2>1, <2>3 DEF RecentFills, venue, TypeOK
<1>4. ASSUME NEW o \in Order, SubmitOrder(o) PROVE TypeOK'
  <2>1. now + Validity \in Nat
    BY DEF CowAssumption, TypeOK
  <2>2. SellAmount \in Nat
    BY SellAmountIsNat
  <2>3. executed[o] = 0
    BY <1>4 DEF SubmitOrder, FreshIsUnexecuted
  <2>4. \A p \in Order : executed'[p] <= sell'[p]
    BY <1>4, <2>2, <2>3 DEF SubmitOrder, TypeOK
  <2> QED
    BY <1>4, <2>1, <2>2, <2>4 DEF SubmitOrder, TypeOK
<1>5. ASSUME NEW o \in Order, OrderStatus(o) PROVE TypeOK'
  <2>1. PICK word \in Words(o) :
          /\ report' = [report EXCEPT ![o] =
                [status |-> MapCowStatus(word), filled |-> executed[o]]]
          /\ MapCowStatus(word) \in Status
    BY <1>5, ReportOf
  <2>2. [status |-> MapCowStatus(word), filled |-> executed[o]]
            \in [status : Status, filled : Nat]
    BY <2>1 DEF TypeOK
  <2>3. report' \in [Order -> {Unknown} \cup [status : Status, filled : Nat]]
    BY <2>1, <2>2 DEF TypeOK
  <2> QED
    BY <1>5, <2>3 DEF OrderStatus, venue, TypeOK
<1>6. ASSUME NEW o \in Order, CancelOrder(o) PROVE TypeOK'
  BY <1>6 DEF CancelOrder, TypeOK
<1>7. ASSUME NEW o \in Order, Settle(o) PROVE TypeOK'
  <2>1. PICK amount \in Nat \ {0}, trade \in Trade :
          /\ executed' = [executed EXCEPT ![o] = @ + amount]
          /\ executed[o] + amount <= sell[o]
          /\ book' \in {[book EXCEPT ![o] = "fulfilled"], [book EXCEPT ![o] = "open"]}
          /\ trades' = Append(trades, trade)
    BY <1>7, SettledBy
  <2>2. executed' \in [Order -> Nat] /\ \A p \in Order : executed'[p] <= sell[p]
    BY <2>1 DEF TypeOK
  <2>3. trades \in Seq(Trade)
    BY DEF TypeOK
  <2>4. trades' \in Seq(Trade) /\ DOMAIN trades \subseteq DOMAIN trades'
    BY <2>1, <2>3, TradesAppended
  <2>5. book' \in [Order -> {"none", "open", "fulfilled", "cancelled", "expired"}]
    BY <2>1 DEF TypeOK
  <2>6. UNCHANGED <<now, budget, sell, validTo, asked>>
    BY <1>7 DEF Settle
  <2> QED
    BY <2>2, <2>4, <2>5, <2>6 DEF asked, TypeOK
<1>8. ASSUME NEW o \in Order, Expire(o) PROVE TypeOK'
  BY <1>8 DEF Expire, asked, TypeOK
<1> QED
  BY <1>1, <1>2, <1>3, <1>4, <1>5, <1>6, <1>7, <1>8 DEF Next

-----------------------------------------------------------------------------
(* A step changes nothing of an order that a final report or a nil from    *)
(* CancelOrder speaks of: neither in the book nor in the report.           *)
Closed(o) == book[o] \in {"fulfilled", "cancelled", "expired"}

LEMMA ClosedStays ==
    ASSUME IInv, [Next]_vars, NEW o \in Order, Closed(o)
    PROVE  book'[o] = book[o] /\ executed'[o] = executed[o]
<1>0. TypeOK
  BY DEF IInv
<1>1. CASE UNCHANGED <<book, executed>>
  BY <1>1
<1>2. ASSUME NEW p \in Order, SubmitOrder(p) \/ CancelOrder(p) \/ Expire(p)
      PROVE  book'[o] = book[o] /\ executed'[o] = executed[o]
  BY <1>0, <1>2 DEF SubmitOrder, CancelOrder, Expire, Closed, TypeOK
<1>3. ASSUME NEW p \in Order, Settle(p)
      PROVE  book'[o] = book[o] /\ executed'[o] = executed[o]
  <2>1. o # p
    BY <1>3 DEF Settle, Closed
  <2>2. PICK amount \in Nat \ {0} :
          /\ executed' = [executed EXCEPT ![p] = @ + amount]
          /\ book' \in {[book EXCEPT ![p] = "fulfilled"], [book EXCEPT ![p] = "open"]}
    BY <1>0, <1>3, SettledBy
  <2> QED
    BY <1>0, <2>1, <2>2 DEF TypeOK
<1> QED
  BY <1>1, <1>2, <1>3 DEF Next, vars, venue, Pass, RecentFills, OrderStatus

(* What a report of an order says after a step.                            *)
LEMMA ReportStep ==
    ASSUME IInv, [Next]_vars, NEW o \in Order, report'[o] # report[o]
    PROVE  /\ book'[o] = book[o] /\ executed'[o] = executed[o]
           /\ report'[o].filled = executed[o]
           /\ report'[o].status = "filled" <=> book[o] = "fulfilled"
           /\ report'[o].status = "cancelled" <=> book[o] \in {"cancelled", "expired"}
           /\ report'[o] = [status |-> report'[o].status, filled |-> executed[o]]
<1>0. TypeOK
  BY DEF IInv
<1>1. PICK p \in Order : OrderStatus(p)
  BY DEF Next, vars, asked, Pass, RecentFills, SubmitOrder, CancelOrder, Settle, Expire
<1>2. PICK word \in Words(p) :
        /\ report' = [report EXCEPT ![p] =
              [status |-> MapCowStatus(word), filled |-> executed[p]]]
        /\ MapCowStatus(word) = "filled" <=> word = "fulfilled"
        /\ MapCowStatus(word) = "cancelled" <=> word \in {"cancelled", "expired"}
  BY <1>0, <1>1, ReportOf
<1>3. o = p
  BY <1>0, <1>2 DEF TypeOK
<1>4. report'[o] = [status |-> MapCowStatus(word), filled |-> executed[o]]
  BY <1>0, <1>2, <1>3 DEF TypeOK
<1>5. UNCHANGED <<book, executed>>
  BY <1>1 DEF OrderStatus, venue
<1>6. /\ book[o] # "open" => word = book[o]
      /\ book[o] = "open" => word \in {"open", "partiallyFilled", "presignaturePending"}
  BY <1>0, <1>2, <1>3, WordsOfClosed
<1>7. /\ word = "fulfilled" <=> book[o] = "fulfilled"
      /\ word \in {"cancelled", "expired"} <=> book[o] \in {"cancelled", "expired"}
  BY <1>6
<1> QED
  BY <1>2, <1>3, <1>4, <1>5, <1>7

(* Every step keeps final reports true.                                    *)
LEMMA ReportsStep ==
    ASSUME IInv, [Next]_vars
    PROVE  ReportsAreTrue'
<1> SUFFICES ASSUME NEW o \in Order
             PROVE  /\ report'[o].status = "filled" => book'[o] = "fulfilled"
                    /\ report'[o].status = "cancelled" =>
                          book'[o] \in {"cancelled", "expired"}
                    /\ report'[o].status \in Final => report'[o].filled = executed'[o]
  BY DEF ReportsAreTrue, Final
<1>1. CASE report'[o] = report[o]
  <2>1. CASE report[o].status \in Final
    <3>1. Closed(o)
      BY <2>1 DEF IInv, ReportsAreTrue, Final, Closed
    <3> QED
      BY <1>1, <3>1, ClosedStays DEF IInv, ReportsAreTrue
  <2>2. CASE report[o].status \notin Final
    BY <1>1, <2>2 DEF Final
  <2> QED
    BY <2>1, <2>2
<1>2. CASE report'[o] # report[o]
  BY <1>2, ReportStep
<1> QED
  BY <1>1, <1>2

(* Every step keeps what CancelOrder has said, and submits no order twice. *)
LEMMA EndedStep ==
    ASSUME IInv, [Next]_vars
    PROVE  EndedIsCancelled' /\ FreshIsUnexecuted'
<1>0. TypeOK /\ EndedIsCancelled /\ FreshIsUnexecuted
  BY DEF IInv
<1>1. CASE UNCHANGED <<book, executed, ended>>
  BY <1>0, <1>1 DEF EndedIsCancelled, FreshIsUnexecuted
<1>2. ASSUME NEW o \in Order, SubmitOrder(o) \/ CancelOrder(o) \/ Expire(o)
      PROVE  EndedIsCancelled' /\ FreshIsUnexecuted'
  BY <1>0, <1>2 DEF SubmitOrder, CancelOrder, Expire, asked, EndedIsCancelled,
      FreshIsUnexecuted, TypeOK
<1>3. ASSUME NEW o \in Order, Settle(o) PROVE EndedIsCancelled' /\ FreshIsUnexecuted'
  <2>1. PICK amount \in Nat \ {0} :
          /\ executed' = [executed EXCEPT ![o] = @ + amount]
          /\ book' \in {[book EXCEPT ![o] = "fulfilled"], [book EXCEPT ![o] = "open"]}
    BY <1>0, <1>3, SettledBy
  <2>2. book[o] = "open" /\ ended' = ended
    BY <1>3 DEF Settle, asked
  <2>3. o \notin ended /\ ended \subseteq Order
    BY <1>0, <2>2 DEF EndedIsCancelled, TypeOK
  <2>4. EndedIsCancelled'
    BY <1>0, <2>1, <2>2, <2>3 DEF EndedIsCancelled, TypeOK
  <2>5. FreshIsUnexecuted'
    BY <1>0, <2>1, <2>2 DEF FreshIsUnexecuted, TypeOK
  <2> QED
    BY <2>4, <2>5
<1> QED
  BY <1>1, <1>2, <1>3 DEF Next, vars, venue, asked, Pass, RecentFills, OrderStatus

(* Every step keeps the polling complete: a trade is never dated before    *)
(* the latest poll, as nothing polled lies ahead.                          *)
LEMMA PollStep ==
    ASSUME CowAssumption, IInv, [Next]_vars
    PROVE  NothingIsAhead' /\ PollMissesNothing'
<1>0. TypeOK /\ NothingIsAhead /\ PollMissesNothing
  BY DEF IInv
<1>1. now \in Nat /\ since \in Nat /\ trades \in Seq(Trade)
  BY <1>0 DEF TypeOK, CowAssumption
<1>2. \A i \in DOMAIN trades : trades[i].date \in Nat
  BY <1>0, DateOf DEF CowAssumption
<1>3. CASE UNCHANGED <<now, trades, since, seen>>
  BY <1>0, <1>3 DEF NothingIsAhead, PollMissesNothing
<1>4. CASE Pass
  BY <1>0, <1>1, <1>2, <1>4 DEF Pass, venue, asked, NothingIsAhead, PollMissesNothing
<1>5. CASE RecentFills
  <2> DEFINE got == {i \in DOMAIN trades : Since(i)}
             dates == {trades[i].date : i \in got} \cup {since}
  <2>1. /\ seen' = seen \cup got /\ since' \in dates /\ \A d \in dates : d <= since'
        /\ UNCHANGED <<now, trades>>
    BY <1>5 DEF RecentFills, venue
  <2>2. since' <= now
    BY <1>0, <2>1 DEF NothingIsAhead
  <2>3. ASSUME NEW i \in DOMAIN trades, trades[i].readable, trades[i].date < since'
        PROVE  i \in seen'
    <3>1. CASE trades[i].date < since
      BY <1>0, <2>1, <2>3, <3>1 DEF PollMissesNothing
    <3>2. CASE trades[i].date >= since
      BY <2>1, <2>3, <3>2 DEF Since
    <3> QED
      BY <1>1, <1>2, <3>1, <3>2
  <2> QED
    BY <1>0, <2>1, <2>2, <2>3 DEF NothingIsAhead, PollMissesNothing
<1>6. ASSUME NEW o \in Order, Settle(o) PROVE NothingIsAhead' /\ PollMissesNothing'
  <2>1. PICK trade \in Trade : trade.date = now /\ trades' = Append(trades, trade)
    BY <1>0, <1>6, SettledBy
  <2>2. UNCHANGED <<now, since, seen>>
    BY <1>6 DEF Settle, asked
  <2>3. /\ DOMAIN trades' = DOMAIN trades \cup {Len(trades) + 1}
        /\ trades'[Len(trades) + 1] = trade
        /\ \A i \in DOMAIN trades : trades'[i] = trades[i]
    BY <1>1, <2>1, TradesAppended
  <2>4. NothingIsAhead'
    BY <1>0, <1>1, <2>1, <2>2, <2>3 DEF NothingIsAhead
  <2>5. ~(now < since)
    BY <1>0, <1>1 DEF NothingIsAhead
  <2>6. PollMissesNothing'
    BY <1>0, <2>1, <2>2, <2>3, <2>5 DEF PollMissesNothing
  <2> QED
    BY <2>4, <2>6
<1> QED
  BY <1>3, <1>4, <1>5, <1>6
  DEF Next, vars, venue, asked, SubmitOrder, OrderStatus, CancelOrder, Expire

-----------------------------------------------------------------------------
(* Every step keeps what is known of the amounts.                          *)
LEMMA AmountsStep ==
    ASSUME CowAssumption, IInv, [Next]_vars
    PROVE  SellsTheAmount' /\ FulfilledIsWhole' /\ ReportsLag'
<1>0. TypeOK /\ SellsTheAmount /\ FulfilledIsWhole /\ ReportsLag
  BY DEF IInv
<1> USE <1>0
<1>1. SellAmount \in Nat /\ SellAmount' = SellAmount
  <2>1. UNCHANGED budget
    BY DEF Next, vars, venue, asked, Pass, RecentFills, SubmitOrder, OrderStatus,
       CancelOrder, Settle, Expire
  <2> QED
    BY <2>1, SellAmountIsNat DEF SellAmount
<1>2. \A o \in Order : report[o].filled \in Nat
  BY DEF TypeOK, Unknown
<1>3. CASE UNCHANGED <<book, sell, executed, report>>
  BY <1>1, <1>3 DEF SellsTheAmount, FulfilledIsWhole, ReportsLag
<1>4. ASSUME NEW o \in Order, SubmitOrder(o)
      PROVE  SellsTheAmount' /\ FulfilledIsWhole' /\ ReportsLag'
  <2> HIDE DEF SellAmount
  <2> QED
    BY <1>1, <1>4 DEF SubmitOrder, TypeOK, SellsTheAmount, FulfilledIsWhole, ReportsLag
<1>5. ASSUME NEW o \in Order, OrderStatus(o)
      PROVE  SellsTheAmount' /\ FulfilledIsWhole' /\ ReportsLag'
  <2>1. UNCHANGED <<book, sell, executed>>
    BY <1>5 DEF OrderStatus, venue
  <2>2. \A p \in Order : report'[p] = report[p] \/ report'[p].filled = executed[p]
    BY ReportStep
  <2>3. \A p \in Order : executed[p] \in Nat
    BY DEF TypeOK
  <2> QED
    BY <1>1, <2>1, <2>2, <2>3 DEF SellsTheAmount, FulfilledIsWhole, ReportsLag
<1>6. ASSUME NEW o \in Order, CancelOrder(o) \/ Expire(o)
      PROVE  SellsTheAmount' /\ FulfilledIsWhole' /\ ReportsLag'
  BY <1>1, <1>6 DEF CancelOrder, Expire, asked, TypeOK, SellsTheAmount, FulfilledIsWhole,
     ReportsLag
<1>7. ASSUME NEW o \in Order, Settle(o)
      PROVE  SellsTheAmount' /\ FulfilledIsWhole' /\ ReportsLag'
  <2>1. PICK amount \in Nat \ {0} :
          /\ executed' = [executed EXCEPT ![o] = @ + amount]
          /\ book' \in {[book EXCEPT ![o] = "fulfilled"], [book EXCEPT ![o] = "open"]}
          /\ book'[o] = "fulfilled" => executed[o] + amount = sell[o]
    BY <1>7, SettledBy
  <2>2. book[o] = "open" /\ UNCHANGED <<sell, report>>
    BY <1>7 DEF Settle, asked
  <2>3. SellsTheAmount'
    BY <1>1, <2>1, <2>2 DEF TypeOK, SellsTheAmount
  <2>4. FulfilledIsWhole'
    BY <2>1, <2>2 DEF TypeOK, FulfilledIsWhole
  <2>5. ReportsLag'
    BY <1>2, <2>1, <2>2 DEF TypeOK, ReportsLag
  <2> QED
    BY <2>3, <2>4, <2>5
<1> QED
  BY <1>3, <1>4, <1>5, <1>6, <1>7 DEF Next, vars, venue, asked, Pass, RecentFills

(* The trades are finitely many, of positive amounts.                      *)
LEMMA TradesFinite ==
    ASSUME TypeOK
    PROVE  /\ IsFiniteSet(DOMAIN trades)
           /\ \A o : TradesOf(o) \subseteq DOMAIN trades /\ IsFiniteSet(TradesOf(o))
           /\ \A i \in DOMAIN trades : Amounts[i] = trades[i].amount /\ Amounts[i] \in Nat
<1>1. trades \in Seq(Trade)
  BY DEF TypeOK
<1>2. DOMAIN trades = 1 .. Len(trades) /\ Len(trades) \in Nat
  BY <1>1
<1>3. IsFiniteSet(DOMAIN trades)
  BY <1>2, FS_Interval
<1>4. \A i \in DOMAIN trades : trades[i].amount \in Nat
  <2>1. \A i \in DOMAIN trades : trades[i] \in Trade
    BY <1>1
  <2> QED
    BY <2>1 DEF Trade
<1> QED
  BY <1>3, <1>4, FS_Subset DEF TradesOf, Amounts

(* Every step keeps the trades and the executed amounts in line.           *)
LEMMA TradesStep ==
    ASSUME CowAssumption, IInv, [Next]_vars
    PROVE  TradesMakeExecuted'
<1>0. TypeOK /\ TradesMakeExecuted
  BY DEF IInv
<1>1. CASE UNCHANGED <<trades, executed>>
  <2>1. Amounts' = Amounts /\ \A o : TradesOf(o)' = TradesOf(o)
    BY <1>1 DEF Amounts, TradesOf
  <2> QED
    BY <1>0, <1>1, <2>1 DEF TradesMakeExecuted
<1>2. ASSUME NEW o \in Order, Settle(o) PROVE TradesMakeExecuted'
  <2>1. PICK amount \in Nat \ {0}, trade \in Trade :
          /\ executed' = [executed EXCEPT ![o] = @ + amount]
          /\ trade.order = o /\ trade.amount = amount
          /\ trades' = Append(trades, trade)
    BY <1>0, <1>2, SettledBy
  <2> DEFINE n == Len(trades) + 1
  <2>2. trades \in Seq(Trade)
    BY <1>0 DEF TypeOK
  <2>3. /\ DOMAIN trades' = DOMAIN trades \cup {n} /\ n \notin DOMAIN trades
        /\ trades'[n] = trade
        /\ \A i \in DOMAIN trades : trades'[i] = trades[i]
    BY <2>1, <2>2, TradesAppended
  <2> HIDE DEF n
  <2>4. ASSUME NEW p \in Order
        PROVE  SumFunctionOnSet(Amounts, TradesOf(p)) = SumFunctionOnSet(Amounts', TradesOf(p))
    <3>1. \A i \in TradesOf(p) : Amounts[i] \in Int /\ Amounts'[i] = Amounts[i]
      BY <1>0, <2>3, TradesFinite DEF Amounts, TradesOf
    <3> QED
      BY <1>0, <3>1, TradesFinite, SumSame
  <2>5. ASSUME NEW p \in Order, p # o PROVE TradesOf(p)' = TradesOf(p)
    BY <2>1, <2>3, <2>5 DEF TradesOf
  <2>6. /\ TradesOf(o)' = TradesOf(o) \cup {n} /\ n \notin TradesOf(o)
        /\ Amounts'[n] = amount
    BY <2>1, <2>3 DEF TradesOf, Amounts
  <2>7. SumFunctionOnSet(Amounts', TradesOf(o)')
          = amount + SumFunctionOnSet(Amounts', TradesOf(o))
    <3>1. IsFiniteSet(TradesOf(o)') /\ \A i \in TradesOf(o)' : Amounts'[i] \in Int
      <4>1. IsFiniteSet(TradesOf(o) \cup {n})
        BY <1>0, TradesFinite, FS_AddElement
      <4>2. \A i \in TradesOf(o) : Amounts'[i] \in Int
        BY <1>0, <2>3, TradesFinite DEF Amounts, TradesOf
      <4> QED
        BY <2>6, <4>1, <4>2
    <3>2. n \in TradesOf(o)' /\ TradesOf(o)' \ {n} = TradesOf(o)
      BY <2>6
    <3> QED
      BY <2>6, <3>1, <3>2, SumTakeOut
  <2>8. ASSUME NEW p \in Order
        PROVE  SumFunctionOnSet(Amounts', TradesOf(p)') = executed'[p]
    <3>1. executed \in [Order -> Nat] /\ SumFunctionOnSet(Amounts, TradesOf(p)) = executed[p]
      BY <1>0 DEF TypeOK, TradesMakeExecuted
    <3>2. CASE p = o
      BY <2>1, <2>4, <2>7, <3>1, <3>2
    <3>3. CASE p # o
      BY <2>1, <2>4, <2>5, <3>1, <3>3
    <3> QED
      BY <3>2, <3>3
  <2> QED
    BY <2>8 DEF TradesMakeExecuted
<1> QED
  BY <1>1, <1>2 DEF Next, vars, venue, asked, Pass, RecentFills, SubmitOrder, OrderStatus,
     CancelOrder, Expire

-----------------------------------------------------------------------------
(* The invariant holds throughout.                                         *)
THEOREM Invariance == Spec => []IInv
<1>1. Init => IInv
  <2> SUFFICES ASSUME Init PROVE IInv
    OBVIOUS
  <2>1. /\ TypeOK /\ ReportsAreTrue /\ EndedIsCancelled /\ FreshIsUnexecuted
        /\ NothingIsAhead /\ PollMissesNothing
    BY CowAssumption DEF Init, TypeOK, ReportsAreTrue, EndedIsCancelled, FreshIsUnexecuted,
       NothingIsAhead, PollMissesNothing, CowAssumption, Unknown, Final
  <2>2. SellsTheAmount /\ FulfilledIsWhole /\ ReportsLag
    BY DEF Init, SellsTheAmount, FulfilledIsWhole, ReportsLag, Unknown
  <2>3. TradesMakeExecuted
    <3>1. \A o : TradesOf(o) = {}
      BY DEF Init, TradesOf
    <3> QED
      BY <3>1, SumOfNone DEF Init, TradesMakeExecuted
  <2> QED
    BY <2>1, <2>2, <2>3 DEF IInv
<1>2. IInv /\ [Next]_vars => IInv'
  BY CowAssumption, TypeStep, ReportsStep, EndedStep, PollStep, AmountsStep, TradesStep DEF IInv
<1> QED
  BY <1>1, <1>2, PTL DEF Spec

(* Every variable keeps to its type; no order executes more than it sells. *)
THEOREM TypeCorrect == Spec => []TypeOK
<1>1. IInv => TypeOK
  BY DEF IInv
<1> QED
  BY <1>1, Invariance, PTL

(* Polling RecentFills from the latest fill misses no readable trade.      *)
THEOREM PollingIsComplete == Spec => []PollMissesNothing
<1>1. IInv => PollMissesNothing
  BY DEF IInv
<1> QED
  BY <1>1, Invariance, PTL

(* What OrderStatus has reported as filled or cancelled it never takes     *)
(* back.                                                                   *)
THEOREM FinalReports == Spec => ReportsAreFinal
<1>1. IInv /\ [Next]_vars =>
        [\A o \in Order : report[o].status \in Final => report'[o] = report[o]]_vars
  <2> SUFFICES ASSUME IInv, [Next]_vars, NEW o \in Order, report[o].status \in Final,
                      report'[o] # report[o]
               PROVE  FALSE
    OBVIOUS
  <2>1. /\ report'[o].status = "filled" <=> book[o] = "fulfilled"
        /\ report'[o].status = "cancelled" <=> book[o] \in {"cancelled", "expired"}
        /\ report'[o] = [status |-> report'[o].status, filled |-> executed[o]]
    BY ReportStep
  <2>2. /\ report[o].status = "filled" => book[o] = "fulfilled"
        /\ report[o].status = "cancelled" => book[o] \in {"cancelled", "expired"}
        /\ report[o].filled = executed[o]
    BY DEF IInv, ReportsAreTrue
  <2>3. report[o].status = report'[o].status
    BY <2>1, <2>2 DEF Final
  <2>4. report[o] \in [status : Status, filled : Nat]
    BY DEF IInv, TypeOK, Unknown, Final
  <2>5. report[o] = [status |-> report[o].status, filled |-> report[o].filled]
    BY <2>4
  <2> QED
    BY <2>1, <2>2, <2>3, <2>5
<1> QED
  BY <1>1, Invariance, PTL DEF Spec, ReportsAreFinal

(* After a nil from CancelOrder the order is over, however late it came.   *)
THEOREM CancelledIsOver == Spec => CancelIsHeeded
<1>1. IInv /\ [Next]_vars =>
        [\A o \in ended :
            /\ executed'[o] = executed[o]
            /\ report'[o] # report[o] => report'[o].status = "cancelled"]_vars
  <2> SUFFICES ASSUME IInv, [Next]_vars, NEW o \in ended
               PROVE  /\ executed'[o] = executed[o]
                      /\ report'[o] # report[o] => report'[o].status = "cancelled"
    OBVIOUS
  <2>1. o \in Order /\ book[o] = "cancelled"
    BY DEF IInv, TypeOK, EndedIsCancelled
  <2> QED
    BY <2>1, ClosedStays, ReportStep DEF Closed
<1> QED
  BY <1>1, Invariance, PTL DEF Spec, CancelIsHeeded

(* All reports together stay within the budget, and when all orders are    *)
(* reported as filled, less than a base unit each is missing.              *)
THEOREM ReportsFitBudget == Spec => []FilledFitsBudget
<1>1. IInv => FilledFitsBudget
  <2> SUFFICES ASSUME IInv PROVE FilledFitsBudget
    OBVIOUS
  <2> DEFINE filled == [o \in Order |-> report[o].filled]
             total == SumFunctionOnSet(filled, Order)
             n == Cardinality(Order)
             all == budget * Unit
             q == SellAmount
  <2>1. /\ TypeOK /\ ReportsAreTrue /\ SellsTheAmount /\ FulfilledIsWhole /\ ReportsLag
        /\ IsFiniteSet(Order)
    BY CowAssumption DEF IInv, CowAssumption
  <2>2. n \in Nat \ {0} /\ all \in Nat /\ q \in Nat /\ n * q <= all /\ all < n * q + n
    BY <2>1, CowAssumption, SellAmountIsNat
  <2>3. \A o \in Order : filled[o] = report[o].filled /\ filled[o] \in Nat
    BY <2>1 DEF TypeOK, Unknown
  <2>4. total \in Nat
    BY <2>1, <2>3, SumOfNaturals
  <2>5. SumFunction(filled) = total
    BY DEF SumFunction
  <2> HIDE DEF q, all, n
  <2>6. \A o \in Order : filled[o] <= q
    <3> SUFFICES ASSUME NEW o \in Order PROVE filled[o] <= q
      OBVIOUS
    <3>1. executed[o] \in Nat /\ sell[o] \in Nat /\ executed[o] <= sell[o]
      BY <2>1 DEF TypeOK
    <3>2. sell[o] = 0 \/ sell[o] = q
      BY <2>1 DEF SellsTheAmount, q
    <3>3. filled[o] \in Nat /\ filled[o] <= executed[o]
      BY <2>1, <2>3 DEF ReportsLag
    <3> QED
      BY <2>2, <3>1, <3>2, <3>3
  <2> HIDE DEF filled
  <2>7. total <= n * q
    <3>1. q \in Int /\ \A o \in Order : filled[o] \in Int /\ filled[o] <= q
      BY <2>2, <2>3, <2>6
    <3> QED
      BY <2>1, <3>1, SumAtMost DEF n
  <2>8. ASSUME \A o \in Order : report[o].status = "filled"
        PROVE  total + n > all
    <3>1. \A o \in Order : filled[o] = q
      BY <2>1, <2>3, <2>8 DEF ReportsAreTrue, Final, FulfilledIsWhole, SellsTheAmount, q
    <3>2. total >= n * q
      <4>1. q \in Int /\ \A o \in Order : filled[o] \in Int /\ filled[o] >= q
        BY <2>2, <3>1
      <4> QED
        BY <2>1, <4>1, SumAtLeast DEF n
    <3> QED
      BY <2>2, <2>4, <3>2
  <2>9. total <= all
    BY <2>2, <2>4, <2>7
  <2> QED
    BY <2>5, <2>8, <2>9 DEF FilledFitsBudget, filled, n, all
<1> QED
  BY <1>1, Invariance, PTL

(* What OrderStatus reports in the end and what RecentFills yields agree.  *)
THEOREM FillsAgree == Spec => []FillsAddUp
<1>1. IInv => FillsAddUp
  <2> SUFFICES ASSUME IInv, NEW o \in Order, report[o].status \in Final,
                      \A i \in DOMAIN trades : trades[i].order = o => i \in seen
               PROVE  SumFunction([i \in SeenOf(o) |-> trades[i].amount]) = report[o].filled
    BY DEF FillsAddUp
  <2>1. TypeOK /\ ReportsAreTrue /\ TradesMakeExecuted
    BY DEF IInv
  <2> DEFINE got == [i \in SeenOf(o) |-> trades[i].amount]
  <2>2. SeenOf(o) = TradesOf(o)
    BY <2>1 DEF SeenOf, TradesOf, TypeOK
  <2>3. SumFunction(got) = SumFunctionOnSet(got, TradesOf(o))
    BY <2>2 DEF SumFunction
  <2>4. \A i \in TradesOf(o) : Amounts[i] \in Int /\ got[i] = Amounts[i]
    BY <2>1, <2>2, TradesFinite
  <2> HIDE DEF got
  <2>5. SumFunctionOnSet(Amounts, TradesOf(o)) = SumFunctionOnSet(got, TradesOf(o))
    BY <2>1, <2>4, TradesFinite, SumSame
  <2>6. SumFunctionOnSet(Amounts, TradesOf(o)) = executed[o]
    BY <2>1 DEF TradesMakeExecuted
  <2>7. report[o].filled = executed[o]
    BY <2>1 DEF ReportsAreTrue
  <2> QED
    BY <2>3, <2>5, <2>6, <2>7 DEF got
<1> QED
  BY <1>1, Invariance, PTL
=============================================================================
