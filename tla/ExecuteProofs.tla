----------------------------- MODULE ExecuteProofs -----------------------------
(***************************************************************************)
(* Proofs about Execute, for any number of sub-orders, any exchanges and   *)
(* any answers of them: type correctness, the inductive invariant, the     *)
(* safety properties that follow from it, and that every step of the       *)
(* goroutines is a step of Placement or leaves it alone.                   *)
(***************************************************************************)
EXTENDS Execute, TLAPS

(* The program counter fixes where the order can be.                       *)
PcFixesPlace ==
    \A s \in SubOrder :
        /\ pc[s] = "new" <=> s > spawned
        /\ pc[s] \in {"new", "start", "wait", "submit"} => at[s] = "none"
        /\ pc[s] \in {"status", "append"} => Held(s)

(* Only a goroutine that is through has a fill in the slice, and the       *)
(* goroutine whose error the group keeps is through without one.           *)
FillsOfEnded ==
    /\ \A i \in DOMAIN fills : pc[fills[i].order] = "done"
    /\ err # None => pc[err.order] = "done" /\ ~HasFill(err.order)

(* A goroutine that is through has a fill, or the group has an error.      *)
EndedIsKnown ==
    \A s \in SubOrder : pc[s] = "done" => HasFill(s) \/ err # None

(* What can have cancelled the context, and what a goroutine stopped by it *)
(* can rely on.                                                            *)
CancelHasCause ==
    /\ cancelled => err # None \/ interrupted \/ ret # "none"
    /\ \A s \in SubOrder :
          pc[s] = "failing" /\ cause[s] = "cancelled" => err # None \/ interrupted

ReturnIsLast ==
    ret # "none" =>
        /\ \A s \in SubOrder : pc[s] = "done"
        /\ ret = "ok" <=> err = None

IInv ==
    /\ TypeOK
    /\ PcFixesPlace
    /\ FillsAreHeld
    /\ FillsOfEnded
    /\ EndedIsKnown
    /\ CancelHasCause
    /\ RootCause
    /\ ReturnIsLast

-----------------------------------------------------------------------------
(* Every entry of the slice is the fill of a sub-order.                    *)
LEMMA FillOrder ==
    ASSUME TypeOK, NEW i \in DOMAIN fills
    PROVE  fills[i].order \in SubOrder
<1>1. fills[i] \in Fill
  BY DEF TypeOK
<1> QED
  BY <1>1 DEF Fill

(* The slice after an append: one more entry, the others where they were.  *)
LEMMA AppendedFill ==
    ASSUME NEW s \in SubOrder, TypeOK, AppendFill(s)
    PROVE  /\ fills' \in Seq(Fill)
           /\ DOMAIN fills' = DOMAIN fills \cup {Len(fills) + 1}
           /\ Len(fills) + 1 \notin DOMAIN fills
           /\ fills'[Len(fills) + 1] = [order |-> s, amount |-> amount[s]]
           /\ \A i \in DOMAIN fills : fills'[i] = fills[i]
           /\ \A t \in SubOrder : HasFill(t)' <=> HasFill(t) \/ t = s
<1>1. [order |-> s, amount |-> amount[s]] \in Fill
  BY DEF TypeOK, Fill
<1>2. /\ fills' \in Seq(Fill)
      /\ DOMAIN fills' = DOMAIN fills \cup {Len(fills) + 1}
      /\ Len(fills) + 1 \notin DOMAIN fills
      /\ fills'[Len(fills) + 1] = [order |-> s, amount |-> amount[s]]
      /\ \A i \in DOMAIN fills : fills'[i] = fills[i]
  BY <1>1 DEF TypeOK, AppendFill
<1>3. \A t \in SubOrder : HasFill(t)' <=> HasFill(t) \/ t = s
  BY <1>2 DEF HasFill
<1> QED
  BY <1>2, <1>3

(* The steps of a goroutine that do not touch what the group shares.       *)
Local(s) ==
    \/ Draw(s) \/ Wake(s) \/ Abort(s) \/ NotSent(s) \/ Send(s)
    \/ Reply(s) \/ ReplyRefused(s) \/ LoseReply(s)
    \/ Register(s) \/ ReadStatus(s) \/ StatusFails(s)

(* Every step has the variables in their types.                            *)
LEMMA TypeStep ==
    ASSUME TypeOK, [Next]_vars
    PROVE  TypeOK'
<1> USE NAssumption, AmountAssumption DEF TypeOK, Group, Step, Raise, Cause
<1>1. ASSUME NEW s \in SubOrder, Local(s)
      PROVE  TypeOK'
  <2> SUFFICES /\ pc' \in [SubOrder -> {"new", "start", "wait", "submit", "await",
                                        "status", "append", "failing", "done"}]
               /\ at' \in [SubOrder -> {"none", "wire", "accepted", "refused"}]
               /\ exec' \in [SubOrder -> 0 .. Amount]
               /\ amount' \in [SubOrder -> 0 .. Amount]
               /\ cause' \in [SubOrder -> Cause]
               /\ UNCHANGED Group
    OBVIOUS
  <2>1. CASE Draw(s) \/ Wake(s)
    BY <2>1 DEF Draw, Wake
  <2>2. CASE Abort(s) \/ NotSent(s) \/ ReplyRefused(s) \/ LoseReply(s)
    BY <2>2 DEF Abort, NotSent, ReplyRefused, LoseReply
  <2>3. CASE Send(s)
    BY <2>3 DEF Send
  <2>4. CASE Reply(s) \/ StatusFails(s)
    BY <2>4 DEF Reply, StatusFails, After
  <2>5. CASE Register(s)
    BY <2>5 DEF Register, After
  <2>6. CASE ReadStatus(s)
    BY <2>6 DEF ReadStatus
  <2> QED
    BY <1>1, <2>1, <2>2, <2>3, <2>4, <2>5, <2>6 DEF Local
<1>2. ASSUME NEW s \in SubOrder, AppendFill(s)
      PROVE  TypeOK'
  <2>1. fills' \in Seq(Fill)
    BY <1>2, AppendedFill
  <2> QED
    BY <1>2, <2>1 DEF AppendFill
<1>3. ASSUME NEW s \in SubOrder, Fail(s)
      PROVE  TypeOK'
  <2>1. [order |-> s, cause |-> cause[s]] \in Error
    BY DEF Error
  <2> QED
    BY <1>3, <2>1 DEF Fail
<1>4. ASSUME NEW s \in SubOrder, Environment(s)
      PROVE  TypeOK'
  <2>1. CASE VenueDecides(s)
    BY <2>1 DEF VenueDecides
  <2>2. CASE VenueExecutes(s)
    <3>1. exec[s] + 1 \in 0 .. Amount
      BY <2>2 DEF VenueExecutes
    <3> QED
      BY <2>2, <3>1 DEF VenueExecutes
  <2> QED
    BY <1>4, <2>1, <2>2 DEF Environment
<1>5. CASE Spawn
  BY <1>5 DEF Spawn, SubOrder
<1>6. CASE Return
  BY <1>6 DEF Return
<1>7. CASE Interrupt
  BY <1>7 DEF Interrupt
<1>8. CASE UNCHANGED vars
  BY <1>8 DEF vars
<1> QED
  BY <1>1, <1>2, <1>3, <1>4, <1>5, <1>6, <1>7, <1>8 DEF Next, Goroutine, Local

LEMMA InitEstablishesIInv ==
    ASSUME Init
    PROVE  IInv
<1> USE NAssumption, AmountAssumption DEF Init
<1>1. TypeOK
  <2>1. 0 \in 0 .. N /\ 0 \in 0 .. Amount /\ Amount \in 0 .. Amount
    OBVIOUS
  <2>2. /\ exec \in [SubOrder -> 0 .. Amount]
        /\ amount \in [SubOrder -> 0 .. Amount]
        /\ cause \in [SubOrder -> Cause]
    BY <2>1 DEF Cause
  <2>3. fills \in Seq(Fill)
    OBVIOUS
  <2> QED
    BY <2>1, <2>2, <2>3, Zenon DEF TypeOK
<1>2. PcFixesPlace /\ FillsAreHeld /\ FillsOfEnded /\ EndedIsKnown
  BY DEF PcFixesPlace, FillsAreHeld, FillsOfEnded, EndedIsKnown, SubOrder
<1>3. CancelHasCause /\ RootCause /\ ReturnIsLast
  BY DEF CancelHasCause, RootCause, ReturnIsLast
<1> QED
  BY <1>1, <1>2, <1>3 DEF IInv

-----------------------------------------------------------------------------
(* Steps that leave the shared state alone.                                *)
LEMMA LocalStep ==
    ASSUME IInv, NEW s \in SubOrder, Local(s)
    PROVE  (PcFixesPlace /\ FillsAreHeld /\ FillsOfEnded /\ EndedIsKnown
            /\ CancelHasCause /\ RootCause /\ ReturnIsLast)'
<1> USE DEF IInv
<1>1. /\ UNCHANGED <<spawned, fills, err, cancelled, interrupted, ret>>
      /\ \A t \in SubOrder \ {s} : UNCHANGED <<pc[t], at[t], cause[t]>>
      /\ pc[s] \in {"start", "wait", "submit", "await", "status"}
      /\ pc'[s] \in {"wait", "submit", "await", "status", "append", "failing"}
      /\ Held(s) => Held(s)'
      /\ pc'[s] \in {"wait", "submit"} => at'[s] = "none"
      /\ pc'[s] \in {"status", "append"} => Held(s)'
      /\ pc'[s] = "failing" /\ cause'[s] = "cancelled" => cancelled
  <2> USE DEF TypeOK, Step, Raise, Group, Held
  <2>1. CASE Draw(s) \/ Wake(s)
    BY <2>1 DEF Draw, Wake, PcFixesPlace
  <2>2. CASE Abort(s) \/ NotSent(s) \/ ReplyRefused(s) \/ LoseReply(s)
    BY <2>2 DEF Abort, NotSent, ReplyRefused, LoseReply
  <2>3. CASE Send(s)
    BY <2>3 DEF Send, PcFixesPlace
  <2>4. CASE Reply(s) \/ StatusFails(s)
    BY <2>4 DEF Reply, StatusFails, After, PcFixesPlace
  <2>5. CASE Register(s)
    BY <2>5 DEF Register, After
  <2>6. CASE ReadStatus(s)
    BY <2>6 DEF ReadStatus, PcFixesPlace
  <2> QED
    BY <2>1, <2>2, <2>3, <2>4, <2>5, <2>6 DEF Local
<1>2. PcFixesPlace'
  BY <1>1 DEF PcFixesPlace, Held
<1>3. \A t \in SubOrder : Held(t) => Held(t)'
  BY <1>1 DEF Held
<1>4. \A i \in DOMAIN fills : fills[i].order \in SubOrder \ {s}
  BY <1>1, FillOrder DEF FillsOfEnded
<1>5. FillsAreHeld'
  BY <1>1, <1>3, <1>4 DEF FillsAreHeld
<1>6. \A t \in SubOrder : HasFill(t)' <=> HasFill(t)
  BY <1>1 DEF HasFill
<1>7. err # None => err.order \in SubOrder \ {s}
  BY <1>1 DEF FillsOfEnded, TypeOK, Error
<1>8. FillsOfEnded'
  BY <1>1, <1>4, <1>6, <1>7 DEF FillsOfEnded
<1>9. EndedIsKnown'
  BY <1>1, <1>6 DEF EndedIsKnown
<1>10. ret = "none"
  BY <1>1 DEF ReturnIsLast
<1>11. CancelHasCause' /\ RootCause' /\ ReturnIsLast'
  BY <1>1, <1>10 DEF CancelHasCause, RootCause, ReturnIsLast
<1> QED
  BY <1>2, <1>5, <1>8, <1>9, <1>11

(* The append: the order the venue holds gets its one fill.                *)
LEMMA AppendStep ==
    ASSUME IInv, NEW s \in SubOrder, AppendFill(s)
    PROVE  (PcFixesPlace /\ FillsAreHeld /\ FillsOfEnded /\ EndedIsKnown
            /\ CancelHasCause /\ RootCause /\ ReturnIsLast)'
<1> USE DEF IInv
<1>1. /\ UNCHANGED <<spawned, at, cause, err, cancelled, interrupted, ret>>
      /\ \A t \in SubOrder \ {s} : pc'[t] = pc[t]
      /\ pc[s] = "append" /\ pc'[s] = "done"
  BY DEF AppendFill, Step, TypeOK
<1>2. /\ DOMAIN fills' = DOMAIN fills \cup {Len(fills) + 1}
      /\ Len(fills) + 1 \notin DOMAIN fills
      /\ fills'[Len(fills) + 1].order = s
      /\ \A i \in DOMAIN fills : fills'[i] = fills[i]
      /\ \A t \in SubOrder : HasFill(t)' <=> HasFill(t) \/ t = s
  <2>1. TypeOK
    OBVIOUS
  <2>2. fills'[Len(fills) + 1] = [order |-> s, amount |-> amount[s]]
    BY <2>1, AppendedFill
  <2>3. fills'[Len(fills) + 1].order = s
    BY <2>2
  <2> HIDE DEF IInv
  <2> QED
    BY <2>1, <2>3, AppendedFill
<1>3. \A i \in DOMAIN fills : fills[i].order \in SubOrder \ {s}
  BY <1>1, FillOrder DEF FillsOfEnded
<1>4. PcFixesPlace'
  BY <1>1 DEF PcFixesPlace, Held
<1>5. FillsAreHeld'
  <2>1. Held(s)
    BY <1>1 DEF PcFixesPlace
  <2> QED
    BY <1>1, <1>2, <1>3, <2>1 DEF FillsAreHeld, Held
<1>6. FillsOfEnded'
  <2>1. \A i \in DOMAIN fills' : pc'[fills'[i].order] = "done"
    BY <1>1, <1>2, <1>3 DEF FillsOfEnded
  <2>2. err # None => err.order \in SubOrder \ {s}
    BY <1>1 DEF FillsOfEnded, TypeOK, Error
  <2> QED
    BY <1>1, <1>2, <2>1, <2>2 DEF FillsOfEnded
<1>7. EndedIsKnown'
  BY <1>1, <1>2 DEF EndedIsKnown
<1>8. ret = "none"
  BY <1>1 DEF ReturnIsLast
<1>9. CancelHasCause' /\ RootCause' /\ ReturnIsLast'
  BY <1>1, <1>8 DEF CancelHasCause, RootCause, ReturnIsLast
<1> QED
  BY <1>4, <1>5, <1>6, <1>7, <1>9

(* The return of an error to the group: the first one stays.               *)
LEMMA FailStep ==
    ASSUME IInv, NEW s \in SubOrder, Fail(s)
    PROVE  (PcFixesPlace /\ FillsAreHeld /\ FillsOfEnded /\ EndedIsKnown
            /\ CancelHasCause /\ RootCause /\ ReturnIsLast)'
<1> USE DEF IInv
<1>1. /\ UNCHANGED <<spawned, at, cause, fills, interrupted, ret>>
      /\ \A t \in SubOrder \ {s} : pc'[t] = pc[t]
      /\ pc[s] = "failing" /\ pc'[s] = "done"
  BY DEF Fail, Step, TypeOK
<1>2. /\ err' # None
      /\ err # None => err' = err /\ cancelled' = cancelled
      /\ err = None => err' = [order |-> s, cause |-> cause[s]]
  <2>1. [order |-> s, cause |-> cause[s]] \in Error
    BY DEF TypeOK, Error
  <2> QED
    BY <2>1, NoneAssumption DEF Fail
<1>3. \A i \in DOMAIN fills : fills[i].order \in SubOrder \ {s}
  BY <1>1, FillOrder DEF FillsOfEnded
<1>4. \A t \in SubOrder : HasFill(t)' <=> HasFill(t)
  BY <1>1 DEF HasFill
<1>5. ~HasFill(s)
  BY <1>3 DEF HasFill
<1>6. PcFixesPlace' /\ FillsAreHeld'
  BY <1>1 DEF PcFixesPlace, FillsAreHeld, Held
<1>7. FillsOfEnded'
  <2>1. \A i \in DOMAIN fills' : pc'[fills'[i].order] = "done"
    BY <1>1, <1>3 DEF FillsOfEnded
  <2>2. (err # None => pc[err.order] = "done" /\ ~HasFill(err.order))'
    <3>1. CASE err = None
      BY <3>1, <1>1, <1>2, <1>4, <1>5
    <3>2. CASE err # None
      <4>1. err.order \in SubOrder \ {s}
        BY <3>2, <1>1 DEF FillsOfEnded, TypeOK, Error
      <4> QED
        BY <3>2, <4>1, <1>1, <1>2, <1>4 DEF FillsOfEnded
    <3> QED
      BY <3>1, <3>2
  <2> QED
    BY <2>1, <2>2 DEF FillsOfEnded
<1>8. EndedIsKnown' /\ CancelHasCause'
  BY <1>1, <1>2 DEF EndedIsKnown, CancelHasCause
<1>9. RootCause'
  BY <1>1, <1>2 DEF RootCause, CancelHasCause
<1>10. ret = "none"
  BY <1>1 DEF ReturnIsLast
<1>11. ReturnIsLast'
  BY <1>1, <1>10 DEF ReturnIsLast
<1> QED
  BY <1>6, <1>7, <1>8, <1>9, <1>11

(* The group's own steps and the environment's.                            *)
LEMMA OtherStep ==
    ASSUME IInv,
           Spawn \/ Return \/ Interrupt \/ (\E s \in SubOrder : Environment(s))
             \/ UNCHANGED vars
    PROVE  (PcFixesPlace /\ FillsAreHeld /\ FillsOfEnded /\ EndedIsKnown
            /\ CancelHasCause /\ RootCause /\ ReturnIsLast)'
<1> USE DEF IInv
<1>1. CASE Spawn
  <2>1. spawned + 1 \in SubOrder /\ pc[spawned + 1] = "new"
    BY <1>1, NAssumption DEF Spawn, TypeOK, SubOrder, PcFixesPlace
  <2>2. /\ UNCHANGED <<at, cause, fills, err, cancelled, interrupted, ret>>
        /\ \A t \in SubOrder \ {spawned + 1} : pc'[t] = pc[t]
        /\ pc'[spawned + 1] = "start" /\ spawned' = spawned + 1
    BY <1>1, <2>1 DEF Spawn, TypeOK
  <2>3. PcFixesPlace'
    BY <2>1, <2>2, NAssumption DEF PcFixesPlace, Held, TypeOK, SubOrder
  <2>4. FillsAreHeld' /\ RootCause'
    BY <2>2 DEF FillsAreHeld, Held, RootCause
  <2>5. \A t \in SubOrder : HasFill(t)' <=> HasFill(t)
    BY <2>2 DEF HasFill
  <2>6. FillsOfEnded'
    <3>1. err # None => err.order \in SubOrder
      BY DEF TypeOK, Error
    <3> QED
      BY <2>1, <2>2, <2>5, <3>1, FillOrder DEF FillsOfEnded
  <2>7. EndedIsKnown' /\ CancelHasCause'
    BY <2>1, <2>2, <2>5 DEF EndedIsKnown, CancelHasCause
  <2>8. ReturnIsLast'
    BY <2>1, <2>2 DEF ReturnIsLast
  <2> QED
    BY <2>3, <2>4, <2>6, <2>7, <2>8
<1>2. CASE Return
  <2>1. /\ UNCHANGED <<spawned, pc, at, cause, fills, err, interrupted>>
        /\ \A s \in SubOrder : pc[s] = "done"
        /\ ret' # "none"
        /\ ret' = "ok" <=> err = None
    BY <1>2 DEF Return
  <2> QED
    BY <2>1 DEF PcFixesPlace, FillsAreHeld, FillsOfEnded, EndedIsKnown,
                CancelHasCause, RootCause, ReturnIsLast, Held, HasFill
<1>3. CASE Interrupt
  <2>1. /\ UNCHANGED <<spawned, pc, at, cause, fills, err, ret>>
        /\ interrupted'
    BY <1>3 DEF Interrupt
  <2> QED
    BY <2>1 DEF PcFixesPlace, FillsAreHeld, FillsOfEnded, EndedIsKnown,
                CancelHasCause, RootCause, ReturnIsLast, Held, HasFill
<1>4. ASSUME NEW s \in SubOrder, Environment(s)
      PROVE  (PcFixesPlace /\ FillsAreHeld /\ FillsOfEnded /\ EndedIsKnown
              /\ CancelHasCause /\ RootCause /\ ReturnIsLast)'
  <2>1. /\ UNCHANGED <<pc, cause, Group>>
        /\ \A t \in SubOrder : (Held(t) => Held(t)') /\ (at[t] = "none" => at'[t] = "none")
    BY <1>4 DEF Environment, VenueDecides, VenueExecutes, Held, TypeOK
  <2>2. FillsAreHeld'
    BY <2>1, FillOrder DEF FillsAreHeld, Group
  <2>3. PcFixesPlace' /\ FillsOfEnded' /\ EndedIsKnown'
    BY <2>1 DEF PcFixesPlace, FillsOfEnded, EndedIsKnown, HasFill, Group
  <2>4. CancelHasCause' /\ RootCause' /\ ReturnIsLast'
    BY <2>1 DEF CancelHasCause, RootCause, ReturnIsLast, Group
  <2> QED
    BY <2>2, <2>3, <2>4
<1>5. CASE UNCHANGED vars
  BY <1>5 DEF vars, PcFixesPlace, FillsAreHeld, FillsOfEnded, EndedIsKnown,
              CancelHasCause, RootCause, ReturnIsLast, Held, HasFill
<1> QED
  BY <1>1, <1>2, <1>3, <1>4, <1>5

LEMMA StepKeepsIInv ==
    ASSUME IInv, [Next]_vars
    PROVE  IInv'
<1>1. TypeOK'
  BY TypeStep DEF IInv
<1>2. (PcFixesPlace /\ FillsAreHeld /\ FillsOfEnded /\ EndedIsKnown
       /\ CancelHasCause /\ RootCause /\ ReturnIsLast)'
  <2>1. ASSUME NEW s \in SubOrder, Goroutine(s)
        PROVE  Local(s) \/ AppendFill(s) \/ Fail(s)
    BY <2>1, Zenon DEF Goroutine, Local
  <2>2. \/ \E s \in SubOrder : Local(s) \/ AppendFill(s) \/ Fail(s)
        \/ Spawn \/ Return \/ Interrupt \/ (\E s \in SubOrder : Environment(s))
        \/ UNCHANGED vars
    BY <2>1, Zenon DEF Next
  <2> QED
    BY <2>2, LocalStep, AppendStep, FailStep, OtherStep
<1> QED
  BY <1>1, <1>2 DEF IInv

-----------------------------------------------------------------------------
(* The inductive invariant holds of every behaviour of Execute.            *)
THEOREM Invariance == Spec => []IInv
<1>1. Init => IInv
  BY InitEstablishesIInv
<1>2. IInv /\ [Next]_vars => IInv'
  BY StepKeepsIInv
<1> QED
  BY <1>1, <1>2, PTL DEF Spec

(* Every variable of the call keeps its type.                              *)
THEOREM TypeCorrect == Spec => []TypeOK
<1>1. IInv => TypeOK
  BY DEF IInv
<1> QED
  BY <1>1, Invariance, PTL

(* However the goroutines interleave their appends, allFills holds at most *)
(* one fill per sub-order, and only of orders that a venue accepted.       *)
THEOREM FillsAreHeldTheorem == Spec => []FillsAreHeld
<1>1. IInv => FillsAreHeld
  BY DEF IInv
<1> QED
  BY <1>1, Invariance, PTL

(* Execute returns nil exactly when every sub-order is accepted and filled *)
(* in the slice, for any number of sub-orders and any failures.            *)
THEOREM ResultMatchesFillsTheorem == Spec => []ResultMatchesFills
<1>1. ASSUME IInv
      PROVE  ResultMatchesFills
  <2>1. ASSUME err = None, \A s \in SubOrder : pc[s] = "done"
        PROVE  \A s \in SubOrder : Held(s) /\ HasFill(s)
    BY <1>1, <2>1 DEF IInv, EndedIsKnown, FillsAreHeld, HasFill
  <2>2. ASSUME err # None
        PROVE  ~ \A s \in SubOrder : HasFill(s)
    <3>1. err.order \in SubOrder /\ ~HasFill(err.order)
      BY <1>1, <2>2 DEF IInv, FillsOfEnded, TypeOK, Error
    <3> QED
      BY <3>1
  <2> QED
    BY <1>1, <2>1, <2>2 DEF IInv, ReturnIsLast, ResultMatchesFills
<1> QED
  BY <1>1, Invariance, PTL

(* No accepted order is dropped in silence: a goroutine that ended without *)
(* a fill for the order its venue holds leaves an error with the group.    *)
THEOREM NoSilentLossTheorem == Spec => []NoSilentLoss
<1>1. IInv => NoSilentLoss
  BY DEF IInv, EndedIsKnown, NoSilentLoss
<1> QED
  BY <1>1, Invariance, PTL

(* Whichever goroutine fails first, and however many fail because of it,   *)
(* "cancelled" is the reported cause only if the caller cancelled.         *)
THEOREM RootCauseTheorem == Spec => []RootCause
<1>1. IInv => RootCause
  BY DEF IInv
<1> QED
  BY <1>1, Invariance, PTL

(* The mock exchange answers by its fill rate, and never "pending".        *)
LocalAnswers ==
    \A s \in SubOrder : Venue[s] \notin Remote => "pending" \notin Replies[Venue[s]]

(* What the goroutine of an in-process order is about to report.           *)
LocalAmounts ==
    \A s \in SubOrder : Venue[s] \notin Remote =>
        /\ pc[s] # "await"
        /\ pc[s] = "append" /\ exec[s] > 0 => amount[s] = exec[s]

(* A step other than an append keeps what in-process orders report.        *)
LEMMA LocalAmountsStep ==
    ASSUME LocalAnswers, IInv, LocalAmounts, [Next]_vars
    PROVE  LocalAmounts'
<1>0. TypeOK
  BY DEF IInv
<1>1. CASE UNCHANGED <<exec, amount>> /\ \A s \in SubOrder :
             pc'[s] \notin {"await", "append"} \/ pc'[s] = pc[s]
  BY <1>1 DEF LocalAmounts
<1>2. CASE Spawn \/ Return \/ Interrupt \/ UNCHANGED vars
  BY <1>0, <1>1, <1>2, NAssumption DEF Spawn, Return, Interrupt, vars, TypeOK, SubOrder
<1>3. ASSUME NEW s \in SubOrder, Goroutine(s) PROVE LocalAmounts'
  <2>1. CASE Draw(s) \/ Wake(s) \/ AppendFill(s) \/ Fail(s)
    BY <1>0, <1>1, <2>1 DEF Draw, Wake, AppendFill, Fail, Step, TypeOK
  <2>2. CASE Abort(s) \/ NotSent(s) \/ ReplyRefused(s) \/ LoseReply(s)
    BY <1>0, <1>1, <2>2 DEF Abort, NotSent, ReplyRefused, LoseReply, Raise, Step, TypeOK
  <2>3. CASE Send(s)
    BY <1>0, <2>3 DEF Send, Step, TypeOK, LocalAmounts
  <2>4. CASE Reply(s)
    BY <1>0, <2>4 DEF Reply, Step, After, TypeOK, LocalAmounts
  <2>5. CASE Register(s)
    <3>1. PICK status \in Replies[Venue[s]], executed \in 0 .. Amount :
            /\ Truthful(status, executed)
            /\ Step(s, "submit", After(status))
            /\ exec' = [exec EXCEPT ![s] = executed]
      BY <2>5 DEF Register
    <3>2. Venue[s] \notin Remote /\ UNCHANGED amount
      BY <2>5 DEF Register
    <3>3. status \in Status /\ status # "pending"
      BY <3>2, VenueAssumption DEF LocalAnswers
    <3>4. pc'[s] # "await" /\ (pc'[s] = "append" => executed = 0)
      BY <1>0, <3>1, <3>3 DEF Truthful, Step, After, Status, TypeOK
    <3> QED
      BY <1>0, <3>1, <3>2, <3>4 DEF Step, TypeOK, LocalAmounts
  <2>6. CASE ReadStatus(s)
    BY <1>0, <2>6 DEF ReadStatus, Step, TypeOK, LocalAmounts
  <2>7. CASE StatusFails(s)
    BY <1>0, <2>7 DEF StatusFails, Step, TypeOK, LocalAmounts
  <2> QED
    BY <1>3, <2>1, <2>2, <2>3, <2>4, <2>5, <2>6, <2>7 DEF Goroutine
<1>4. ASSUME NEW s \in SubOrder, Environment(s) PROVE LocalAmounts'
  BY <1>0, <1>4 DEF Environment, VenueDecides, VenueExecutes, Group, TypeOK, LocalAmounts
<1> QED
  BY <1>2, <1>3, <1>4 DEF Next

(* Once its fill is appended, nothing is executed of an in-process order.  *)
LEMMA LocalExactStep ==
    ASSUME IInv, LocalAmounts, LocalFillsAreExact, [Next]_vars
    PROVE  LocalFillsAreExact'
<1>0. TypeOK
  BY DEF IInv
<1>1. ASSUME NEW s \in SubOrder, pc[s] = "done", Venue[s] \notin Remote
      PROVE  exec'[s] = exec[s]
  <2>1. ASSUME NEW t \in SubOrder, Register(t) PROVE exec'[s] = exec[s]
    BY <1>0, <1>1, <2>1 DEF Register, Step, TypeOK
  <2>2. ASSUME NEW t \in SubOrder, Environment(t) PROVE exec'[s] = exec[s]
    BY <1>0, <1>1, <2>2 DEF Environment, VenueDecides, VenueExecutes, TypeOK
  <2>3. CASE UNCHANGED exec
    BY <2>3
  <2> QED
    BY <2>1, <2>2, <2>3 DEF Next, Goroutine, vars, Spawn, Return, Interrupt, Draw, Wake,
        Abort, NotSent, Send, Reply, ReplyRefused, LoseReply, ReadStatus, StatusFails,
        AppendFill, Fail, Raise
<1>2. CASE UNCHANGED fills
  <2> SUFFICES ASSUME NEW i \in DOMAIN fills, Venue[fills[i].order] \notin Remote,
                      exec'[fills[i].order] > 0
               PROVE  fills[i].amount = exec'[fills[i].order]
    BY <1>2 DEF LocalFillsAreExact
  <2>1. fills[i].order \in SubOrder /\ pc[fills[i].order] = "done"
    BY <1>0, FillOrder DEF IInv, FillsOfEnded
  <2>2. exec'[fills[i].order] = exec[fills[i].order]
    BY <1>1, <2>1
  <2> QED
    BY <2>2 DEF LocalFillsAreExact
<1>3. ASSUME NEW t \in SubOrder, AppendFill(t) PROVE LocalFillsAreExact'
  <2>1. /\ DOMAIN fills' = DOMAIN fills \cup {Len(fills) + 1}
        /\ fills'[Len(fills) + 1] = [order |-> t, amount |-> amount[t]]
        /\ \A i \in DOMAIN fills : fills'[i] = fills[i]
    BY <1>0, <1>3, AppendedFill
  <2>2. pc[t] = "append" /\ UNCHANGED exec
    BY <1>3 DEF AppendFill, Step
  <2>3. Venue[t] \notin Remote /\ exec[t] > 0 => amount[t] = exec[t]
    BY <2>2 DEF LocalAmounts
  <2> QED
    BY <2>1, <2>2, <2>3 DEF LocalFillsAreExact
<1> QED
  BY <1>2, <1>3 DEF Next, Goroutine, Environment, vars, Group, Spawn, Return, Interrupt,
     Draw, Wake, Abort, NotSent, Send, Reply, ReplyRefused, LoseReply, Register,
     ReadStatus, StatusFails, Fail, Raise, VenueDecides, VenueExecutes

(* Of an order at an in-process venue the fill reports exactly what was    *)
(* executed, provided such venues never answer "pending", as the mock      *)
(* never does.                                                             *)
THEOREM LocalFillsAreExactTheorem ==
    ASSUME LocalAnswers
    PROVE  Spec => []LocalFillsAreExact
<1> DEFINE Exact == LocalAmounts /\ LocalFillsAreExact
<1>1. Init => Exact
  BY DEF Init, LocalAmounts, LocalFillsAreExact
<1>2. IInv /\ Exact /\ [Next]_vars => Exact'
  BY LocalAmountsStep, LocalExactStep
<1> QED
  BY <1>1, <1>2, Invariance, PTL DEF Spec

(* After Execute returned nothing is sent and the slice stays as it is.    *)
THEOREM QuietAfterReturnTheorem == Spec => QuietAfterReturn
<1> DEFINE Quiet ==
      ret # "none" =>
         /\ UNCHANGED <<pc, fills, err, ret>>
         /\ \A s \in SubOrder : at'[s] # at[s] => at[s] = "wire"
<1>1. ASSUME IInv, [Next]_vars
      PROVE  [Quiet]_vars
  <2> SUFFICES ASSUME ret # "none"
               PROVE  Quiet
    OBVIOUS
  <2>1. \A s \in SubOrder : pc[s] = "done"
    BY <1>1 DEF IInv, ReturnIsLast
  <2>2. ~Spawn /\ ~Return /\ ~Interrupt
    <3>1. ASSUME Spawn
          PROVE  FALSE
      <4>1. spawned + 1 \in SubOrder /\ pc[spawned + 1] = "new"
        BY <1>1, <3>1, NAssumption DEF Spawn, IInv, TypeOK, SubOrder, PcFixesPlace
      <4> QED
        BY <2>1, <4>1
    <3> QED
      BY <3>1 DEF Return, Interrupt
  <2>3. ASSUME NEW s \in SubOrder
        PROVE  ~Goroutine(s)
    BY <2>1 DEF Goroutine, Draw, Wake, Abort, NotSent, Send, Reply, ReplyRefused,
                LoseReply, Register, ReadStatus, StatusFails, AppendFill, Fail,
                Step, Raise
  <2>4. ASSUME NEW s \in SubOrder, Environment(s)
        PROVE  Quiet
    BY <1>1, <2>4 DEF Environment, VenueDecides, VenueExecutes, Group, IInv, TypeOK
  <2>5. CASE UNCHANGED vars
    BY <2>5 DEF vars
  <2> QED
    BY <1>1, <2>2, <2>3, <2>4, <2>5 DEF Next
<1> QED
  BY <1>1, Invariance, PTL DEF Spec, QuietAfterReturn

-----------------------------------------------------------------------------
Placed == {s \in SubOrder : Held(s)}

Filled == {s \in SubOrder : HasFill(s)}

(* A step that changes neither set nor the result is invisible above.      *)
LEMMA Stutter ==
    ASSUME UNCHANGED <<fills, ret>>,
           \A s \in SubOrder : Held(s)' <=> Held(s)
    PROVE  UNCHANGED Promise!vars
<1>1. \A s \in SubOrder : HasFill(s)' <=> HasFill(s)
  BY DEF HasFill
<1>2. Placed' = Placed /\ Filled' = Filled
  BY <1>1 DEF Placed, Filled
<1> QED
  BY <1>2 DEF Promise!vars, Placed, Filled

(* A step by which venue of s takes it is an Accept.                       *)
LEMMA Acceptance ==
    ASSUME NEW s \in SubOrder, TypeOK, ~Held(s), UNCHANGED <<fills, ret>>,
           at' = [at EXCEPT ![s] = "accepted"]
    PROVE  Promise!Accept(s)
<1>1. \A t \in SubOrder : HasFill(t)' <=> HasFill(t)
  BY DEF HasFill
<1>2. Filled' = Filled /\ Placed' = Placed \cup {s} /\ s \notin Placed
  BY <1>1 DEF Filled, Placed, Held, TypeOK
<1> QED
  BY <1>2 DEF Promise!Accept, Placed, Filled

LEMMA LocalRefines ==
    ASSUME IInv, NEW s \in SubOrder, Local(s)
    PROVE  Promise!Accept(s) \/ UNCHANGED Promise!vars
<1> USE DEF IInv, Step, Raise, Group
<1>1. CASE Register(s)
  <2>1. at[s] = "none"
    BY <1>1 DEF Register, PcFixesPlace
  <2> QED
    BY <1>1, <2>1, Acceptance DEF Register, Held
<1>2. CASE Send(s)
  <2>1. at[s] = "none"
    BY <1>2 DEF Send, PcFixesPlace
  <2>2. \A t \in SubOrder : Held(t)' <=> Held(t)
    BY <1>2, <2>1 DEF Send, Held, TypeOK
  <2> QED
    BY <1>2, <2>2, Stutter DEF Send
<1>3. CASE ~Register(s) /\ ~Send(s)
  <2>1. UNCHANGED <<at, fills, ret>>
    BY <1>3 DEF Local, Draw, Wake, Abort, NotSent, Reply, ReplyRefused, LoseReply,
                ReadStatus, StatusFails
  <2>2. \A t \in SubOrder : Held(t)' <=> Held(t)
    BY <2>1 DEF Held
  <2> QED
    BY <2>1, <2>2, Stutter
<1> QED
  BY <1>1, <1>2, <1>3

LEMMA AppendRefines ==
    ASSUME IInv, NEW s \in SubOrder, AppendFill(s)
    PROVE  Promise!Record(s)
<1>1. pc[s] = "append" /\ UNCHANGED <<at, ret>>
  BY DEF AppendFill, Step
<1>2. ret = "none" /\ Held(s)
  BY <1>1 DEF IInv, ReturnIsLast, PcFixesPlace
<1>3. ~HasFill(s)
  BY <1>1 DEF IInv, FillsOfEnded, HasFill
<1>4. \A t \in SubOrder : HasFill(t)' <=> HasFill(t) \/ t = s
  BY AppendedFill DEF IInv
<1>5. Placed' = Placed /\ Filled' = Filled \cup {s} /\ s \in Placed \ Filled
  BY <1>1, <1>2, <1>3, <1>4 DEF Placed, Filled, Held
<1> QED
  BY <1>1, <1>2, <1>5 DEF Promise!Record, Placed, Filled

LEMMA ReturnRefines ==
    ASSUME IInv, Return
    PROVE  Promise!Return
<1>1. IInv'
  BY StepKeepsIInv DEF Next
<1>2. /\ UNCHANGED <<at, fills, err>>
      /\ ret = "none"
      /\ ret' = IF err = None THEN "ok" ELSE "error"
      /\ \A s \in SubOrder : pc[s] = "done"
  BY DEF Return
<1>3. \A s \in SubOrder : (Held(s)' <=> Held(s)) /\ (HasFill(s)' <=> HasFill(s))
  BY <1>2 DEF Held, HasFill
<1>4. Placed' = Placed /\ Filled' = Filled
  BY <1>3 DEF Placed, Filled
<1>5. err = None <=> Filled = SubOrder
  <2>1. ASSUME err = None
        PROVE  Filled = SubOrder
    BY <1>2, <2>1 DEF IInv, EndedIsKnown, Filled
  <2>2. ASSUME err # None
        PROVE  Filled # SubOrder
    <3>1. err.order \in SubOrder /\ ~HasFill(err.order)
      BY <2>2 DEF IInv, FillsOfEnded, TypeOK, Error
    <3> QED
      BY <3>1 DEF Filled
  <2> QED
    BY <2>1, <2>2
<1> QED
  BY <1>2, <1>4, <1>5 DEF Promise!Return, Placed, Filled

(* Execute implements Placement: every behaviour of the goroutines and the *)
(* venues is, seen through what is placed and filled, one of Placement.    *)
(* Its liveness, that the call returns, is TLC's to check.                 *)
THEOREM Refinement == Spec => Promise!Safety
<1>1. ASSUME Init
      PROVE  Promise!Begin
  <2>1. Placed = {} /\ Filled = {} /\ ret = "none"
    BY <1>1 DEF Init, Placed, Filled, Held, HasFill
  <2> QED
    BY <2>1 DEF Promise!Begin, Placed, Filled
<1>2. ASSUME IInv, [Next]_vars
      PROVE  [Promise!Next]_(Promise!vars)
  <2>1. ASSUME NEW s \in SubOrder, Goroutine(s)
        PROVE  Promise!Accept(s) \/ Promise!Record(s) \/ UNCHANGED Promise!vars
    <3>1. CASE Local(s)
      BY <1>2, <3>1, LocalRefines
    <3>2. CASE AppendFill(s)
      BY <1>2, <3>2, AppendRefines
    <3>3. CASE Fail(s)
      <4>1. UNCHANGED <<at, fills, ret>>
        BY <3>3 DEF Fail
      <4> QED
        BY <4>1, Stutter DEF Held
    <3> QED
      BY <2>1, <3>1, <3>2, <3>3, Zenon DEF Goroutine, Local
  <2>2. ASSUME NEW s \in SubOrder, Environment(s)
        PROVE  Promise!Accept(s) \/ UNCHANGED Promise!vars
    <3>1. CASE VenueDecides(s) /\ at' = [at EXCEPT ![s] = "accepted"]
      BY <1>2, <3>1, Acceptance DEF VenueDecides, IInv, Group, Held
    <3>2. CASE VenueDecides(s) /\ at' = [at EXCEPT ![s] = "refused"]
      <4>1. \A t \in SubOrder : Held(t)' <=> Held(t)
        BY <1>2, <3>2 DEF VenueDecides, Held, IInv, TypeOK
      <4> QED
        BY <3>2, <4>1, Stutter DEF VenueDecides, Group
    <3>3. CASE VenueExecutes(s)
      BY <3>3, Stutter DEF VenueExecutes, Group, Held
    <3> QED
      BY <2>2, <3>1, <3>2, <3>3 DEF Environment, VenueDecides
  <2>3. CASE Return
    BY <1>2, <2>3, ReturnRefines DEF Promise!Next
  <2>4. CASE Spawn \/ Interrupt \/ UNCHANGED vars
    <3>1. UNCHANGED <<at, fills, ret>>
      BY <2>4 DEF Spawn, Interrupt, vars
    <3> QED
      BY <3>1, Stutter DEF Held
  <2> QED
    BY <1>2, <2>1, <2>2, <2>3, <2>4 DEF Next, Promise!Next
<1> QED
  BY <1>1, <1>2, Invariance, PTL DEF Spec, Promise!Safety
=============================================================================
