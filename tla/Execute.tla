------------------------------- MODULE Execute -------------------------------
(***************************************************************************)
(* One call of Router.Execute (internal/exchange/router.go): a goroutine   *)
(* per sub-order, joined by an errgroup whose context is cancelled by the  *)
(* first error, and the venues at the other end of their requests.         *)
(*                                                                         *)
(* A venue is remote (the CoW client: HTTP, so a request, a reply or both  *)
(* can be lost and the venue acts on its own) or in process (the mock      *)
(* exchange: accepting the order and answering are one step).              *)
(***************************************************************************)
EXTENDS Integers, Sequences

CONSTANTS
    N,          \* number of sub-orders, numbered in the order of their spawning
    Exchange,   \* the configured exchanges
    Venue,      \* the exchange each sub-order goes to
    Remote,     \* the exchanges reached over HTTP
    Slow,       \* the in-process exchanges with a simulated latency
    Replies,    \* the order statuses each exchange's SubmitOrder can answer with
    Jitter,     \* whether execution_jitter is positive
    Amount,     \* the amount of a sub-order
    None        \* the nil error

SubOrder == 1 .. N

Status == {"pending", "partial", "filled", "failed"}

ASSUME NAssumption == N \in Nat

ASSUME VenueAssumption ==
    /\ Venue \in [SubOrder -> Exchange]
    /\ Remote \subseteq Exchange
    /\ Slow \subseteq Exchange \ Remote
    /\ Replies \in [Exchange -> SUBSET Status]

ASSUME AmountAssumption == Amount \in Nat \ {0}

Cause == {"none", "unsent", "refused", "lost", "cancelled"}

Error == [order : SubOrder, cause : Cause]

ASSUME NoneAssumption == None \notin Error

VARIABLES
    spawned,        \* how many goroutines the loop has started
    pc,             \* where the goroutine of each sub-order stands
    at,             \* where the sub-order is: nowhere, on the wire, at its venue
    exec,           \* how much of it the venue has executed
    amount,         \* fill.AmountUSD, local to the goroutine
    cause,          \* why the goroutine is about to return an error
    fills,          \* allFills, the slice behind the mutex
    err,            \* the error the group keeps: the first
    cancelled,      \* whether gctx, the group's context, is cancelled
    interrupted,    \* whether the caller's context is cancelled
    ret             \* what Execute has returned

vars == <<spawned, pc, at, exec, amount, cause, fills, err, cancelled,
          interrupted, ret>>

Fill == [order : SubOrder, amount : 0 .. Amount]

TypeOK ==
    /\ spawned \in 0 .. N
    /\ pc \in [SubOrder -> {"new", "start", "wait", "submit", "await", "status",
                            "append", "failing", "done"}]
    /\ at \in [SubOrder -> {"none", "wire", "accepted", "refused"}]
    /\ exec \in [SubOrder -> 0 .. Amount]
    /\ amount \in [SubOrder -> 0 .. Amount]
    /\ cause \in [SubOrder -> Cause]
    /\ fills \in Seq(Fill)
    /\ err \in Error \cup {None}
    /\ cancelled \in BOOLEAN
    /\ interrupted \in BOOLEAN
    /\ ret \in {"none", "ok", "error"}

Init ==
    /\ spawned = 0
    /\ pc = [s \in SubOrder |-> "new"]
    /\ at = [s \in SubOrder |-> "none"]
    /\ exec = [s \in SubOrder |-> 0]
    /\ amount = [s \in SubOrder |-> Amount]
    /\ cause = [s \in SubOrder |-> "none"]
    /\ fills = <<>>
    /\ err = None
    /\ cancelled = FALSE
    /\ interrupted = FALSE
    /\ ret = "none"

-----------------------------------------------------------------------------
Group == <<spawned, fills, err, cancelled, interrupted, ret>>

(* The goroutine of s moves from one point of its code to another.         *)
Step(s, from, to) ==
    /\ pc[s] = from
    /\ pc' = [pc EXCEPT ![s] = to]

(* The goroutine of s is about to return an error.                         *)
Raise(s, from, why) ==
    /\ Step(s, from, "failing")
    /\ cause' = [cause EXCEPT ![s] = why]
    /\ UNCHANGED <<at, exec, amount, Group>>

(* Mutant of Spawn: the loop runs once too often.                          *)
SpawnOneTooMany ==
    /\ spawned <= N
    /\ spawned' = spawned + 1
    /\ pc' = [pc EXCEPT ![spawned + 1] = "start"]
    /\ UNCHANGED <<at, exec, amount, cause, fills, err, cancelled, interrupted, ret>>

(* The loops start the goroutines one by one, and go on doing so when one  *)
(* of those already started has failed.                                    *)
Spawn ==
    /\ spawned < N
    /\ spawned' = spawned + 1
    /\ pc' = [pc EXCEPT ![spawned + 1] = "start"]
    /\ UNCHANGED <<at, exec, amount, cause, fills, err, cancelled, interrupted, ret>>

(* The jitter is drawn from both sides of zero and only a positive one     *)
(* makes the goroutine wait.                                               *)
Draw(s) ==
    /\ \/ Step(s, "start", "submit")
       \/ Jitter /\ Step(s, "start", "wait")
    /\ UNCHANGED <<at, exec, amount, cause, Group>>

Wake(s) ==
    /\ Step(s, "wait", "submit")
    /\ UNCHANGED <<at, exec, amount, cause, Group>>

(* The places that watch gctx: the jitter, every HTTP request, the         *)
(* latency of the mock exchange.  A mock without latency never looks.      *)
Abort(s) ==
    /\ cancelled
    /\ \/ Raise(s, "wait", "cancelled")
       \/ Raise(s, "await", "cancelled")
       \/ Venue[s] \in Remote \cup Slow /\ Raise(s, "submit", "cancelled")

(* SubmitOrder of the client fails before anything reaches the wire: the   *)
(* signer, or the connection.                                              *)
NotSent(s) ==
    /\ Venue[s] \in Remote
    /\ Raise(s, "submit", "unsent")

(* The request leaves; a cancelled context stops it here.                  *)
Send(s) ==
    /\ Venue[s] \in Remote
    /\ ~cancelled
    /\ Step(s, "submit", "await")
    /\ at' = [at EXCEPT ![s] = "wire"]
    /\ UNCHANGED <<exec, amount, cause, Group>>

(* Mutant of After: a partial fill is not looked into.                     *)
AfterFilledOnly(status) == IF status = "filled" THEN "status" ELSE "append"

(* Only a status "filled" or "partial" makes the goroutine ask for more.   *)
After(status) == IF status \in {"filled", "partial"} THEN "status" ELSE "append"

(* What the venue has executed of s bears out the status it answers with.  *)
Truthful(status, executed) ==
    /\ status = "filled" => executed = Amount
    /\ status = "partial" => executed > 0
    /\ status = "failed" => executed = 0

(* Mutant of Reply: the answer is taken for an order id unread.            *)
ReplyUnread(s) ==
    /\ \E status \in Replies[Venue[s]] : Step(s, "await", After(status))
    /\ UNCHANGED <<at, exec, amount, cause, Group>>

Reply(s) ==
    /\ at[s] = "accepted"
    /\ \E status \in Replies[Venue[s]] :
          /\ Truthful(status, exec[s])
          /\ Step(s, "await", After(status))
    /\ UNCHANGED <<at, exec, amount, cause, Group>>

(* HTTP status 400 and above.                                              *)
ReplyRefused(s) ==
    /\ at[s] = "refused"
    /\ Raise(s, "await", "refused")

(* The 30 s of the HTTP client are over, the connection broke, or the      *)
(* answer does not decode.  What became of the order is not known.         *)
LoseReply(s) == Raise(s, "await", "lost")

(* SubmitOrder of the mock exchange, under its mutex.                      *)
Register(s) ==
    /\ Venue[s] \notin Remote
    /\ \E status \in Replies[Venue[s]], executed \in 0 .. Amount :
          /\ Truthful(status, executed)
          /\ status = "partial" => executed < Amount
          /\ Step(s, "submit", After(status))
          /\ exec' = [exec EXCEPT ![s] = executed]
    /\ at' = [at EXCEPT ![s] = "accepted"]
    /\ UNCHANGED <<amount, cause, Group>>

(* OrderStatus tells how much is executed by now.                          *)
ReadStatus(s) ==
    /\ Step(s, "status", "append")
    /\ amount' = [amount EXCEPT ![s] = exec[s]]
    /\ UNCHANGED <<at, exec, cause, Group>>

(* Its error is dropped, and the fill keeps the amount of the order.       *)
StatusFails(s) ==
    /\ Venue[s] \in Remote
    /\ Step(s, "status", "append")
    /\ UNCHANGED <<at, exec, amount, cause, Group>>

AppendFill(s) ==
    /\ Step(s, "append", "done")
    /\ fills' = Append(fills, [order |-> s, amount |-> amount[s]])
    /\ UNCHANGED <<spawned, at, exec, amount, cause, err, cancelled, interrupted, ret>>

(* Mutant of Fail: the group keeps the latest error.                       *)
FailLatest(s) ==
    /\ Step(s, "failing", "done")
    /\ err' = [order |-> s, cause |-> cause[s]]
    /\ cancelled' = TRUE
    /\ UNCHANGED <<spawned, at, exec, amount, cause, fills, interrupted, ret>>

(* Mutant of Fail: a lost answer cancels the others and is not reported.   *)
FailUnlessLost(s) ==
    /\ Step(s, "failing", "done")
    /\ IF err = None
       THEN /\ err' = IF cause[s] = "lost" THEN None ELSE [order |-> s, cause |-> cause[s]]
            /\ cancelled' = TRUE
       ELSE UNCHANGED <<err, cancelled>>
    /\ UNCHANGED <<spawned, at, exec, amount, cause, fills, interrupted, ret>>

(* The goroutine returns its error to the group: the first one is kept and *)
(* cancels the others.                                                     *)
Fail(s) ==
    /\ Step(s, "failing", "done")
    /\ IF err = None
       THEN /\ err' = [order |-> s, cause |-> cause[s]]
            /\ cancelled' = TRUE
       ELSE UNCHANGED <<err, cancelled>>
    /\ UNCHANGED <<spawned, at, exec, amount, cause, fills, interrupted, ret>>

(* Mutant of Return: the goroutines are not waited for.                    *)
ReturnAtOnce ==
    /\ ret = "none"
    /\ spawned = N
    /\ ret' = IF err = None THEN "ok" ELSE "error"
    /\ cancelled' = TRUE
    /\ UNCHANGED <<spawned, pc, at, exec, amount, cause, fills, err, interrupted>>

(* Mutant of Return: the error of the group is dropped.                    *)
ReturnAlwaysOk ==
    /\ ret = "none"
    /\ spawned = N
    /\ \A s \in SubOrder : pc[s] = "done"
    /\ ret' = "ok"
    /\ cancelled' = TRUE
    /\ UNCHANGED <<spawned, pc, at, exec, amount, cause, fills, err, interrupted>>

(* g.Wait: all goroutines are joined, the context is released.             *)
Return ==
    /\ ret = "none"
    /\ spawned = N
    /\ \A s \in SubOrder : pc[s] = "done"
    /\ ret' = IF err = None THEN "ok" ELSE "error"
    /\ cancelled' = TRUE
    /\ UNCHANGED <<spawned, pc, at, exec, amount, cause, fills, err, interrupted>>

-----------------------------------------------------------------------------
(* The caller's context: SIGINT.                                            *)
Interrupt ==
    /\ ret = "none"
    /\ ~interrupted
    /\ interrupted' = TRUE
    /\ cancelled' = TRUE
    /\ UNCHANGED <<spawned, pc, at, exec, amount, cause, fills, err, ret>>

(* The remote venue acts on what is on the wire, whether or not anybody    *)
(* still waits for the answer.                                             *)
VenueDecides(s) ==
    /\ at[s] = "wire"
    /\ \E verdict \in {"accepted", "refused"} : at' = [at EXCEPT ![s] = verdict]
    /\ UNCHANGED <<pc, exec, amount, cause, Group>>

VenueExecutes(s) ==
    /\ Venue[s] \in Remote
    /\ at[s] = "accepted"
    /\ exec[s] < Amount
    /\ exec' = [exec EXCEPT ![s] = @ + 1]
    /\ UNCHANGED <<pc, at, amount, cause, Group>>

Goroutine(s) ==
    \/ Draw(s) \/ Wake(s) \/ Abort(s) \/ NotSent(s) \/ Send(s)
    \/ Reply(s) \/ ReplyRefused(s) \/ LoseReply(s)
    \/ Register(s) \/ ReadStatus(s) \/ StatusFails(s)
    \/ AppendFill(s) \/ Fail(s)

Environment(s) == VenueDecides(s) \/ VenueExecutes(s)

Next ==
    \/ Spawn \/ Return \/ Interrupt
    \/ \E s \in SubOrder : Goroutine(s) \/ Environment(s)

(* The Go scheduler runs every goroutine that can run; a wait on the wire  *)
(* ends because the client has a timeout.  Nothing is assumed of venues.   *)
Fairness ==
    /\ WF_vars(Spawn)
    /\ WF_vars(Return)
    /\ \A s \in SubOrder : WF_vars(Goroutine(s))

Spec == Init /\ [][Next]_vars /\ Fairness

-----------------------------------------------------------------------------
HasFill(s) == \E i \in DOMAIN fills : fills[i].order = s

Held(s) == at[s] = "accepted"

(* A fill is reported only for an order its venue accepted, and no order   *)
(* is reported twice, whatever the interleaving of the appends.            *)
FillsAreHeld ==
    /\ \A i \in DOMAIN fills : Held(fills[i].order)
    /\ \A i, j \in DOMAIN fills : fills[i].order = fills[j].order => i = j

(* Execute returns nil exactly when every sub-order was accepted and has   *)
(* its fill in the returned slice; otherwise its error tells that the      *)
(* slice is incomplete.                                                    *)
ResultMatchesFills ==
    ret # "none" => (ret = "ok" <=> \A s \in SubOrder : Held(s) /\ HasFill(s))

(* An order that a venue holds and that no fill reports, after its         *)
(* goroutine ended, is never passed over in silence: the group keeps an    *)
(* error, so the caller learns that something may be unaccounted for.      *)
NoSilentLoss ==
    \A s \in SubOrder :
        pc[s] = "done" /\ Held(s) /\ ~HasFill(s) => err # None

(* The error Execute reports is the one that started it all: a goroutine   *)
(* stopped by the cancellation that another's failure caused never gets    *)
(* its "context canceled" reported instead of that failure.                *)
RootCause == err # None /\ err.cause = "cancelled" => interrupted

(* Of an order at an in-process venue that did execute something, the      *)
(* fill reports exactly what was executed.                                 *)
LocalFillsAreExact ==
    \A i \in DOMAIN fills :
        LET s == fills[i].order
        IN  Venue[s] \notin Remote /\ exec[s] > 0 => fills[i].amount = exec[s]

(* Once Execute has returned, no goroutine of it is left: nothing further  *)
(* is sent, the slice the caller holds does not change under it, and what  *)
(* a venue still accepts was on the wire when Execute returned.            *)
QuietAfterReturn ==
    [][ret # "none" =>
          /\ UNCHANGED <<pc, fills, err, ret>>
          /\ \A s \in SubOrder : at'[s] # at[s] => at[s] = "wire"]_vars

(* "Fill represents a completed trade fill": an entry of the returned      *)
(* slice reports no more than its venue has executed.                      *)
FillsAreCompleted ==
    \A i \in DOMAIN fills : fills[i].amount <= exec[fills[i].order]

(* Execute is a placement: the sub-orders are its orders, those a venue    *)
(* holds are placed, those in allFills filled.                             *)
Promise == INSTANCE Placement WITH
    orders <- SubOrder,
    placed <- {s \in SubOrder : Held(s)},
    filled <- {s \in SubOrder : HasFill(s)},
    result <- ret

ImplementsPlacement == Promise!Spec
=============================================================================
