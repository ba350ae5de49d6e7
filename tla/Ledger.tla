------------------------------- MODULE Ledger -------------------------------
(***************************************************************************)
(* What the buyback process promises about its orders, across cycles,      *)
(* restarts and failures, and nothing of how.  Orders are given out in     *)
(* batches, one per call of Router.Execute.  A venue may come to hold an   *)
(* order that was given, at any time.  An order that is held is recorded   *)
(* as filled, once; a batch of which something will be missing is lost.    *)
(* No batch is given out while the books of an earlier one are open, and   *)
(* no books stay open for ever.                                            *)
(*                                                                         *)
(* Engine.tla implements this.                                             *)
(***************************************************************************)
EXTENDS Integers

CONSTANT Order      \* the orders; o.call is the batch that o belongs to

VARIABLES
    given,      \* the orders given out
    held,       \* those that venues hold
    recorded,   \* those with a fill in the tables
    lost        \* the batches whose records are incomplete

vars == <<given, held, recorded, lost>>

Init == given = {} /\ held = {} /\ recorded = {} /\ lost = {}

Settled(o) == o \in recorded \/ o.call \in lost

(* One batch may be open, and is closed before the next is given out.      *)
Give ==
    /\ \A o \in given : Settled(o)
    /\ \E batch \in SUBSET (Order \ given) :
          /\ \A o, p \in batch : o.call = p.call
          /\ \A o \in batch, p \in given : o.call # p.call
          /\ given' = given \cup batch
    /\ UNCHANGED <<held, recorded, lost>>

Take ==
    /\ \E o \in given \ held : held' = held \cup {o}
    /\ UNCHANGED <<given, recorded, lost>>

Record ==
    /\ \E o \in held \ recorded : recorded' = recorded \cup {o}
    /\ UNCHANGED <<given, held, lost>>

(* Only a batch that is not complete can be lost.                          *)
Lose ==
    /\ \E o \in given \ recorded : lost' = lost \cup {o.call}
    /\ UNCHANGED <<given, held, recorded>>

Next == Give \/ Take \/ Record \/ Lose

Safety == Init /\ [][Next]_vars

Closed == \A o \in given : Settled(o)

Closes == ~Closed ~> Closed

Spec == Safety /\ Closes
=============================================================================
