------------------------------ MODULE NameClaim ------------------------------
(***************************************************************************)
(* What allocations promise about instance names, without processes,       *)
(* daemon calls or failures: the claim of a name is a lock.  A generation  *)
(* takes it once at most, while nobody else of that name holds it, and     *)
(* only the create that drew a generation adds to it, never after that     *)
(* create ended.  Module Allocation implements it with networks, labels    *)
(* and nonces.                                                             *)
(***************************************************************************)

CONSTANTS
    Gen,          \* generations
    InstanceName  \* the name each is for

VARIABLES
    phase,     \* of each generation: "fresh", "held" or "spent"
    open,      \* the generations whose create is at work
    equipped   \* the generations that have resources besides the claim

Init ==
    /\ phase = [g \in Gen |-> "fresh"]
    /\ open = {}
    /\ equipped = {}

\* A create draws a generation, and gets the name with it or does not.
Draw(g, to) ==
    /\ phase[g] = "fresh"
    /\ phase' = [phase EXCEPT ![g] = to]
    /\ open' = open \cup {g}
    /\ UNCHANGED equipped

Acquire(g) ==
    /\ Draw(g, "held")
    /\ \A h \in Gen : phase[h] = "held" => InstanceName[h] # InstanceName[g]

\* The name was taken, or the call failed: this generation never gets it.
Waste(g) == Draw(g, "spent")

\* The step may be the last one of the create.
MayEnd(g) == open' \in {open, open \ {g}}

\* By the create itself or by a teardown, which does not wait for the create.
Release(g) ==
    /\ phase[g] = "held"
    /\ phase' = [phase EXCEPT ![g] = "spent"]
    /\ MayEnd(g)
    /\ UNCHANGED equipped

\* A create whose claim was taken from it can still add to what it has.
Equip(g) ==
    /\ g \in open
    /\ equipped' = equipped \cup {g}
    /\ MayEnd(g)
    /\ UNCHANGED phase

Strip(g) ==
    /\ equipped' = equipped \ {g}
    /\ UNCHANGED <<phase, open>>

\* Done, failed or killed: nobody adds to this generation any more.
End(g) ==
    /\ open' = open \ {g}
    /\ UNCHANGED <<phase, equipped>>

Next == \E g \in Gen : Strip(g) \/ End(g) \/ Equip(g) \/ Release(g) \/ Acquire(g) \/ Waste(g)

Spec == Init /\ [][Next]_<<phase, open, equipped>>
===============================================================================
