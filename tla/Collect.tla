------------------------------- MODULE Collect -------------------------------
(***************************************************************************)
(* What a call that cleans up owes, layered over Allocation: a delete, the *)
(* sweep of a list or create, and RemoveAllInstances take everything that  *)
(* was due when they began, whatever overlaps them.  The history variable  *)
(* doomed remembers what was due; dropping it gives Allocation back.       *)
(***************************************************************************)
EXTENDS Allocation

VARIABLE doomed \* history: the generations each process's call has to collect

collectVars == <<vars, doomed>>

\* Past both deadlines and without a running runner: abandoned, however a sweep
\* that starts now reads it.
PastGrace(g) ==
    /\ \A r \in Runners : r[1] = g => ~IsRunning(r)
    /\ \A r \in live : r[1] = g => age[r] >= InflightGrace
    /\ exitAge[g] = Never \/ exitAge[g] >= ExitedGrace

\* What call c of p for instance x has to collect if it starts now.
Due(p, c, x) ==
    {g \in used :
        /\ ControllerID[g] = ControllerOf[p]
        /\ ~Creating(g)
        /\ c = "delete" => InstanceName[g] = x
        /\ c \in {"list", "create"} => PastGrace(g)}

\* A step of p that fails or kills it.  A failed stop is no failure: the removal is
\* forced.
Fails(p) ==
    /\ mishaps' # mishaps
    /\ Acts(p) \/ names'[p] # names[p]
    /\ pc'[p] # "remove"

\* The call returns, or the create behind a sweep begins.
Finishes(p) == pc'[p] \in {"idle", "claim"}

\* No second generation was ever created under the instance name of g.
Alone(g) == \A h \in used : InstanceName[h] = InstanceName[g] => h = g

Remember ==
    LET owed(p) ==
          CASE Finishes(p) \/ Fails(p) -> {}
            [] ~Finishes(p) /\ ~Fails(p) /\ pc[p] = "idle" -> Due(p, call'[p], target'[p])
            [] OTHER -> doomed[p]
    IN doomed' = [p \in Proc |-> {g \in owed(p) : Alone(g)'}]

CollectInit == Init /\ doomed = [p \in Proc |-> {}]
CollectNext == Next /\ Remember
CollectSpec == CollectInit /\ [][CollectNext]_collectVars

FairCollectSpec == CollectSpec /\ Fairness

Gone(g) == \A r \in live : r[1] # g

\* A delete, sweep or RemoveAllInstances that meets no failure leaves nothing of
\* what was due when it began: of the generation under its name, of those past
\* the deadlines, of those of its controller.  Creates in progress apart, and
\* whatever overlapping calls start, remove or leave behind meanwhile
\* (TeardownAllocation, SweepOrphans, RemoveAllInstances).  It says so of names that
\* were used once (Alone, in Remember): the second generation of a name may be captured,
\* judged or spared in place of the first.
CollectsWhatIsDue ==
    [][\A p \in Proc : Finishes(p) /\ ~Fails(p) =>
         \A g \in doomed[p] : Gone(g)']_collectVars

-----------------------------------------------------------------------------
(* The inductive invariant. *)

\* What there is of a generation among some resources.
LeftOf(g, rs) == {r \in live \cap rs : r[1] = g}

\* Nobody adds to g any more, and its name and controller are those p works for.
Bound(p, g) ==
    /\ g \in used
    /\ ControllerID[g] = ControllerOf[p]
    /\ ~Creating(g)
    /\ CASE call[p] = "delete"    -> /\ pc[p] \in DeletePC \cup TeardownPC
                                     /\ target[p] = InstanceName[g]
                                     /\ pc[p] \in TeardownPC =>
                                          mode[p] = "generation" /\ cur[p] = target[p]
         [] call[p] = "removeall" -> pc[p] \in TeardownPC /\ mode[p] = "all"
         [] OTHER                 -> /\ call[p] \in {"list", "create"}
                                     /\ pc[p] \in SweepPC \cup TeardownPC
                                     /\ pc[p] \in TeardownPC => mode[p] = "generation"
                                     /\ PastGrace(g)
                                     /\ \A r \in noted[p] : r[1] = g => age[r] >= InflightGrace

\* The teardown p is in selects g.
Selects(p, g) == pc[p] \in TeardownPC /\ (mode[p] = "all" \/ cur[p] = InstanceName[g])

\* Whatever is left of g has its list to come, is on the list or in hand.
InTeardown(p, g) ==
    LET listed == todo[p] \cup {hand[p]} IN
    /\ pc[p] # "remove" /\ ~ReadsLiveClaim(p) => hand[p] = None
    /\ pc[p] \in {"containers", "remove"} =>
         LeftOf(g, Containers) \subseteq listed /\ listed \subseteq Containers \cup {None}
    /\ pc[p] \in {"volumes", "networks"} => LeftOf(g, Containers) = {}
    /\ pc[p] = "volumes" => LeftOf(g, Volumes) \subseteq listed
    /\ pc[p] = "networks" => LeftOf(g, Volumes) = {} /\ LeftOf(g, Networks) \subseteq listed
    /\ mode[p] = "generation" /\ pc[p] # "capture" /\ captured[p] # g =>
         captured[p] = None /\ Claim(g) \notin live

\* Whatever is left of g has its list to come or was noted.
InSweep(p, g) ==
    /\ pc[p] = "sweepNetworks" => LeftOf(g, Containers) \subseteq noted[p]
    /\ pc[p] = "sweepVolumes" => LeftOf(g, Containers \cup Networks) \subseteq noted[p]
    /\ pc[p] = "inspect" => LeftOf(g, Resource) \subseteq noted[p]

InResolve(p, g) ==
    /\ pc[p] \in {"resolveNetworks", "resolveVolumes"} => LeftOf(g, Containers) = {}
    /\ pc[p] = "resolveVolumes" => LeftOf(g, Networks) = {}

\* The sweep has the name before it, is at it, or found and left nothing.
Reaches(p, g) ==
    \/ pc[p] = "enumerate"
    \/ InstanceName[g] \in names[p]
    \/ pc[p] # "sweep" /\ cur[p] = InstanceName[g]
    \/ LeftOf(g, Resource) = {}

OnTheWay(p, g) ==
    /\ Selects(p, g) => InTeardown(p, g)
    /\ InResolve(p, g)
    /\ cur[p] = InstanceName[g] => InSweep(p, g)
    /\ call[p] \in {"list", "create"} => Reaches(p, g)

\* Every call is still bound to collect what it is bound to, and nothing of that has
\* slipped past it (TeardownAllocation, SweepOrphans, resolveInstanceName).
CollectInv ==
    \A p \in Proc : \A g \in doomed[p] : Alone(g) /\ Bound(p, g) /\ OnTheWay(p, g)
=============================================================================
