----------------------------- MODULE Housekeeping -----------------------------
(***************************************************************************)
(* The cache GC beside the creates whose helpers it may meet: the reaping  *)
(* of leaked helpers by state and age, and the prune of a diagnostic-log   *)
(* volume by a helper of its own (internal/provider/gc.go,                 *)
(* internal/topology/gc.go, internal/spec/cache.go, spec/diag.go).         *)
(*                                                                         *)
(* Module CacheVolume lets a helper be reaped once nobody waits for it.    *)
(* The code cannot know that: it looks at the state of the container and   *)
(* at the age its label tells.  This module has the label, the clock and   *)
(* the passes, and shows that it still does what CacheVolume says.         *)
(***************************************************************************)
EXTENDS Integers, FiniteSets

CONSTANTS
    Attempt, MaxSlots, SquattersLeave, None,  \* as in CacheVolume
    Pass,           \* provider processes that run the cache GC, again and again
    Unlucky,        \* those that can be killed and whose calls can fail
    Pruner,         \* those that win a round of the diag prune
    Stuck,          \* old leaked helpers that the daemon refuses to remove
    Repo,           \* repositories a diag volume can belong to
    Foreign,        \* the labels of any other volume, or none
    ReapMax,        \* helperReapMax
    TerminalGrace,  \* helperTerminalGrace
    SeedTimeout,    \* externalsSeedTimeout
    PruneTimeout,   \* diagPruneTimeout
    RunningMaxAge,  \* helperRunningMaxAge
    Lag             \* how late a process notices that its context has ended

VARIABLES
    vol, lock, pc, slot, helper, runner,  \* as in CacheVolume
    age,    \* of each helper, by its created-at label; RunningMaxAge and more is one
    diag,   \* whose labels the diag volume of the host carries, or None
    gpc,    \* where each pass is
    todo,   \* the helpers it has listed and found reapable
    count,  \* how many it has reaped
    snap,   \* the repository of the diag volume it listed
    prune   \* its prune helper

Cache == INSTANCE CacheVolume WITH Faults <- TRUE

\* A seed helper has the name of its create, a prune helper that of its pass.
HelperId == Attempt \cup Pass

ASSUME HousekeepingAssumption ==
    /\ MaxSlots \in Nat \ {0}
    /\ SquattersLeave \in BOOLEAN
    /\ None \notin Cache!Volume \cup Attempt \cup Repo
    /\ Foreign \notin Repo \cup {None}
    /\ Attempt \cap Pass = {}
    /\ (Attempt \cup Pass) \cap Stuck = {}
    /\ Unlucky \subseteq Pass /\ Pruner \subseteq Pass
    /\ ReapMax \in Nat \ {0}
    /\ {TerminalGrace, SeedTimeout, PruneTimeout, RunningMaxAge, Lag} \subseteq Nat
    /\ SeedTimeout + Lag < RunningMaxAge
    /\ PruneTimeout <= SeedTimeout

cacheVars == <<vol, lock, pc, slot, helper, runner>>
passVars == <<diag, gpc, todo, count, snap, prune>>
vars == <<vol, lock, pc, slot, helper, runner, age, diag, gpc, todo, count, snap, prune>>

PassPC == {"idle", "reap", "diag", "create", "check", "start", "wait", "unpin"}
AwaitsPrune == {"check", "start", "wait"}

TypeOK ==
    /\ Cache!TypeOK
    /\ age \in [HelperId -> 0 .. RunningMaxAge]
    /\ diag \in Repo \cup {Foreign, None}
    /\ gpc \in [Pass -> PassPC]
    /\ todo \in [Pass -> SUBSET (HelperId \cup Stuck)]
    /\ count \in [Pass -> 0 .. ReapMax - 1]
    /\ snap \in [Pass -> Repo \cup {None}]
    /\ prune \in [Pass -> {"none", "created", "running", "exited", "gone"}]

Init ==
    /\ Cache!Init
    /\ age = [h \in HelperId |-> 0]
    /\ diag = None
    /\ gpc = [q \in Pass |-> "idle"]
    /\ todo = [q \in Pass |-> {}]
    /\ count = [q \in Pass |-> 0]
    /\ snap = [q \in Pass |-> None]
    /\ prune = [q \in Pass |-> "none"]

Goto(q, l) == gpc' = [gpc EXCEPT ![q] = l]

-----------------------------------------------------------------------------
(* Helpers as the reaper sees them. *)

Alive(h) ==
    \/ h \in Attempt /\ helper[h] \in {"created", "running", "copying", "copied"}
    \/ h \in Pass /\ prune[h] \in {"created", "running"}

Terminal(h) ==
    \/ h \in Attempt /\ helper[h] \in {"exited", "broken"}
    \/ h \in Pass /\ prune[h] = "exited"

Exists(h) == Alive(h) \/ Terminal(h)

\* Its process is in runHelperContainer, between the create and the deferred removal.
Awaited(h) ==
    \/ h \in Attempt /\ pc[h] \in Cache!AwaitsHelper
    \/ h \in Pass /\ gpc[h] \in AwaitsPrune

\* Mutants: the state is not looked at; a helper is wedged once the seed has timed out.
ReapableByAge(h) == Exists(h) /\ age[h] >= TerminalGrace
ReapableAtTimeout(h) ==
    \/ Alive(h) /\ age[h] >= SeedTimeout
    \/ Terminal(h) /\ age[h] >= TerminalGrace

\* helperReapable.  The helpers of the code all carry a created-at that parses.
Reapable(h) ==
    \/ Alive(h) /\ age[h] >= RunningMaxAge
    \/ Terminal(h) /\ age[h] >= TerminalGrace

\* The age of a helper goes with it.
Aging == age' = [h \in HelperId |-> IF Exists(h)' THEN age[h] ELSE 0]

-----------------------------------------------------------------------------
(* The creates of CacheVolume, their helpers aged by the label. *)

\* The label is stamped and the context of the run begins before the create call: when
\* the container is there it can be as old as the context allows.
SeedBegins(a) ==
    /\ \/ Cache!CreateHelper(a)
       \/ Cache!HelperCreateLost(a)
    /\ \E t \in 0 .. SeedTimeout : age' = [age EXCEPT ![a] = t]
    /\ UNCHANGED passVars

\* What a create, its containers and the rest of the host do, but for the reaping, which
\* is done by passes.
CacheStep ==
    /\ \/ \E a \in Attempt :
            \/ Cache!Discover(a) \/ Cache!EnsureSlot(a) \/ Cache!CheckHelperVolume(a)
            \/ Cache!StartHelper(a) \/ Cache!WaitHelper(a) \/ Cache!RemoveHelper(a)
            \/ Cache!CreateRunner(a) \/ Cache!Revalidate(a) \/ Cache!DropRunner(a)
            \/ Cache!StartRunner(a) \/ Cache!SeedScript(a) \/ Cache!HelperBreaks(a)
            \/ Cache!PassGate(a) \/ Cache!RunnerExits(a) \/ Cache!RemoveRunner(a)
            \/ Cache!CallFails(a) \/ Cache!Killed(a)
       \/ \E s \in Cache!Slot :
            Cache!OperatorPrunes(s) \/ Cache!SquatterComes(s) \/ Cache!SquatterLeaves(s)
    /\ UNCHANGED passVars
    /\ Aging

\* The context of runHelperContainer ends: ContainerWait, or whatever call it is in,
\* comes back with an error.
SeedExpires(a) ==
    /\ age[a] >= SeedTimeout
    /\ pc[a] \in Cache!AwaitsHelper
    /\ Cache!CallFails(a)
    /\ UNCHANGED <<age, passVars>>

\* A process whose context has ended leaves runHelperContainer within Lag.
Tick ==
    /\ \A a \in Attempt : pc[a] \in Cache!AwaitsHelper => age[a] < SeedTimeout + Lag
    /\ \A q \in Pass : gpc[q] \in AwaitsPrune => age[q] < PruneTimeout + Lag
    /\ age' = [h \in HelperId |->
                 IF Exists(h) /\ age[h] < RunningMaxAge THEN age[h] + 1 ELSE age[h]]
    /\ UNCHANGED <<cacheVars, passVars>>

-----------------------------------------------------------------------------
(* reapLeakedHelpers. *)

\* The pass goes on when the list is done or the cap is reached.  A bound: every pruner
\* has one prune helper.
ReapingEnds(q) ==
    /\ Goto(q, IF q \in Pruner /\ prune[q] = "none" THEN "diag" ELSE "idle")
    /\ todo' = [todo EXCEPT ![q] = {}]
    /\ count' = [count EXCEPT ![q] = 0]

\* ContainerList; what is reapable is decided from the listed state and the age.  The
\* helpers that cannot be removed are past every age.  A failed list ends the reaping.
ListHelpers(q) ==
    /\ gpc[q] = "idle"
    /\ LET list == {h \in HelperId : Reapable(h)} \cup Stuck
       IN  \/ /\ list # {}
              /\ todo' = [todo EXCEPT ![q] = list]
              /\ Goto(q, "reap")
              /\ UNCHANGED count
           \/ /\ list = {} \/ q \in Unlucky
              /\ ReapingEnds(q)
    /\ UNCHANGED <<cacheVars, age, diag, snap, prune>>

\* The container of that ID is removed by force, whatever it does by now.  After the last
\* prune the diag volume is of no interest: it is forgotten.
Removed(h) ==
    /\ IF h \in Attempt
       THEN Cache!HelperGone(h) /\ UNCHANGED <<diag, snap, prune>>
       ELSE /\ prune' = [prune EXCEPT ![h] = "gone"]
            /\ snap' = [snap EXCEPT ![h] = None]
            /\ diag' = IF \A q \in Pruner : prune'[q] = "gone" THEN None ELSE diag
            /\ UNCHANGED <<helper, lock>>
    /\ UNCHANGED <<vol, pc, slot, runner>>

LeftAlone == UNCHANGED <<cacheVars, diag, snap, prune>>

\* Mutant: a removal that fails counts as well.
CountsFailures(q, h) == count[q] + 1

\* A removal that fails is not counted, one that finds nothing is.
Counted(q, h) == IF h \in Stuck THEN count[q] ELSE count[q] + 1

\* Mutant: one helper too many.
OneTooMany(n) == n > ReapMax

CapReached(n) == n >= ReapMax

Reap(q, h) ==
    /\ gpc[q] = "reap" /\ h \in todo[q]
    /\ IF todo[q] = {h} \/ CapReached(Counted(q, h))
       THEN ReapingEnds(q)
       ELSE /\ todo' = [todo EXCEPT ![q] = @ \ {h}]
            /\ count' = [count EXCEPT ![q] = Counted(q, h)]
            /\ UNCHANGED gpc
    /\ IF Exists(h) THEN Removed(h) ELSE LeftAlone
    /\ Aging

-----------------------------------------------------------------------------
(* pruneDiagVolumes, for one diag volume. *)

\* ListDiagVolumes: a diag volume of this controller that has its full identity.
Listed(d) == d \in Repo

\* The volume is listed, then the round is claimed.  Nothing to prune, no image or no
\* round: the pass is over.
ListDiag(q) ==
    /\ gpc[q] = "diag"
    /\ \/ /\ Listed(diag)
          /\ snap' = [snap EXCEPT ![q] = diag]
          /\ Goto(q, "create")
       \/ /\ q \in Unlucky \/ ~Listed(diag)
          /\ Goto(q, "idle")
          /\ UNCHANGED snap
    /\ UNCHANGED <<cacheVars, age, diag, todo, count, prune>>

\* The prune helper pins the volume of that name, a bare one if it has gone.  The answer
\* can be lost: then nobody removes the helper.
CreatePrune(q) ==
    /\ gpc[q] = "create"
    /\ prune' = [prune EXCEPT ![q] = "created"]
    /\ diag' = IF diag = None THEN Foreign ELSE diag
    /\ \E t \in 0 .. PruneTimeout : age' = [age EXCEPT ![q] = t]
    /\ \/ Goto(q, "check")
       \/ q \in Unlucky /\ Goto(q, "idle")
    /\ UNCHANGED <<cacheVars, todo, count, snap>>

\* Mutant: a diag volume of this controller is good enough.
CheckPruneKind(q) ==
    /\ gpc[q] = "check"
    /\ Goto(q, IF diag \in Repo THEN "start" ELSE "unpin")
    /\ UNCHANGED <<cacheVars, age, diag, todo, count, snap, prune>>

\* ValidateDiagPruneTarget: the volume pinned has the repository that was listed.
CheckPrune(q) ==
    /\ gpc[q] = "check"
    /\ Goto(q, IF diag = snap[q] THEN "start" ELSE "unpin")
    /\ UNCHANGED <<cacheVars, age, diag, todo, count, snap, prune>>

StartPrune(q) ==
    /\ gpc[q] = "start"
    /\ IF prune[q] = "created"
       THEN prune' = [prune EXCEPT ![q] = "running"] /\ Goto(q, "wait")
       ELSE UNCHANGED prune /\ Goto(q, "unpin")
    /\ UNCHANGED <<cacheVars, age, diag, todo, count, snap>>

\* find -delete comes to its end.
PruneWorks(q) ==
    /\ prune[q] = "running"
    /\ prune' = [prune EXCEPT ![q] = "exited"]
    /\ UNCHANGED <<cacheVars, age, diag, gpc, todo, count, snap>>

WaitPrune(q) ==
    /\ gpc[q] = "wait"
    /\ prune[q] \in {"exited", "gone"}
    /\ Goto(q, "unpin")
    /\ UNCHANGED <<cacheVars, age, diag, todo, count, snap, prune>>

\* The timeout, or a call that fails.
PruneFails(q) ==
    /\ gpc[q] \in AwaitsPrune
    /\ age[q] >= PruneTimeout \/ q \in Unlucky
    /\ Goto(q, "unpin")
    /\ UNCHANGED <<cacheVars, age, diag, todo, count, snap, prune>>

\* The deferred removal, under a context of its own.
RemovePrune(q) ==
    /\ gpc[q] = "unpin"
    /\ Goto(q, "idle")
    /\ \/ Removed(q)
       \/ q \in Unlucky /\ LeftAlone
    /\ UNCHANGED <<todo, count>>
    /\ Aging

PassDies(q) ==
    /\ q \in Unlucky
    /\ gpc[q] # "idle"
    /\ Goto(q, "idle")
    /\ todo' = [todo EXCEPT ![q] = {}]
    /\ count' = [count EXCEPT ![q] = 0]
    /\ UNCHANGED <<cacheVars, age, diag, snap, prune>>

\* The volume of that name changes hands while no container mounts it: an operator
\* prunes it, an allocation or anybody else makes it.  That matters while a pass is about
\* to list or to pin it.
DiagChanges ==
    /\ \A q \in Pass : prune[q] \in {"none", "gone"}
    /\ \E q \in Pruner : gpc[q] \in {"diag", "create"}
    /\ IF diag = None THEN diag' \in Repo \cup {Foreign} ELSE diag' = None
    /\ UNCHANGED <<cacheVars, age, gpc, todo, count, snap, prune>>

-----------------------------------------------------------------------------

PassStep(q) ==
    \/ ListHelpers(q) \/ (\E h \in HelperId \cup Stuck : Reap(q, h))
    \/ ListDiag(q) \/ CreatePrune(q) \/ CheckPrune(q) \/ StartPrune(q)
    \/ WaitPrune(q) \/ PruneFails(q) \/ RemovePrune(q)

Next ==
    \/ \E a \in Attempt : SeedBegins(a) \/ SeedExpires(a)
    \/ \E q \in Pass : PassStep(q) \/ PruneWorks(q) \/ PassDies(q)
    \/ CacheStep \/ Tick \/ DiagChanges

Spec == Init /\ [][Next]_vars

\* Time goes on, contexts end, and passes come again: GARM lists its instances for ever.
Fairness ==
    /\ WF_vars(Tick)
    /\ \A a \in Attempt : WF_vars(SeedExpires(a))
    /\ \A q \in Pass : WF_vars(PassStep(q))

FairSpec == Spec /\ Fairness

-----------------------------------------------------------------------------
(* Properties. *)

\* Judged by state and age alone, the reaping takes only helpers that CacheVolume lets
\* go: whatever the passes do, the caches and the creates behave as that module says.
CacheSpec == Cache!Spec

\* No pass takes a helper that may still work from the process that waits for it
\* (helperReapable: "a live peer's helper is never raced").
SparesAwaited ==
    [][\A h \in HelperId : Alive(h) /\ Awaited(h) => Exists(h)']_vars

\* find -delete runs on the volume that was listed, never on one of the same name that
\* came after it (pruneDiagVolume, afterCreate).
PrunesWhatItListed == \A q \in Pass : prune[q] = "running" => diag = snap[q]

\* A helper nobody waits for is removed in the end, as long as some pass is lucky and the
\* daemon can remove it, however many helpers it cannot remove come first.  Helpers are
\* made finitely often, so in the end there are only those somebody waits for.
LeakedHelpersGo == <>[](\A h \in HelperId : Exists(h) => Awaited(h))
===============================================================================
