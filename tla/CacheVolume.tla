----------------------------- MODULE CacheVolume -----------------------------
(***************************************************************************)
(* One cache of the host and the creates that use it: EnsureCacheVolume,   *)
(* the externals seed, the revalidation of what the runner pins, and the   *)
(* runner's wait for the seed marker (internal/topology/cache.go,          *)
(* internal/provider/cache.go, externals.go, gc.go, create.go,             *)
(* runner-images/common/entrypoint.sh).                                    *)
(*                                                                         *)
(* A cache is its label set; a name is only a slot.  Slot 1 is the         *)
(* preferred name, slot n + 1 the alternate of attempt n.  An operator can *)
(* prune labelled volumes that no container mounts, and anybody can put a  *)
(* volume of his own at a free name.  The cache modelled is the externals  *)
(* volume; a toolcache, pnpm or diag volume goes the same way without the  *)
(* seed.                                                                   *)
(***************************************************************************)
EXTENDS Integers, FiniteSets

CONSTANTS
    Attempt,        \* creates; each is one process
    MaxSlots,       \* maxCacheReconcileAttempts
    Faults,         \* whether calls fail, time out, and processes are killed
    SquattersLeave, \* whether a foreign volume can be removed again
    None            \* no volume, no holder

Slot == 1 .. MaxSlots
Data == {"empty", "part", "whole"}
Volume == [ours : BOOLEAN, data : Data, mark : BOOLEAN]

ASSUME CacheAssumption ==
    /\ MaxSlots \in Nat \ {0}
    /\ Faults \in BOOLEAN
    /\ SquattersLeave \in BOOLEAN
    /\ None \notin Volume \cup Attempt

VARIABLES
    vol,     \* the volume at each slot, or None
    lock,    \* who holds the flock in the volume of each slot
    pc,      \* where each create is
    slot,    \* the slot it settled on, or tries
    helper,  \* its seed container
    runner   \* its runner container

vars == <<vol, lock, pc, slot, helper, runner>>

PC == {"discover", "ensure", "seed", "check", "startHelper", "wait", "unpin", "abort",
       "runner", "revalidate", "dropRunner", "start", "done", "failed", "killed"}
Helper == {"none", "created", "running", "copying", "copied", "exited", "broken"}
Runner == {"none", "created", "waiting", "running", "exited"}

TypeOK ==
    /\ vol \in [Slot -> Volume \cup {None}]
    /\ lock \in [Slot -> Attempt \cup {None}]
    /\ pc \in [Attempt -> PC]
    /\ slot \in [Attempt -> Slot]
    /\ helper \in [Attempt -> Helper]
    /\ runner \in [Attempt -> Runner]

Init ==
    /\ vol = [s \in Slot |-> None]
    /\ lock = [s \in Slot |-> None]
    /\ pc = [a \in Attempt |-> "discover"]
    /\ slot = [a \in Attempt |-> 1]
    /\ helper = [a \in Attempt |-> "none"]
    /\ runner = [a \in Attempt |-> "none"]

Goto(a, l) == pc' = [pc EXCEPT ![a] = l]

NewCache == [ours |-> TRUE, data |-> "empty", mark |-> FALSE]
Bare == [ours |-> FALSE, data |-> "empty", mark |-> FALSE]

\* ValidateAdoptedCacheVolume.
Ours(s) == vol[s] # None /\ vol[s].ours

\* A container, running or not, references the volume of this slot.
Pinned(s) == \E a \in Attempt : slot[a] = s /\ (helper[a] # "none" \/ runner[a] # "none")

\* A create of a container that mounts slot s: a missing volume is re-created, bare.
Pin(s) == vol' = IF vol[s] = None THEN [vol EXCEPT ![s] = Bare] ELSE vol

-----------------------------------------------------------------------------
(* EnsureCacheVolume. *)

\* discoverCacheByIdentity: a hit at any name; the smallest if there are several.
Discover(a) ==
    /\ pc[a] = "discover"
    /\ \/ /\ \A s \in Slot : ~Ours(s)
          /\ Goto(a, "ensure")
          /\ UNCHANGED slot
       \/ \E s \in Slot :
            /\ Ours(s) /\ \A t \in 1 .. s - 1 : ~Ours(t)
            /\ slot' = [slot EXCEPT ![a] = s]
            /\ Goto(a, "seed")
    /\ UNCHANGED <<vol, lock, helper, runner>>

\* VolumeCreate answers with the volume of that name, whoever made it.  An occupied
\* slot is left alone and the next alternate tried; after the last one the
\* allocation fails.
Occupied(s) == vol[s] # None /\ ~Ours(s)

\* Mutants: the last alternate is never tried; one too many is.
GivesUpEarly(a) == slot[a] >= MaxSlots - 1
GivesUpLate(a) == slot[a] > MaxSlots

GivesUp(a) == slot[a] >= MaxSlots

\* Mutant: the suffix of the alternate name is drawn at random.
AnyAlternate(s) == s + 1 .. MaxSlots

\* AlternateCacheVolumeName: the same for every process.
Alternate(s) == {s + 1}

EnsureSlot(a) ==
    /\ pc[a] = "ensure"
    /\ \/ /\ ~Occupied(slot[a])
          /\ vol' = IF vol[slot[a]] = None THEN [vol EXCEPT ![slot[a]] = NewCache] ELSE vol
          /\ Goto(a, "seed")
          /\ UNCHANGED slot
       \/ /\ Occupied(slot[a]) /\ ~GivesUp(a)
          /\ \E t \in Alternate(slot[a]) : slot' = [slot EXCEPT ![a] = t]
          /\ UNCHANGED <<vol, pc>>
       \/ /\ Occupied(slot[a]) /\ GivesUp(a)
          /\ Goto(a, "failed")
          /\ UNCHANGED <<vol, slot>>
    /\ UNCHANGED <<lock, helper, runner>>

-----------------------------------------------------------------------------
(* seedExternals and runHelperContainer. *)

\* The helper pins the volume; afterCreate then looks at what it pinned.
CreateHelper(a) ==
    /\ pc[a] = "seed"
    /\ Pin(slot[a])
    /\ helper' = [helper EXCEPT ![a] = "created"]
    /\ Goto(a, "check")
    /\ UNCHANGED <<lock, slot, runner>>

\* The call fails on the client and the daemon makes the container all the same: nobody
\* has its ID, so no deferred removal takes it away.
HelperCreateLost(a) ==
    /\ Faults
    /\ pc[a] = "seed"
    /\ Pin(slot[a])
    /\ helper' = [helper EXCEPT ![a] = "created"]
    /\ Goto(a, "failed")
    /\ UNCHANGED <<lock, slot, runner>>

\* Mutant: the helper runs on whatever volume it pinned.
CheckNothing(a) ==
    /\ pc[a] = "check"
    /\ Goto(a, "startHelper")
    /\ UNCHANGED <<vol, lock, slot, helper, runner>>

CheckHelperVolume(a) ==
    /\ pc[a] = "check"
    /\ Goto(a, IF Ours(slot[a]) THEN "startHelper" ELSE "abort")
    /\ UNCHANGED <<vol, lock, slot, helper, runner>>

\* ContainerStart of the helper.
StartHelper(a) ==
    /\ pc[a] = "startHelper"
    /\ helper[a] = "created"
    /\ helper' = [helper EXCEPT ![a] = "running"]
    /\ Goto(a, "wait")
    /\ UNCHANGED <<vol, lock, slot, runner>>

\* ContainerWait: an exit code of 0 is the only success.
WaitHelper(a) ==
    /\ pc[a] = "wait"
    /\ helper[a] \in {"exited", "broken", "none"}
    /\ Goto(a, IF helper[a] = "exited" THEN "unpin" ELSE "abort")
    /\ UNCHANGED <<vol, lock, slot, helper, runner>>

\* A helper that goes takes its lock with it.
HelperGone(a) ==
    /\ helper' = [helper EXCEPT ![a] = "none"]
    /\ lock' = [s \in Slot |-> IF lock[s] = a THEN None ELSE lock[s]]

\* The deferred force-removal.  Its failure is only logged.
RemoveHelper(a) ==
    /\ pc[a] \in {"unpin", "abort"}
    /\ Goto(a, IF pc[a] = "unpin" THEN "runner" ELSE "failed")
    /\ \/ HelperGone(a)
       \/ Faults /\ UNCHANGED <<helper, lock>>
    /\ UNCHANGED <<vol, slot, runner>>

(* externalsSeedScript, run by the helper whatever becomes of its provider. *)

\* flock, then the marker decides.
TakeLock(a) ==
    /\ helper[a] = "running"
    /\ lock[slot[a]] = None
    /\ IF vol[slot[a]].mark
       THEN /\ helper' = [helper EXCEPT ![a] = "exited"]
            /\ UNCHANGED <<vol, lock>>
       ELSE /\ helper' = [helper EXCEPT ![a] = "copying"]
            /\ lock' = [lock EXCEPT ![slot[a]] = a]
            /\ vol' = [vol EXCEPT ![slot[a]].data = "part"]
    /\ UNCHANGED <<pc, slot, runner>>

CopyDone(a) ==
    /\ helper[a] = "copying"
    /\ helper' = [helper EXCEPT ![a] = "copied"]
    /\ vol' = [vol EXCEPT ![slot[a]].data = "whole"]
    /\ UNCHANGED <<lock, pc, slot, runner>>

\* Mutant: the marker is written where the image has its externals.
WriteMarkerElsewhere(a) ==
    /\ helper[a] = "copied"
    /\ helper' = [helper EXCEPT ![a] = "exited"]
    /\ lock' = [lock EXCEPT ![slot[a]] = None]
    /\ UNCHANGED <<vol, pc, slot, runner>>

\* The marker is the last thing written.
WriteMarker(a) ==
    /\ helper[a] = "copied"
    /\ vol' = [vol EXCEPT ![slot[a]].mark = TRUE]
    /\ helper' = [helper EXCEPT ![a] = "exited"]
    /\ lock' = [lock EXCEPT ![slot[a]] = None]
    /\ UNCHANGED <<pc, slot, runner>>

\* sh -e ends the script at the first failure; the daemon or the kernel can kill it.
HelperBreaks(a) ==
    /\ Faults
    /\ helper[a] \in {"running", "copying", "copied"}
    /\ helper' = [helper EXCEPT ![a] = "broken"]
    /\ lock' = [s \in Slot |-> IF lock[s] = a THEN None ELSE lock[s]]
    /\ UNCHANGED <<vol, pc, slot, runner>>

\* reapLeakedHelpers: a helper that ended, or one so old that its provider cannot be
\* waiting for it any more (helperRunningMaxAge exceeds externalsSeedTimeout).
AwaitsHelper == {"check", "startHelper", "wait"}

ReapHelper(a) ==
    /\ Faults
    /\ \/ helper[a] \in {"exited", "broken"}
       \/ helper[a] # "none" /\ pc[a] \notin AwaitsHelper
    /\ HelperGone(a)
    /\ UNCHANGED <<vol, pc, slot, runner>>

-----------------------------------------------------------------------------
(* The runner. *)

CreateRunner(a) ==
    /\ pc[a] = "runner"
    /\ Pin(slot[a])
    /\ runner' = [runner EXCEPT ![a] = "created"]
    /\ Goto(a, "revalidate")
    /\ UNCHANGED <<lock, slot, helper>>

\* Mutant: what the ensure found is trusted.
TrustEnsure(a) ==
    /\ pc[a] = "revalidate"
    /\ Goto(a, "start")
    /\ UNCHANGED <<vol, lock, slot, helper, runner>>

\* revalidateReferencedCaches.  A volume a peer prepared in the meantime is as good.
Revalidate(a) ==
    /\ pc[a] = "revalidate"
    /\ Goto(a, IF Ours(slot[a]) THEN "start" ELSE "dropRunner")
    /\ UNCHANGED <<vol, lock, slot, helper, runner>>

\* bestEffortRemoveContainer; the rollback removes what it leaves.
DropRunner(a) ==
    /\ pc[a] = "dropRunner"
    /\ Goto(a, "failed")
    /\ \/ runner' = [runner EXCEPT ![a] = "none"]
       \/ Faults /\ UNCHANGED runner
    /\ UNCHANGED <<vol, lock, slot, helper>>

StartRunner(a) ==
    /\ pc[a] = "start"
    /\ \/ /\ runner[a] = "created"
          /\ runner' = [runner EXCEPT ![a] = "waiting"]
          /\ Goto(a, "done")
       \/ /\ runner[a] # "created"
          /\ Goto(a, "failed")
          /\ UNCHANGED runner
    /\ UNCHANGED <<vol, lock, slot, helper>>

\* Mutant: the entrypoint does not wait for the marker.
NoGate(a) ==
    /\ runner[a] = "waiting"
    /\ runner' = [runner EXCEPT ![a] = "running"]
    /\ UNCHANGED <<vol, lock, pc, slot, helper>>

\* wait_for_externals_seeded in the mount of the runner.
PassGate(a) ==
    /\ runner[a] = "waiting"
    /\ vol[slot[a]].mark
    /\ runner' = [runner EXCEPT ![a] = "running"]
    /\ UNCHANGED <<vol, lock, pc, slot, helper>>

\* The wait is bounded and fails closed; a job ends.
RunnerExits(a) ==
    /\ \/ runner[a] = "waiting" /\ Faults
       \/ runner[a] = "running"
    /\ runner' = [runner EXCEPT ![a] = "exited"]
    /\ UNCHANGED <<vol, lock, pc, slot, helper>>

\* Rollback, delete or sweep removes the runner, at any time.
RemoveRunner(a) ==
    /\ runner[a] # "none"
    /\ runner' = [runner EXCEPT ![a] = "none"]
    /\ UNCHANGED <<vol, lock, pc, slot, helper>>

-----------------------------------------------------------------------------
(* Failures, and everybody else on the host. *)

Working == PC \ {"done", "failed", "killed"}

\* A daemon call of the provider fails, or its wait for the helper times out.  In
\* runHelperContainer the helper is removed all the same.
CallFails(a) ==
    /\ Faults
    /\ \/ pc[a] \in {"discover", "ensure", "seed", "runner", "start"} /\ Goto(a, "failed")
       \/ pc[a] \in AwaitsHelper /\ Goto(a, "abort")
       \/ pc[a] = "revalidate" /\ Goto(a, "dropRunner")
    /\ UNCHANGED <<vol, lock, slot, helper, runner>>

Killed(a) ==
    /\ Faults
    /\ pc[a] \in Working
    /\ Goto(a, "killed")
    /\ UNCHANGED <<vol, lock, slot, helper, runner>>

\* docker volume prune with the label filter: unreferenced cache volumes.
OperatorPrunes(s) ==
    /\ Ours(s) /\ ~Pinned(s)
    /\ vol' = [vol EXCEPT ![s] = None]
    /\ UNCHANGED <<lock, pc, slot, helper, runner>>

\* A stranger's volume can hold anything, a file of the marker's name included.
SquatterComes(s) ==
    /\ vol[s] = None
    /\ vol' = [vol EXCEPT ![s] = [ours |-> FALSE, data |-> "part", mark |-> TRUE]]
    /\ UNCHANGED <<lock, pc, slot, helper, runner>>

SquatterLeaves(s) ==
    /\ SquattersLeave
    /\ Occupied(s) /\ ~Pinned(s)
    /\ vol' = [vol EXCEPT ![s] = None]
    /\ UNCHANGED <<lock, pc, slot, helper, runner>>

Provider(a) ==
    \/ Discover(a) \/ EnsureSlot(a) \/ CreateHelper(a) \/ CheckHelperVolume(a)
    \/ StartHelper(a) \/ WaitHelper(a) \/ RemoveHelper(a)
    \/ CreateRunner(a) \/ Revalidate(a) \/ DropRunner(a) \/ StartRunner(a)

SeedScript(a) == TakeLock(a) \/ CopyDone(a) \/ WriteMarker(a)

Next ==
    \/ \E a \in Attempt :
         \/ Provider(a) \/ SeedScript(a) \/ HelperBreaks(a) \/ ReapHelper(a)
         \/ PassGate(a) \/ RunnerExits(a) \/ RemoveRunner(a)
         \/ HelperCreateLost(a) \/ CallFails(a) \/ Killed(a)
    \/ \E s \in Slot : OperatorPrunes(s) \/ SquatterComes(s) \/ SquatterLeaves(s)

Spec == Init /\ [][Next]_vars

\* Processes and containers that run go on; a runner looks at the marker again and
\* again.
Fairness ==
    \A a \in Attempt :
      WF_vars(Provider(a)) /\ WF_vars(SeedScript(a)) /\ WF_vars(PassGate(a))

FairSpec == Spec /\ Fairness

-----------------------------------------------------------------------------
(* Properties. *)

\* A started runner mounts a volume that carries the labels of its cache, whatever was
\* pruned, squatted or re-created between the ensure, the seed and its create.
RunnerMountsOwnCache ==
    \A a \in Attempt : runner[a] \in {"waiting", "running"} => Ours(slot[a])

\* A runner past the gate sees the whole tree, and nobody copies over it: "the marker's
\* presence proves the tree is fully populated" (entrypoint.sh).
RunsOnWholeTree ==
    \A a \in Attempt : runner[a] = "running" => vol[slot[a]].data = "whole"

\* No seed writes into a volume that is not the provider's own cache.
SeedsOnlyCaches ==
    [][\A s \in Slot :
         vol[s] # None /\ vol'[s] # None /\ vol'[s] # vol[s] => vol[s].ours]_vars

\* Attempts converge: while squatters stay, there is never a second volume of the
\* cache (AlternateCacheVolumeName: "processes racing around one squatter converge on
\* one slot").
OneCacheVolume == \A s, t \in Slot : Ours(s) /\ Ours(t) => s = t

\* While squatters stay, an allocation fails for want of a slot only if every slot is
\* occupied by something that is not the cache.
FailsOnlyWhenFull ==
    [][\A a \in Attempt :
         pc[a] = "ensure" /\ pc'[a] = "failed" => \A s \in Slot : Occupied(s)]_vars

\* Without failures the marker appears in the mount of every started runner, even if a
\* peer re-created the volume between the seed and the runner (entrypoint.sh: "the
\* flock guarantees the marker EVENTUALLY appears").
GateOpens == \A a \in Attempt : runner[a] = "waiting" ~> runner[a] # "waiting"

\* What the two invariants rest on: containers keep the volume of their slot; payload
\* and runner are started only on a validated volume; a marked cache is whole and is
\* not being copied; the lock is held by the one that copies.
MountInv ==
    /\ \A a \in Attempt : helper[a] # "none" \/ runner[a] # "none" => vol[slot[a]] # None
    /\ \A a \in Attempt : pc[a] \in {"discover", "ensure"} => helper[a] = "none" /\ runner[a] = "none"
    /\ \A a \in Attempt :
         \/ helper[a] \in {"running", "copying", "copied"}
         \/ pc[a] = "startHelper" /\ helper[a] = "created"
         \/ pc[a] = "start" /\ runner[a] = "created"
         \/ runner[a] \in {"waiting", "running"}
         => Ours(slot[a])
    /\ \A s \in Slot : Ours(s) /\ vol[s].mark => vol[s].data = "whole"
    /\ \A a \in Attempt : helper[a] \in {"copying", "copied"} =>
         lock[slot[a]] = a /\ ~vol[slot[a]].mark
    /\ \A a \in Attempt : helper[a] = "copied" => vol[slot[a]].data = "whole"
    /\ \A a \in Attempt : runner[a] = "running" => vol[slot[a]].mark
=============================================================================
