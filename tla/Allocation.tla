----------------------------- MODULE Allocation -----------------------------
(***************************************************************************)
(* The life of allocations on one Docker host: CreateInstance with its     *)
(* claim network and creation guard, DeleteInstance, the orphan sweep that *)
(* ListInstances and CreateInstance run, and RemoveAllInstances            *)
(* (internal/provider/create.go, delete.go, list.go, remove_all.go,        *)
(* internal/topology/create.go, teardown.go, sweep.go).                    *)
(*                                                                         *)
(* Each GARM call is a process of its own.  Calls overlap freely and a     *)
(* process can be killed between any two daemon calls, so every daemon     *)
(* call is one step.  Failures of daemon calls and kills together are      *)
(* bounded by MaxMishaps.                                                  *)
(***************************************************************************)
EXTENDS Daemon

CONSTANTS
    Proc,         \* provider processes that may run at the same time
    ControllerOf, \* GARM_CONTROLLER_ID of each process
    Calls,        \* the GARM calls issued: subset of AllCalls
    IPv6Rejected, \* whether the host refuses the runner's IPv6 sysctl
    MaxMishaps,   \* bound on failed daemon calls and killed processes
    None          \* no value

AllCalls == {"create", "delete", "list", "removeall"}
Mode == {"exact", "generation", "all"}  \* teardownMode

ASSUME AllocationAssumption ==
    /\ ControllerOf \in [Proc -> Controller]
    /\ Calls \subseteq AllCalls
    /\ IPv6Rejected \in BOOLEAN
    /\ MaxMishaps \in Nat
    /\ None \notin Gen \cup Name \cup Resource \cup AllCalls \cup Mode

VARIABLES
    pc, call, target,            \* what each process is doing, for which instance
    gen, hand,                   \* its nonce; the resource it is working on
    names, cur, noted,           \* sweep: names left, current name, labels read
    mode, captured, todo,        \* teardown: scope, claim nonce at start, list
    found, err,                  \* teardown: anything to remove, any error
    settled,                     \* history: no create of that generation was running
    used,                        \* nonces drawn so far
    mishaps                      \* failures and kills left

callVars == <<call, target>>
createVars == <<gen, used>>
sweepVars == <<names, cur, noted>>
scopeVars == <<mode, captured, settled>>
teardownVars == <<todo, found, err>>
vars == <<daemonVars, pc, callVars, createVars, hand, sweepVars, scopeVars,
          teardownVars, mishaps>>

CreatePC == {"claim", "classify", "unclaim", "workspace", "socket", "dind-state",
             "prepare", "runner", "start", "drop", "dind", "startDind",
             "deliver", "verify", "verifyDind"}
SweepPC == {"enumerate", "sweep", "inspect", "sweepNetworks", "sweepVolumes"}
TeardownPC == {"capture", "teardown", "containers", "remove", "volumes", "networks"}
DeletePC == {"resolve", "resolveNetworks", "resolveVolumes"}
HoldsRunner == {"runner", "start", "drop", "dind", "startDind", "deliver", "verify", "verifyDind"}
PC == {"idle"} \cup CreatePC \cup SweepPC \cup TeardownPC \cup DeletePC

ProcTypeOK ==
    /\ pc \in [Proc -> PC]
    /\ call \in [Proc -> AllCalls \cup {None}]
    /\ target \in [Proc -> Name \cup {None}]
    /\ gen \in [Proc -> Gen \cup {None}]
    /\ hand \in [Proc -> Resource \cup {None}]
    /\ names \in [Proc -> SUBSET Name]
    /\ cur \in [Proc -> Name \cup {None}]
    /\ noted \in [Proc -> SUBSET Resource]
    /\ mode \in [Proc -> Mode \cup {None}]
    /\ captured \in [Proc -> Gen \cup {None}]
    /\ settled \in [Proc -> BOOLEAN]
    /\ todo \in [Proc -> SUBSET Resource]
    /\ found \in [Proc -> BOOLEAN]
    /\ err \in [Proc -> BOOLEAN]
    /\ used \subseteq Gen
    /\ mishaps \in 0 .. MaxMishaps

TypeOK == DaemonTypeOK /\ ProcTypeOK

Init ==
    /\ DaemonInit
    /\ pc = [p \in Proc |-> "idle"]
    /\ call = [p \in Proc |-> None]
    /\ target = [p \in Proc |-> None]
    /\ gen = [p \in Proc |-> None]
    /\ hand = [p \in Proc |-> None]
    /\ names = [p \in Proc |-> {}]
    /\ cur = [p \in Proc |-> None]
    /\ noted = [p \in Proc |-> {}]
    /\ mode = [p \in Proc |-> None]
    /\ captured = [p \in Proc |-> None]
    /\ settled = [p \in Proc |-> FALSE]
    /\ todo = [p \in Proc |-> {}]
    /\ found = [p \in Proc |-> FALSE]
    /\ err = [p \in Proc |-> FALSE]
    /\ used = {}
    /\ mishaps = MaxMishaps

Goto(p, l) == pc' = [pc EXCEPT ![p] = l]
Hold(p, r) == hand' = [hand EXCEPT ![p] = r]
Mishap == mishaps > 0 /\ mishaps' = mishaps - 1

-----------------------------------------------------------------------------
(* GARM calls and their end. *)

StartCall(p, c, x, l) ==
    /\ pc[p] = "idle"
    /\ c \in Calls
    /\ Goto(p, l)
    /\ call' = [call EXCEPT ![p] = c]
    /\ target' = [target EXCEPT ![p] = x]
    /\ UNCHANGED <<daemonVars, createVars, hand, sweepVars, teardownVars, mishaps>>

\* The bound on creates: nonces are random and never run out, here each create
\* that has not drawn its nonce yet has one reserved.
NoncesLeft(p, x) ==
    Cardinality({q \in Proc : /\ call[q] = "create" /\ gen[q] = None
                              /\ target[q] = x /\ ControllerOf[q] = ControllerOf[p]})
      < Cardinality({g \in Gen \ used : InstanceName[g] = x /\ ControllerID[g] = ControllerOf[p]})

\* CreateInstance sweeps before it claims; the payload checks before the sweep
\* make no daemon call.  GARM retries a create under the same name.
CreateInstance(p, x) ==
    /\ NoncesLeft(p, x)
    /\ StartCall(p, "create", x, "enumerate")
    /\ UNCHANGED scopeVars

DeleteInstance(p, x) == StartCall(p, "delete", x, "resolve") /\ UNCHANGED scopeVars

\* The throttle only decides whether a list sweeps (module ThrottleStamp).
ListInstances(p) == StartCall(p, "list", None, "enumerate") /\ UNCHANGED scopeVars

RemoveAllInstances(p) ==
    /\ StartCall(p, "removeall", None, "teardown")
    /\ mode' = [mode EXCEPT ![p] = "all"]
    /\ UNCHANGED <<captured, settled>>

\* The call returns and the process exits: what it held in memory is gone.
Return(p) ==
    /\ Goto(p, "idle")
    /\ Hold(p, None)
    /\ call' = [call EXCEPT ![p] = None]
    /\ target' = [target EXCEPT ![p] = None]
    /\ gen' = [gen EXCEPT ![p] = None]
    /\ names' = [names EXCEPT ![p] = {}]
    /\ cur' = [cur EXCEPT ![p] = None]
    /\ noted' = [noted EXCEPT ![p] = {}]
    /\ mode' = [mode EXCEPT ![p] = None]
    /\ captured' = [captured EXCEPT ![p] = None]
    /\ settled' = [settled EXCEPT ![p] = FALSE]
    /\ todo' = [todo EXCEPT ![p] = {}]
    /\ found' = [found EXCEPT ![p] = FALSE]
    /\ err' = [err EXCEPT ![p] = FALSE]
    /\ UNCHANGED used

\* GARM, or the host, kills the process between two daemon calls.
Killed(p) ==
    /\ pc[p] # "idle"
    /\ Mishap
    /\ Return(p)
    /\ UNCHANGED daemonVars

-----------------------------------------------------------------------------
(* SweepOrphans. *)

AfterSweep(p) ==
    IF call[p] = "create"
    THEN /\ Goto(p, "claim")
         /\ UNCHANGED <<callVars, hand, sweepVars, scopeVars, teardownVars, createVars>>
    ELSE Return(p)

\* A failed enumeration ends the sweep; both callers only log it.
EnumerateInstanceNames(p) ==
    /\ pc[p] = "enumerate"
    /\ \/ /\ Goto(p, "sweep")
          /\ names' = [names EXCEPT ![p] = {x \in Name : InstanceScoped(x, ControllerOf[p]) # {}}]
          /\ UNCHANGED <<callVars, createVars, hand, cur, noted, scopeVars, teardownVars, mishaps>>
       \/ Mishap /\ AfterSweep(p)
    /\ UNCHANGED daemonVars

SweepDone(p) ==
    /\ pc[p] = "sweep"
    /\ names[p] = {}
    /\ AfterSweep(p)
    /\ UNCHANGED <<daemonVars, mishaps>>

\* sweepInstance leaves this name: the map order of the names is arbitrary.
NextName(p) ==
    /\ Goto(p, "sweep")
    /\ Hold(p, None)
    /\ cur' = [cur EXCEPT ![p] = None]
    /\ noted' = [noted EXCEPT ![p] = {}]

\* An active runner settles the decision; the two lists the code still makes
\* then change nothing.
SweepContainers(p) ==
    /\ pc[p] = "sweep"
    /\ \E x \in names[p] :
        LET cs == InstanceScoped(x, ControllerOf[p]) \cap Containers IN
        /\ names' = [names EXCEPT ![p] = @ \ {x}]
        /\ \/ /\ \E r \in cs \cap Runners : cstate[r] = "running"
              /\ NextName(p)
              /\ UNCHANGED mishaps
           \/ /\ \A r \in cs \cap Runners : cstate[r] # "running"
              /\ Goto(p, "sweepNetworks")
              /\ cur' = [cur EXCEPT ![p] = x]
              /\ noted' = [noted EXCEPT ![p] = cs]
              /\ UNCHANGED <<hand, mishaps>>
           \/ Mishap /\ NextName(p)
    /\ UNCHANGED <<daemonVars, callVars, createVars, scopeVars, teardownVars>>

SweepNetworks(p) ==
    /\ pc[p] = "sweepNetworks"
    /\ \/ /\ Goto(p, "sweepVolumes")
          /\ noted' = [noted EXCEPT ![p] = @ \cup (InstanceScoped(cur[p], ControllerOf[p]) \cap Networks)]
          /\ UNCHANGED <<hand, cur, mishaps>>
       \/ Mishap /\ NextName(p)
    /\ UNCHANGED <<daemonVars, callVars, createVars, names, scopeVars, teardownVars>>

\* runnerFinishedAt: a runner that is gone or never ran has no exit time.
HasFinished(r) == r \in live /\ exitAge[r[1]] # Never

\* Mutants: the in-flight deadline is not checked; an exited runner is never
\* found abandoned.
AbandonedAtAnyAge(rs) ==
    LET exited == {r \in rs \cap Runners : HasFinished(r)} IN
    IF exited # {}
    THEN \A r \in exited : exitAge[r[1]] >= ExitedGrace
    ELSE rs # {}

AbandonedUnlessExited(rs) ==
    /\ \A r \in rs \cap Runners : ~HasFinished(r)
    /\ \A r \in rs : age[r] >= InflightGrace

\* An exited runner is aged from FinishedAt, anything else from the youngest
\* created-at label read.
Abandoned(rs) ==
    LET exited == {r \in rs \cap Runners : HasFinished(r)} IN
    IF exited # {}
    THEN \A r \in exited : exitAge[r[1]] >= ExitedGrace
    ELSE rs # {} /\ \A r \in rs : age[r] >= InflightGrace

\* sweepInstance has read everything: tear the allocation down or leave it.
Decide(p, rs) ==
    \/ /\ Abandoned(rs)
       /\ Goto(p, "capture")
       /\ noted' = [noted EXCEPT ![p] = {}]
       /\ mode' = [mode EXCEPT ![p] = "generation"]
       /\ UNCHANGED <<hand, cur>>
    \/ ~Abandoned(rs) /\ NextName(p) /\ UNCHANGED mode

SweepVolumes(p) ==
    /\ pc[p] = "sweepVolumes"
    /\ LET rs == noted[p] \cup (InstanceScoped(cur[p], ControllerOf[p]) \cap Volumes) IN
        \/ /\ rs \cap Runners # {}
           /\ Goto(p, "inspect")
           /\ noted' = [noted EXCEPT ![p] = rs]
           /\ UNCHANGED <<hand, cur, mode, mishaps>>
        \/ /\ rs \cap Runners = {}
           /\ Decide(p, rs)
           /\ UNCHANGED mishaps
        \/ Mishap /\ NextName(p) /\ UNCHANGED mode
    /\ UNCHANGED <<daemonVars, callVars, createVars, names, captured, settled, teardownVars>>

\* The list has no exit times, so a runner that is not running is inspected.  A
\* failure other than NotFound leaves the name to a later sweep.
InspectRunner(p) ==
    /\ pc[p] = "inspect"
    /\ \/ Decide(p, noted[p]) /\ UNCHANGED mishaps
       \/ Mishap /\ NextName(p) /\ UNCHANGED mode
    /\ UNCHANGED <<daemonVars, callVars, createVars, names, captured, settled, teardownVars>>

-----------------------------------------------------------------------------
(* Teardown. *)

\* Some process is still working on the create of g, its guard included.
Creating(g) == \E q \in Proc : gen[q] = g

\* claimNoncesByInstance: the nonce the claim network of the name holds now.
ClaimHolder(x, c) ==
    LET gs == {g \in Gen : Claim(g) \in InstanceScoped(x, c)} IN
    IF gs = {} THEN None ELSE CHOOSE g \in gs : TRUE

\* What the mode's label filter selects.
Matching(p) ==
    CASE mode[p] = "exact"      -> {r \in InstanceScoped(cur[p], ControllerOf[p]) : r[1] = gen[p]}
      [] mode[p] = "generation" -> InstanceScoped(cur[p], ControllerOf[p])
      [] OTHER                  -> {r \in live : MatchesPredicate(r, ControllerOf[p])}

\* Mutants: a leftover is not checked against the live claim; the captured nonce
\* is ignored.
MayRemoveAnyLeftover(p, r) ==
    /\ MatchesPredicate(r, ControllerOf[p])
    /\ CASE mode[p] = "exact" -> r[1] = gen[p]
         [] mode[p] = "generation" -> captured[p] # None => r[1] = captured[p]
         [] OTHER -> TRUE

MayRemoveByName(p, r) ==
    /\ MatchesPredicate(r, ControllerOf[p])
    /\ mode[p] = "exact" => r[1] = gen[p]

\* teardownScope.mayRemove.  Without a captured claim everything under the name
\* is a leftover, except what carries the nonce of a claim made since.
MayRemove(p, r) ==
    /\ MatchesPredicate(r, ControllerOf[p])
    /\ CASE mode[p] = "exact" -> r[1] = gen[p]
         [] mode[p] = "generation" ->
              IF captured[p] # None
              THEN r[1] = captured[p]
              ELSE r[1] # ClaimHolder(InstanceName[r[1]], ControllerOf[p])
         [] OTHER -> TRUE

\* Only the leftover check makes a daemon call, which can fail.
ReadsLiveClaim(p) == mode[p] = "generation" /\ captured[p] = None

\* Runner before sidecar.
RoleRank(r) == IF r[2] = "dind" THEN 1 ELSE 0

\* What a finished teardown does next depends on who asked for it.
TeardownReturns(p) ==
    IF mode[p] = "generation" /\ call[p] # "delete"
    THEN /\ NextName(p)
         /\ mode' = [mode EXCEPT ![p] = None]
         /\ captured' = [captured EXCEPT ![p] = None]
         /\ settled' = [settled EXCEPT ![p] = FALSE]
         /\ todo' = [todo EXCEPT ![p] = {}]
         /\ found' = [found EXCEPT ![p] = FALSE]
         /\ err' = [err EXCEPT ![p] = FALSE]
         /\ UNCHANGED <<callVars, createVars, names>>
    ELSE Return(p)

\* teardownGeneration: the generation is read once, before anything is removed.
CaptureGeneration(p) ==
    /\ pc[p] = "capture"
    /\ \/ /\ Goto(p, "teardown")
          /\ LET g == ClaimHolder(cur[p], ControllerOf[p]) IN
              /\ captured' = [captured EXCEPT ![p] = g]
              /\ settled' = [settled EXCEPT ![p] = g # None /\ ~Creating(g)]
          /\ UNCHANGED <<callVars, createVars, hand, sweepVars, mode, teardownVars, mishaps>>
       \/ Mishap /\ TeardownReturns(p)
    /\ UNCHANGED daemonVars

\* One list per resource kind, taken once; a failed list is an error and skips
\* the kind.  In every mode but the leftover one the gate looks only at labels
\* that cannot change, so it is applied to the list.
ListPhase(p, from, to, kinds) ==
    /\ pc[p] = from
    /\ todo[p] = {} /\ hand[p] = None
    /\ Goto(p, to)
    /\ \/ /\ todo' = [todo EXCEPT ![p] =
                {r \in Matching(p) \cap kinds : ReadsLiveClaim(p) \/ MayRemove(p, r)}]
          /\ UNCHANGED <<err, mishaps>>
       \/ /\ Mishap
          /\ err' = [err EXCEPT ![p] = TRUE]
          /\ UNCHANGED todo
    /\ UNCHANGED <<daemonVars, callVars, createVars, hand, sweepVars, scopeVars, found>>

ListContainers(p) == ListPhase(p, "teardown", "containers", Containers)

\* Mutants: the networks go before the volumes; one kind of volume is forgotten.
ListNetworksTooEarly(p) == ListPhase(p, "containers", "volumes", Networks)
ListVolumesButDindState(p) ==
    ListPhase(p, "containers", "volumes", Volumes \ (Gen \X {"dind-state"}))

ListVolumes(p) == ListPhase(p, "containers", "volumes", Volumes)
ListNetworks(p) == ListPhase(p, "volumes", "networks", Networks)

\* The next resources of the list: runner before sidecar.
First(p) == {r \in todo[p] : \A s \in todo[p] : RoleRank(r) <= RoleRank(s)}

\* A leftover is checked against the live claim before its own removal.
CheckLeftover(p) ==
    /\ pc[p] \in {"containers", "volumes", "networks"}
    /\ ReadsLiveClaim(p) /\ hand[p] = None
    /\ \E r \in First(p) :
        /\ todo' = [todo EXCEPT ![p] = @ \ {r}]
        /\ \/ Hold(p, IF MayRemove(p, r) THEN r ELSE None) /\ UNCHANGED <<err, mishaps>>
           \/ Mishap /\ err' = [err EXCEPT ![p] = TRUE] /\ UNCHANGED hand
    /\ UNCHANGED <<daemonVars, pc, callVars, createVars, sweepVars, scopeVars, found>>

\* The resource whose removal starts now.
Ready(p) == IF ReadsLiveClaim(p) THEN {hand[p]} \ {None} ELSE First(p)

\* The graceful stop is best-effort: its error is ignored.
StopContainer(p) ==
    /\ pc[p] = "containers"
    /\ \E r \in Ready(p) :
        /\ Hold(p, r)
        /\ todo' = [todo EXCEPT ![p] = @ \ {r}]
        /\ \/ /\ IF IsRunning(r) THEN ContainerExited(r) ELSE UNCHANGED daemonVars
              /\ UNCHANGED mishaps
           \/ Mishap /\ UNCHANGED daemonVars
    /\ Goto(p, "remove")
    /\ found' = [found EXCEPT ![p] = TRUE]
    /\ UNCHANGED <<callVars, createVars, sweepVars, scopeVars, err>>

\* Removal is by the ID or unique name that was listed, and tolerates NotFound.
RemoveResource(p, r) ==
    /\ Hold(p, None)
    /\ todo' = [todo EXCEPT ![p] = @ \ {r}]
    /\ \/ /\ ~RemoveRefused(r)
          /\ Removed(r)
          /\ UNCHANGED <<err, mishaps>>
       \/ /\ RemoveRefused(r)
          /\ err' = [err EXCEPT ![p] = TRUE]
          /\ UNCHANGED <<daemonVars, mishaps>>
       \/ /\ Mishap
          /\ err' = [err EXCEPT ![p] = TRUE]
          /\ UNCHANGED daemonVars
    /\ found' = [found EXCEPT ![p] = TRUE]
    /\ UNCHANGED <<callVars, createVars, sweepVars, scopeVars>>

RemoveContainer(p) ==
    /\ pc[p] = "remove"
    /\ RemoveResource(p, hand[p])
    /\ Goto(p, "containers")

RemoveVolumeOrNetwork(p) ==
    /\ pc[p] \in {"volumes", "networks"}
    /\ \E r \in Ready(p) : RemoveResource(p, r)
    /\ UNCHANGED pc

TeardownDone(p) ==
    /\ pc[p] = "networks"
    /\ todo[p] = {} /\ hand[p] = None
    /\ TeardownReturns(p)
    /\ UNCHANGED <<daemonVars, mishaps>>

-----------------------------------------------------------------------------
(* DeleteInstance: resolve the name, then tear its generation down. *)

\* resolveInstanceName: a runner, else any container, network or volume left
\* under the name.  Nothing at all is the not-found error, exit 30.
ResolveStep(p, from, next, kinds) ==
    /\ pc[p] = from
    /\ \/ /\ InstanceScoped(target[p], ControllerOf[p]) \cap kinds # {}
          /\ Goto(p, "capture")
          /\ cur' = [cur EXCEPT ![p] = target[p]]
          /\ mode' = [mode EXCEPT ![p] = "generation"]
          /\ UNCHANGED <<callVars, createVars, hand, names, noted, captured, settled, teardownVars, mishaps>>
       \/ /\ InstanceScoped(target[p], ControllerOf[p]) \cap kinds = {}
          /\ IF next = "idle"
             THEN Return(p)
             ELSE Goto(p, next) /\ UNCHANGED <<callVars, createVars, hand, sweepVars, scopeVars, teardownVars>>
          /\ UNCHANGED mishaps
       \/ Mishap /\ Return(p)
    /\ UNCHANGED daemonVars

\* Mutant: the name is looked up among the containers alone.
ResolveContainersAlone(p) == ResolveStep(p, "resolve", "idle", Containers)

ResolveContainers(p) == ResolveStep(p, "resolve", "resolveNetworks", Containers)
ResolveNetworks(p) == ResolveStep(p, "resolveNetworks", "resolveVolumes", Networks)
ResolveVolumes(p) == ResolveStep(p, "resolveVolumes", "idle", Volumes)

-----------------------------------------------------------------------------
(* CreateInstance after its sweep. *)

createFrame == <<callVars, createVars, sweepVars, scopeVars, teardownVars>>

\* NetworkCreate answers a duplicate name with 409.  Any other error is
\* ambiguous: the network may exist all the same.
CreateClaimNetwork(p) ==
    /\ pc[p] = "claim"
    /\ \E g \in Gen \ used :
        /\ InstanceName[g] = target[p]
        /\ ControllerID[g] = ControllerOf[p]
        /\ used' = used \cup {g}
        /\ gen' = [gen EXCEPT ![p] = g]
        /\ \/ /\ ~NetworkNameTaken(target[p])
              /\ NetworkCreated(g)
              /\ \/ Goto(p, "workspace") /\ UNCHANGED mishaps
                 \/ Goto(p, "unclaim") /\ Mishap
           \/ /\ NetworkNameTaken(target[p])
              /\ Goto(p, "classify")
              /\ UNCHANGED <<daemonVars, mishaps>>
           \/ /\ Goto(p, "unclaim")
              /\ Mishap
              /\ UNCHANGED daemonVars
    /\ UNCHANGED <<callVars, hand, sweepVars, scopeVars, teardownVars>>

\* existingClaimIsOurs, read after the conflict: our own claim is exit 31, and
\* anything else, a claim that is gone by now included, is refused.
ClassifyConflict(p) ==
    /\ pc[p] = "classify"
    /\ \/ /\ Return(p)
          /\ UNCHANGED mishaps
       \/ Mishap /\ Return(p)
    /\ UNCHANGED daemonVars

\* bestEffortRemoveOwnNetwork: only what carries this nonce.
RemoveOwnNetwork(p) ==
    /\ pc[p] = "unclaim"
    /\ \/ /\ ~RemoveRefused(Claim(gen[p]))
          /\ Removed(Claim(gen[p]))
          /\ Return(p)
          /\ UNCHANGED mishaps
       \/ /\ RemoveRefused(Claim(gen[p]))
          /\ Return(p)
          /\ UNCHANGED <<daemonVars, mishaps>>
       \/ /\ Mishap
          /\ Return(p)
          /\ UNCHANGED daemonVars

\* The creation guard: Rollback removes what carries this attempt's nonce.
Guarded(p) ==
    /\ Goto(p, "teardown")
    /\ Hold(p, None)
    /\ mode' = [mode EXCEPT ![p] = "exact"]
    /\ settled' = [settled EXCEPT ![p] = TRUE]
    /\ cur' = [cur EXCEPT ![p] = target[p]]
    /\ UNCHANGED <<callVars, createVars, names, noted, captured, teardownVars>>

AfterVolume(g, k) ==
    CASE k = "workspace" /\ Dind(g) -> "socket"
      [] k = "socket"            -> "dind-state"
      [] OTHER                   -> "prepare"

\* createFreshVolume: the name embeds the fresh nonce, so the volume is new.
CreateVolume(p) ==
    /\ pc[p] \in VolumeKind
    /\ VolumeCreated(gen[p], pc[p])
    /\ Goto(p, AfterVolume(gen[p], pc[p]))
    /\ UNCHANGED <<createFrame, hand, mishaps>>

\* Image, caches, credentials, externals, then the one created-at time of both
\* containers.  This is where a create spends its minutes.
Prepare(p) ==
    /\ pc[p] = "prepare"
    /\ StampedNow({<<gen[p], k>> : k \in ContainerKind})
    /\ Goto(p, "runner")
    /\ Hold(p, <<gen[p], "runner">>)
    /\ UNCHANGED <<live, stray, cstate, exitAge, createFrame, mishaps>>

\* createAndStartRunnerOnce.  A container the daemon recorded despite an error
\* is left to the rollback.
CreateRunner(p) ==
    /\ pc[p] = "runner"
    /\ \/ /\ ~ContainerNameTaken(target[p], RunnerKind)
          /\ ContainerCreated(hand[p])
          /\ \/ Goto(p, "start") /\ UNCHANGED <<createFrame, hand, mishaps>>
             \/ Mishap /\ Guarded(p)
       \/ /\ ContainerNameTaken(target[p], RunnerKind)
          /\ Guarded(p)
          /\ UNCHANGED <<daemonVars, mishaps>>

\* The daemon resolves the network by its name when the container starts.
StartRunner(p) ==
    /\ pc[p] = "start"
    /\ \/ /\ hand[p] \in live
          /\ NetworkNameTaken(target[p])
          /\ \/ /\ ~(IPv6Rejected /\ hand[p][2] = "runner")
                /\ ContainerStarted(hand[p])
                /\ Goto(p, IF Dind(gen[p]) THEN "dind" ELSE "deliver")
             \/ /\ IPv6Rejected /\ hand[p][2] = "runner"
                /\ Goto(p, "drop")
                /\ UNCHANGED daemonVars
          /\ UNCHANGED <<createFrame, hand>>
       \/ /\ ~(hand[p] \in live /\ NetworkNameTaken(target[p]))
          /\ Guarded(p)
          /\ UNCHANGED daemonVars
    /\ UNCHANGED mishaps

\* The rejected runner is removed and created once more without the sysctl.
DropRejectedRunner(p) ==
    /\ pc[p] = "drop"
    /\ Removed(hand[p])
    /\ Goto(p, "runner")
    /\ Hold(p, <<gen[p], "retried">>)
    /\ UNCHANGED <<createFrame, mishaps>>

CreateDind(p) ==
    /\ pc[p] = "dind"
    /\ \/ /\ ~ContainerNameTaken(target[p], {"dind"})
          /\ ContainerCreated(<<gen[p], "dind">>)
          /\ \/ Goto(p, "startDind") /\ UNCHANGED <<createFrame, hand, mishaps>>
             \/ Mishap /\ Guarded(p)
       \/ /\ ContainerNameTaken(target[p], {"dind"})
          /\ Guarded(p)
          /\ UNCHANGED <<daemonVars, mishaps>>

\* The privileged sidecar joins the namespace of the runner, by its ID.
DindCanStart(p) ==
    /\ <<gen[p], "dind">> \in live
    /\ IF DindModeOf(gen[p]) = "privileged-sidecar" THEN IsRunning(hand[p]) ELSE NetworkNameTaken(target[p])

StartDind(p) ==
    /\ pc[p] = "startDind"
    /\ \/ /\ DindCanStart(p)
          /\ ContainerStarted(<<gen[p], "dind">>)
          /\ Goto(p, "deliver")
          /\ UNCHANGED <<createFrame, hand>>
       \/ /\ ~DindCanStart(p)
          /\ Guarded(p)
          /\ UNCHANGED daemonVars
    /\ UNCHANGED mishaps

\* ExecStream into the running runner.
DeliverCredentials(p) ==
    /\ pc[p] = "deliver"
    /\ IF IsRunning(hand[p])
       THEN Goto(p, "verify") /\ UNCHANGED <<createFrame, hand>>
       ELSE Guarded(p)
    /\ UNCHANGED <<daemonVars, mishaps>>

\* verifyRunning on the runner, then on the sidecar.
VerifyRunner(p) ==
    /\ pc[p] = "verify"
    /\ CASE ~IsRunning(hand[p]) -> Guarded(p)
         [] IsRunning(hand[p]) /\ Dind(gen[p]) ->
              Goto(p, "verifyDind") /\ UNCHANGED <<createFrame, hand>>
         [] OTHER -> Return(p)
    /\ UNCHANGED <<daemonVars, mishaps>>

VerifyDind(p) ==
    /\ pc[p] = "verifyDind"
    /\ IF IsRunning(<<gen[p], "dind">>) THEN Return(p) ELSE Guarded(p)
    /\ UNCHANGED <<daemonVars, mishaps>>

\* Any call after the claim can fail without effect.
GuardedPC == VolumeKind \cup {"prepare"} \cup HoldsRunner

CreateFails(p) ==
    /\ pc[p] \in GuardedPC
    /\ Mishap
    /\ Guarded(p)
    /\ UNCHANGED daemonVars

-----------------------------------------------------------------------------
SweepStep(p) ==
    \/ EnumerateInstanceNames(p) \/ SweepContainers(p) \/ SweepNetworks(p)
    \/ SweepVolumes(p) \/ InspectRunner(p) \/ SweepDone(p)

TeardownStep(p) ==
    \/ CaptureGeneration(p) \/ ListContainers(p) \/ ListVolumes(p) \/ ListNetworks(p)
    \/ CheckLeftover(p) \/ StopContainer(p) \/ RemoveContainer(p)
    \/ RemoveVolumeOrNetwork(p) \/ TeardownDone(p)

DeleteStep(p) == ResolveContainers(p) \/ ResolveNetworks(p) \/ ResolveVolumes(p)

CreateStep(p) ==
    \/ CreateClaimNetwork(p) \/ ClassifyConflict(p)
    \/ RemoveOwnNetwork(p) \/ CreateVolume(p) \/ Prepare(p) \/ CreateRunner(p)
    \/ StartRunner(p) \/ DropRejectedRunner(p) \/ CreateDind(p) \/ StartDind(p)
    \/ DeliverCredentials(p) \/ VerifyRunner(p) \/ VerifyDind(p) \/ CreateFails(p)

ProcStep(p) == SweepStep(p) \/ TeardownStep(p) \/ DeleteStep(p) \/ CreateStep(p)

GarmCalls(p) ==
    \/ \E x \in Name : CreateInstance(p, x) \/ DeleteInstance(p, x)
    \/ ListInstances(p)
    \/ RemoveAllInstances(p)

procVars == <<pc, callVars, createVars, hand, sweepVars, scopeVars, teardownVars, mishaps>>

Host == (ContainerExits \/ Tick) /\ UNCHANGED procVars

Next == Host \/ \E p \in Proc : GarmCalls(p) \/ ProcStep(p) \/ Killed(p)

Spec == Init /\ [][Next]_vars

\* GARM keeps listing; a started process runs to its end; jobs end; time passes.
Fairness ==
    /\ \A p \in Proc : WF_vars(ProcStep(p)) /\ WF_vars(ListInstances(p))
    /\ WF_vars(ContainerExits /\ UNCHANGED procVars)
    /\ WF_vars(Tick /\ UNCHANGED procVars)

FairSpec == Spec /\ Fairness

-----------------------------------------------------------------------------
(* Properties. *)

\* The process that takes a step is the one whose own state changes.
Acts(p) == <<pc[p], todo[p], hand[p]>> # <<pc'[p], todo'[p], hand'[p]>>

Whole(g) ==
    /\ {<<g, k>> : k \in {"network", "workspace"}} \subseteq live
    /\ Dind(g) => {<<g, k>> : k \in {"socket", "dind-state", "dind"}} \subseteq live
    /\ \E k \in RunnerKind : <<g, k>> \in live

\* A delete or sweep removes something of the generation that holds the claim
\* only if that generation held it when the teardown started: a same-name create
\* that claims mid-teardown keeps everything it has (ADR-004, Teardown scope).
SparesLaterClaim ==
    [][\A p \in Proc : \A r \in live \ live' :
         Acts(p) /\ mode[p] = "generation" =>
           captured[p] = r[1] \/ Claim(r[1]) \notin live]_vars

\* No call removes a resource of another controller, and a create removes nothing
\* but its own attempt's resources, in its guard and outside it (ADR-004,
\* Creation).
TouchesOnlyOwn ==
    [][\A p \in Proc : \A r \in live \ live' :
         Acts(p) => /\ ControllerID[r[1]] = ControllerOf[p]
                    /\ mode[p] \notin {"generation", "all"} => r[1] = gen[p]]_vars

\* The generation a teardown is keyed to.
Subject(p) == IF mode[p] = "exact" THEN gen[p] ELSE captured[p]

\* A rollback, delete or sweep that met no error leaves nothing labelled with the
\* generation it was keyed to, whatever overlapping teardowns did meanwhile,
\* unless the create of that generation was still running when it started.
TeardownLeavesNothing ==
    [][\A p \in Proc :
         /\ pc[p] = "networks" /\ todo[p] = {} /\ hand[p] = None /\ pc'[p] # pc[p]
         /\ settled[p] /\ ~err[p]
         => \A r \in live : r[1] # Subject(p)]_vars

\* The claim goes last: while it exists no same-name create can start, and when a
\* teardown without errors removes the claim of a finished create, no volume or
\* container of that generation is left (ADR-004, Teardown order).
ClaimGoesLast ==
    [][\A p \in Proc :
         /\ Acts(p) /\ settled[p] /\ ~err[p]
         /\ Claim(Subject(p)) \in live \ live'
         => \A r \in live' : r[1] # Subject(p)]_vars

\* The sweep leaves a generation alone while its claim is younger than the
\* in-flight deadline, unless its runner exited past the grace (ADR-004, Orphan
\* sweep; topology.go:17-29).
SweepSparesYoung ==
    [][\A p \in Proc :
         Acts(p) /\ mode[p] = "generation" /\ call[p] # "delete" =>
           \A r \in live :
             /\ Claim(r[1]) \in live
             /\ \/ r \notin live'
                \/ r \in Containers /\ IsRunning(r) /\ cstate'[r] # "running"
             => \/ age[Claim(r[1])] >= InflightGrace
                \/ exitAge[r[1]] >= ExitedGrace]_vars

\* With only creates and sweeps around, a create that reports success within the
\* in-flight deadline has its claim, its volumes and its containers, unless its runner
\* exited past the grace while the sidecar was looked at (verifyRunning).
SuccessMeansWhole ==
    [][\A p \in Proc :
         /\ pc[p] \in {"verify", "verifyDind"} /\ pc'[p] = "idle" /\ mishaps' = mishaps
         /\ age[Claim(gen[p])] < InflightGrace /\ exitAge[gen[p]] < ExitedGrace
         => Whole(gen[p])]_vars

\* The states the ownership gates rest on, as one inductive invariant.
\* What a process holds at each point of its call.
InPhase(p) ==
    /\ pc[p] \notin TeardownPC \ {"capture"} => todo[p] = {}
    /\ pc[p] \notin TeardownPC => mode[p] = None /\ captured[p] = None
    /\ pc[p] = "capture" => mode[p] = "generation" /\ captured[p] = None
    /\ pc[p] \in TeardownPC => mode[p] # None
    /\ pc[p] \in {"idle", "capture"} \cup SweepPC \cup DeletePC => hand[p] = None
    /\ pc[p] \in CreatePC \ {"claim"} \/ mode[p] = "exact" => gen[p] # None
    /\ pc[p] \in HoldsRunner => hand[p] \in Runners /\ hand[p][1] = gen[p]
    /\ pc[p] = "remove" => hand[p] # None

\* Everything a process is about to remove passed the gate of its mode, and the
\* claim of a leftover in hand is gone for good.
Entitled(p) ==
    pc[p] \in TeardownPC =>
      /\ \A r \in todo[p] \cup ({hand[p]} \ {None}) :
           /\ r[1] \in used
           /\ ControllerID[r[1]] = ControllerOf[p]
           /\ mode[p] = "exact" => r[1] = gen[p]
           /\ mode[p] = "generation" /\ captured[p] # None => r[1] = captured[p]
      /\ ReadsLiveClaim(p) /\ hand[p] # None => Claim(hand[p][1]) \notin live

\* Every nonce in circulation was drawn, by a process of its own controller.
NoncesDrawn ==
    /\ \A r \in live : r[1] \in used
    /\ \A p \in Proc : gen[p] # None =>
         gen[p] \in used /\ ControllerID[gen[p]] = ControllerOf[p]

\* At most one claim per instance name, whatever creates and teardowns overlap.
OneClaim ==
    \A g, h \in Gen :
      Claim(g) \in live /\ Claim(h) \in live /\ InstanceName[g] = InstanceName[h] => g = h

\* A name has at most one claim, every removal a teardown still has to make is one
\* its mode entitles it to, and no leftover it has checked can be claimed again
\* (teardownScope.mayRemove, CreateClaimNetwork).
OwnershipInv ==
    /\ NoncesDrawn
    /\ OneClaim
    /\ \A p \in Proc : InPhase(p) /\ Entitled(p)

\* The refinement mapping: the claim network is the lock, the nonce its ticket.
phaseOf ==
    [g \in Gen |-> CASE Claim(g) \in live                 -> "held"
                     [] Claim(g) \notin live /\ g \in used -> "spent"
                     [] OTHER                             -> "fresh"]

equippedOf == {g \in Gen : \E k \in Kind \ {"network"} : <<g, k>> \in live}

\* The create of g has drawn its nonce and has not come to its guard or its end.
openOf == {g \in Gen : \E p \in Proc : gen[p] = g /\ pc[p] \in CreatePC \ {"claim"}}

Names == INSTANCE NameClaim WITH phase <- phaseOf, open <- openOf, equipped <- equippedOf

\* Whatever creates, deletes and sweeps overlap, fail or are killed, the networks and
\* nonces work as a lock per instance name, across controllers too: a generation that
\* lost its claim never gets one again, and nothing is added to a generation but by the
\* one create that drew it, before its guard (CreateClaimNetwork: the job network is
\* "the allocation's atomic claim marker").
ClaimIsLock == Names!Spec

\* Every volume that exists can be found by its labels or is still mounted: a
\* volume that is neither outlives every teardown, since all of them select by
\* label (ADR-004, Context: all of an allocation must be removed).
NoStrayVolume == \A v \in stray : VolumeReferenced(v)

\* Once creates stop, every labelled resource is eventually collected: by a
\* delete, by the guard of its own create, or by the sweep.
EventuallyCollected == <>[](live = {})
=============================================================================
