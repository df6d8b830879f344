------------------------------- MODULE Daemon -------------------------------
(***************************************************************************)
(* The Docker daemon as the provider uses it (internal/docker/client.go,   *)
(* internal/docker/fake.go).  Everything the provider knows is in here:    *)
(* the provider keeps no state of its own between calls.                   *)
(*                                                                         *)
(* A generation is one CreateInstance attempt, identified by its           *)
(* create-nonce.  A job-scoped resource is a pair <<generation, kind>>,    *)
(* which stands for the Docker ID of the resource and for the labels       *)
(* managed, controller-id, instance-name, role/resource and create-nonce.  *)
(* Network and container names are derived from the instance name alone;   *)
(* volume names embed the nonce (internal/spec/names.go).                  *)
(*                                                                         *)
(* Time is kept as saturating ages: the two grace periods are the only     *)
(* thresholds the code compares an age with.                               *)
(***************************************************************************)
EXTENDS Integers, FiniteSets

CONSTANTS
    Gen,            \* create-nonces
    Name,           \* instance names
    Controller,     \* GARM controllers sharing the host
    InstanceName,   \* the instance name each generation is created for
    ControllerID,   \* the controller each generation is created by
    DindMode,       \* of each controller: "none", "privileged-sidecar" or "sysbox-runc"
    InflightGrace,  \* inflightCreateGrace, in ticks
    ExitedGrace     \* exitedRunnerGrace, in ticks

ASSUME DaemonAssumption ==
    /\ InstanceName \in [Gen -> Name]
    /\ ControllerID \in [Gen -> Controller]
    /\ DindMode \in [Controller -> {"none", "privileged-sidecar", "sysbox-runc"}]
    /\ InflightGrace \in Nat \ {0}
    /\ ExitedGrace \in Nat \ {0}

VARIABLES
    live,     \* the labelled job-scoped resources that exist
    stray,    \* volumes the daemon re-created without labels
    cstate,   \* state of each container
    age,      \* ticks since the resource's created-at label, saturating
    exitAge   \* ticks since the generation's runner finished, or Never

daemonVars == <<live, stray, cstate, age, exitAge>>

Never == -1

\* The runner the IPv6 retry creates has an ID of its own.
DindModeOf(g) == DindMode[ControllerID[g]]
Dind(g) == DindModeOf(g) # "none"
RunnerKind == {"runner", "retried"}
ContainerKind == RunnerKind \cup {"dind"}
VolumeKind == {"workspace", "socket", "dind-state"}
Kind == {"network"} \cup VolumeKind \cup ContainerKind

Resource == Gen \X Kind
Containers == Gen \X ContainerKind
Volumes == Gen \X VolumeKind
Networks == Gen \X {"network"}
Runners == Gen \X RunnerKind

\* The claim marker of a generation: its job network.
Claim(g) == <<g, "network">>

CState == {"created", "running", "exited"}

DaemonTypeOK ==
    /\ live \subseteq Resource
    /\ stray \subseteq Volumes
    /\ cstate \in [Containers -> CState]
    /\ age \in [Resource -> 0 .. InflightGrace]
    /\ exitAge \in [Gen -> {Never} \cup 0 .. ExitedGrace]

DaemonInit ==
    /\ live = {}
    /\ stray = {}
    /\ cstate = [r \in Containers |-> "created"]
    /\ age = [r \in Resource |-> InflightGrace]
    /\ exitAge = [g \in Gen |-> Never]

-----------------------------------------------------------------------------
(* Label queries. *)

\* Mutant: the controller is not compared.
MatchesAnyController(r, c) == TRUE

\* MatchesPredicate: managed, this controller, has an instance name, not a cache.
MatchesPredicate(r, c) == ControllerID[r[1]] = c

\* instanceScopedFilter: one controller's resources under one instance name.
InstanceScoped(x, c) ==
    {r \in live : MatchesPredicate(r, c) /\ InstanceName[r[1]] = x}

\* Mutant: the daemon takes a second network of a name.
NetworkNameNeverTaken(x) == FALSE

\* Networks and containers are unique by name, whoever owns them.
NetworkNameTaken(x) == \E r \in live \cap Networks : InstanceName[r[1]] = x

ContainerNameTaken(x, kinds) ==
    \E r \in live \cap (Gen \X kinds) : InstanceName[r[1]] = x

IsRunning(r) == r \in live /\ cstate[r] = "running"

\* The kinds of volume a container mounts; a volume is named after its generation.
Mounts(c) ==
    CASE c[2] \in RunnerKind -> {"workspace"} \cup (IF Dind(c[1]) THEN {"socket"} ELSE {})
      [] c[2] = "dind"       -> VolumeKind

VolumeReferenced(v) ==
    v \in Volumes /\ \E r \in live \cap Containers : r[1] = v[1] /\ v[2] \in Mounts(r)

\* A running container holds an endpoint on the network of its instance name;
\* a privileged sidecar lives in the runner's namespace and has none of its own.
EndpointKind(g) ==
    IF DindModeOf(g) = "sysbox-runc" THEN ContainerKind ELSE RunnerKind

NetworkInUse(x) ==
    \E r \in Containers :
        InstanceName[r[1]] = x /\ r[2] \in EndpointKind(r[1]) /\ IsRunning(r)

-----------------------------------------------------------------------------
(* Effects of successful daemon calls. *)

\* Labels carry the time they were built; every age starts there.
StampedNow(rs) == age' = [r \in Resource |-> IF r \in rs THEN 0 ELSE age[r]]

NetworkCreated(g) ==
    /\ live' = live \cup {Claim(g)}
    /\ StampedNow({Claim(g)})
    /\ UNCHANGED <<stray, cstate, exitAge>>

VolumeCreated(g, k) ==
    /\ live' = live \cup {<<g, k>>}
    /\ StampedNow({<<g, k>>})
    /\ UNCHANGED <<stray, cstate, exitAge>>

\* A container create re-creates every named volume it mounts that is missing,
\* empty and without labels.
ContainerCreated(r) ==
    /\ live' = live \cup {r}
    /\ stray' = stray \cup {v \in Volumes : v[1] = r[1] /\ v[2] \in Mounts(r) /\ v \notin live}
    /\ cstate' = [cstate EXCEPT ![r] = "created"]
    /\ UNCHANGED <<age, exitAge>>

ContainerStarted(r) ==
    /\ cstate' = [cstate EXCEPT ![r] = "running"]
    /\ UNCHANGED <<live, stray, age, exitAge>>

\* FinishedAt is set whether the process ended or the daemon stopped it.
ContainerExited(r) ==
    /\ cstate' = [cstate EXCEPT ![r] = "exited"]
    /\ exitAge' = IF r \in Runners THEN [exitAge EXCEPT ![r[1]] = 0] ELSE exitAge
    /\ UNCHANGED <<live, stray, age>>

\* A volume is removed by its name, so one the daemon re-created goes as well.
Removed(r) ==
    /\ live' = live \ {r}
    /\ stray' = stray \ {r}
    /\ cstate' = IF r \in Containers THEN [cstate EXCEPT ![r] = "created"] ELSE cstate
    /\ UNCHANGED <<age, exitAge>>

\* Whether the daemon refuses to remove r: a network with an active endpoint, a
\* volume any container references.  A container is removed with force.
RemoveRefused(r) ==
    \/ r \in Networks /\ r \in live /\ NetworkInUse(InstanceName[r[1]])
    \/ r \in live \cup stray /\ VolumeReferenced(r)

-----------------------------------------------------------------------------
(* The host on its own: jobs end, containers die, time passes. *)

ContainerExits ==
    \E r \in Containers : IsRunning(r) /\ ContainerExited(r)

\* Mutant: an age runs past its threshold.
OlderForever(a, limit) == IF a >= 0 THEN a + 1 ELSE a

Older(a, limit) == IF a \in 0 .. limit - 1 THEN a + 1 ELSE a

Tick ==
    /\ age' = [r \in Resource |-> Older(age[r], InflightGrace)]
    /\ exitAge' = [g \in Gen |-> Older(exitAge[g], ExitedGrace)]
    /\ <<age', exitAge'>> # <<age, exitAge>>
    /\ UNCHANGED <<live, stray, cstate>>
=============================================================================
