----------------------------- MODULE CollectProofs -----------------------------
(***************************************************************************)
(* The calls that clean up take what was due when they began, for any      *)
(* number of processes, controllers, names and generations, whatever       *)
(* overlaps them, as long as no second generation was ever created under   *)
(* that name.                                                              *)
(*                                                                         *)
(* The argument: a generation nobody creates any more only gets smaller    *)
(* and older.  So what a call has not read yet of it, has read and has not *)
(* judged yet, or has on its list, is all there is left of it; a verdict   *)
(* can only be that it is abandoned; and no removal is refused, since only *)
(* the generation's own containers hold its volumes and network, and they  *)
(* go first.                                                               *)
(***************************************************************************)
EXTENDS Collect, SweepProofs

USE DEF vars, daemonVars, procVars, callVars, createVars, sweepVars, scopeVars,
        teardownVars, createFrame

-----------------------------------------------------------------------------
(* A generation whose create is over. *)

\* Nobody takes its nonce up, nothing of it appears, it ages, and its runner does not
\* start.
OnlyWanes(g) ==
    /\ \A q \in Proc : gen'[q] # g
    /\ \A r \in live' : r[1] = g => r \in live
    /\ \A r \in Resource : r[1] = g => age'[r] >= age[r]
    /\ \A r \in Runners : r[1] = g /\ IsRunning(r)' => IsRunning(r)

\* The labels a step stamps are those of its own attempt.
LEMMA StampsOwn ==
  ASSUME TypeOK, NEW p \in Proc, GarmCalls(p) \/ ProcStep(p) \/ Killed(p),
         NEW r \in Resource, age'[r] # age[r]
  PROVE  r[1] = gen'[p]
  <1> USE DEF TypeOK, DaemonTypeOK, ProcTypeOK
  <1>1. age' # age
    OBVIOUS
  <1>2. CASE CreateClaimNetwork(p)
    <2>1. PICK g \in Gen : gen'[p] = g /\ (NetworkCreated(g) \/ UNCHANGED daemonVars)
      BY <1>2 DEF CreateClaimNetwork
    <2> QED
      BY <1>1, <2>1 DEF NetworkCreated, StampedNow, Claim
  <1>3. CASE CreateVolume(p)
    BY <1>3 DEF CreateVolume, VolumeCreated, StampedNow
  <1>4. CASE Prepare(p)
    BY <1>4 DEF Prepare, StampedNow
  <1>5. CASE CreateStep(p) /\ ~CreateClaimNetwork(p) /\ ~CreateVolume(p) /\ ~Prepare(p)
    BY <1>1, <1>5 DEF CreateStep, ClassifyConflict, RemoveOwnNetwork, CreateRunner, StartRunner,
         DropRejectedRunner, CreateDind, StartDind, DeliverCredentials, VerifyRunner,
         VerifyDind, CreateFails, Removed, ContainerCreated, ContainerStarted
  <1>6. CASE TeardownStep(p)
    BY <1>1, <1>6 DEF TeardownStep, CaptureGeneration, ListContainers, ListVolumes, ListNetworks,
         ListPhase, CheckLeftover, StopContainer, ContainerExited, RemoveContainer,
         RemoveVolumeOrNetwork, RemoveResource, Removed, TeardownDone
  <1>7. CASE SweepStep(p) \/ DeleteStep(p)
    BY <1>1, <1>7 DEF SweepStep, EnumerateInstanceNames, SweepContainers, SweepNetworks,
         SweepVolumes, InspectRunner, SweepDone, DeleteStep, ResolveContainers,
         ResolveNetworks, ResolveVolumes, ResolveStep
  <1>8. CASE GarmCalls(p) \/ Killed(p)
    BY <1>1, <1>8 DEF GarmCalls, CreateInstance, DeleteInstance, ListInstances,
         RemoveAllInstances, StartCall, Killed
  <1> QED
    BY <1>2, <1>3, <1>4, <1>5, <1>6, <1>7, <1>8 DEF ProcStep

\* Whatever creates, teardowns and exits come next.
LEMMA OverStaysOver ==
  ASSUME TypeOK, OwnershipInv, Next, NEW g \in used, ~Creating(g)
  PROVE  OnlyWanes(g)
  <1> USE DEF TypeOK, DaemonTypeOK
  <1>1. g \in Gen /\ g # None /\ \A q \in Proc : gen[q] # g
    BY AllocationAssumption DEF ProcTypeOK, Creating
  <1>2. ASSUME NEW p \in Proc, GarmCalls(p) \/ ProcStep(p) \/ Killed(p)
        PROVE  OnlyWanes(g)
    <2>1. AddsOwn(p) /\ Local(p)
      BY <1>2, StepAddsOwn, StepIsLocal
    <2>2. \A q \in Proc : gen'[q] # g
      BY <1>1, <2>1 DEF AddsOwn, Local
    <2>3. \A r \in live' : r[1] = g => r \in live
      BY <2>1, <2>2 DEF AddsOwn
    <2>4. \A r \in Resource : r[1] = g => age'[r] >= age[r]
      <3>1. \A r \in Resource : r[1] = g => age'[r] = age[r]
        BY <1>2, <2>2, StampsOwn
      <3> QED
        BY <3>1
    <2>5. \A r \in Runners : r[1] = g /\ IsRunning(r)' => IsRunning(r)
      <3>1. CASE NoneStarts
        BY <3>1 DEF NoneStarts
      <3>2. CASE OneStarts(p)
        <4>1. hand[p][1] = gen[p]
          BY <3>2 DEF OneStarts, OwnershipInv, InPhase, HoldsRunner
        <4> QED
          BY <1>1, <3>2, <4>1 DEF OneStarts
      <3> QED
        BY <1>2, <3>1, <3>2, StepRunners
    <2> QED
      BY <2>2, <2>3, <2>4, <2>5 DEF OnlyWanes
  <1>3. CASE Host
    <2>1. gen' = gen /\ live' = live
      BY <1>3 DEF Host, ContainerExits, ContainerExited, Tick
    <2>2. \A r \in Resource : age'[r] >= age[r]
      <3>1. CASE ContainerExits
        BY <3>1 DEF ContainerExits, ContainerExited
      <3>2. CASE Tick
        <4>1. \A a \in 0 .. InflightGrace : Older(a, InflightGrace) >= a
          BY DaemonAssumption DEF Older
        <4> QED
          BY <3>2, <4>1 DEF Tick
      <3> QED
        BY <1>3, <3>1, <3>2 DEF Host
    <2>3. \A r \in Runners : IsRunning(r)' => IsRunning(r)
      <3>1. CASE ContainerExits
        BY <3>1, ExitEffect DEF ContainerExits, NoneStarts
      <3>2. CASE Tick
        BY <3>2 DEF Tick, IsRunning
      <3> QED
        BY <1>3, <3>1, <3>2 DEF Host
    <2> QED
      BY <1>1, <2>1, <2>2, <2>3 DEF OnlyWanes
  <1> QED
    BY <1>2, <1>3 DEF Next

\* Past the deadlines is past the deadlines for good (topology.go:17-29).
LEMMA GraceStaysPast ==
  ASSUME TypeOK, OwnershipInv, Next, NEW g \in used, OnlyWanes(g), PastGrace(g)
  PROVE  PastGrace(g)'
  <1> USE DEF TypeOK, DaemonTypeOK
  <1>1. g \in Gen /\ \A r \in Resource : age[r] \in Int /\ age'[r] \in Int
    <2>1. g \in Gen
      BY DEF ProcTypeOK
    <2>2. TypeOK'
      BY NextTypes
    <2> QED
      BY <2>1, <2>2
  <1>2. \A r \in Runners : r[1] = g => ~IsRunning(r) /\ ~IsRunning(r)'
    BY DEF OnlyWanes, PastGrace
  <1>3. \A r \in live' : r[1] = g => age'[r] >= InflightGrace
    <2>1. \A r \in live' : r[1] = g => r \in live /\ r \in Resource
      BY DEF OnlyWanes
    <2> QED
      BY <1>1, <2>1, DaemonAssumption DEF OnlyWanes, PastGrace
  <1>4. exitAge'[g] = Never \/ exitAge'[g] >= ExitedGrace
    <2>1. CASE NoneStarts
      BY <1>1, <1>2, <2>1 DEF NoneStarts, PastGrace
    <2>2. ASSUME NEW p \in Proc, GarmCalls(p) \/ ProcStep(p) \/ Killed(p)
          PROVE  exitAge'[g] = Never \/ exitAge'[g] >= ExitedGrace
      BY <2>1, <2>2, StepRunners DEF OneStarts, PastGrace
    <2>3. CASE ContainerExits
      BY <2>1, <2>3, ExitEffect DEF ContainerExits
    <2>4. CASE Tick
      <3>1. exitAge'[g] = Older(exitAge[g], ExitedGrace)
        BY <1>1, <2>4 DEF Tick
      <3>2. exitAge[g] \in {Never} \cup 0 .. ExitedGrace
        BY <1>1
      <3> QED
        BY <3>1, <3>2, DaemonAssumption DEF Older, Never, PastGrace
    <2> QED
      BY <2>2, <2>3, <2>4 DEF Next, Host
  <1> QED
    BY <1>2, <1>3, <1>4 DEF PastGrace

\* Nothing that is left of it is new.
LEMMA LeftWanes ==
  ASSUME NEW g, OnlyWanes(g)
  PROVE  \A rs : LeftOf(g, rs)' \subseteq LeftOf(g, rs)
  BY DEF OnlyWanes, LeftOf

\* Resources are containers, volumes and networks.
LEMMA AllLeft ==
  ASSUME TypeOK, NEW g, LeftOf(g, Containers) = {}, LeftOf(g, Volumes) = {},
         LeftOf(g, Networks) = {}
  PROVE  LeftOf(g, Resource) = {}
  <1>1. Resource = Containers \cup Volumes \cup Networks
    BY DEF Resource, Containers, Volumes, Networks, Kind
  <1> QED
    BY <1>1 DEF LeftOf

\* What is not there at all is gone.
LEMMA NoneLeft ==
  ASSUME TypeOK, NEW g, LeftOf(g, Resource) = {}
  PROVE  Gone(g)
  BY DEF LeftOf, Gone, TypeOK, DaemonTypeOK

\* The only generation under its name is all that a name query can mean.
LEMMA AloneMeans ==
  ASSUME OwnershipInv, NEW g \in used, Alone(g), NEW r \in live, InstanceName[r[1]] = InstanceName[g]
  PROVE  r[1] = g
  BY DEF Alone, OwnershipInv, NoncesDrawn

-----------------------------------------------------------------------------
(* The other processes and the host. *)

\* What process p has to collect stays on its way, whoever else takes the step.
LEMMA OthersCollect ==
  ASSUME TypeOK, OwnershipInv, Next, NEW p \in Proc, NEW g \in Gen,
         Bound(p, g), OnTheWay(p, g),
         UNCHANGED <<pc[p], call[p], target[p], hand[p], names[p], cur[p], noted[p], mode[p],
                     captured[p], todo[p]>>,
         noted[p] \subseteq Resource, used \subseteq used'
  PROVE  Bound(p, g)' /\ OnTheWay(p, g)'
  <1>1. g \in used /\ ~Creating(g)
    BY DEF Bound
  <1>2. OnlyWanes(g)
    BY <1>1, OverStaysOver
  <1>3. \A rs : LeftOf(g, rs)' \subseteq LeftOf(g, rs)
    BY <1>2, LeftWanes
  <1>4. Claim(g) \in live' => Claim(g) \in live
    BY <1>2 DEF OnlyWanes, Claim
  <1>5. Bound(p, g)'
    <2>1. ~Creating(g)'
      BY <1>2 DEF OnlyWanes, Creating
    <2>2. PastGrace(g) => PastGrace(g)'
      BY <1>1, <1>2, GraceStaysPast
    <2>3. ASSUME \A r \in noted[p] : r[1] = g => age[r] >= InflightGrace
          PROVE  \A r \in noted'[p] : r[1] = g => age'[r] >= InflightGrace
      <3>1. \A r \in Resource : age[r] \in Int /\ age'[r] \in Int
        BY NextTypes DEF TypeOK, DaemonTypeOK
      <3> QED
        BY <1>2, <2>3, <3>1, DaemonAssumption DEF OnlyWanes
    <2> QED
      BY <1>1, <2>1, <2>2, <2>3 DEF Bound
  <1>6. OnTheWay(p, g)'
    <2>1. Selects(p, g)' => InTeardown(p, g)'
      <3>1. Selects(p, g)' => Selects(p, g)
        BY DEF Selects
      <3>2. InTeardown(p, g) => InTeardown(p, g)'
        BY <1>3, <1>4 DEF InTeardown, ReadsLiveClaim
      <3> QED
        BY <3>1, <3>2 DEF OnTheWay
    <2>2. InResolve(p, g)'
      BY <1>3 DEF OnTheWay, InResolve
    <2>3. cur'[p] = InstanceName[g] => InSweep(p, g)'
      BY <1>3 DEF OnTheWay, InSweep
    <2>4. call'[p] \in {"list", "create"} => Reaches(p, g)'
      BY <1>3 DEF OnTheWay, Reaches
    <2> QED
      BY <2>1, <2>2, <2>3, <2>4 DEF OnTheWay
  <1> QED
    BY <1>5, <1>6

-----------------------------------------------------------------------------
(* The process itself: its steps either end in nothing left, or keep the rest on the way. *)

Collects(p, g) ==
    IF Finishes(p) THEN Gone(g)' ELSE Bound(p, g)' /\ OnTheWay(p, g)'

\* A step that does not fail takes no mishap, a failed stop apart.
LEMMA NoMishap ==
  ASSUME TypeOK, NEW p \in Proc, ~Fails(p), Mishap
  PROVE  pc'[p] = "remove" \/ (UNCHANGED <<pc[p], todo[p], hand[p], names[p]>>)
  BY DEF Fails, Acts, Mishap, TypeOK, ProcTypeOK

\* A step of a call in progress leaves its scope as it is.
LEMMA BoundStays ==
  ASSUME TypeOK, OwnershipInv, Next, NEW p \in Proc, NEW g \in Gen, Bound(p, g),
         used \subseteq used', call'[p] = call[p], target'[p] = target[p],
         call[p] = "delete" =>
           /\ pc'[p] \in DeletePC \cup TeardownPC
           /\ pc'[p] \in TeardownPC => mode'[p] = "generation" /\ cur'[p] = target[p],
         call[p] = "removeall" => pc'[p] \in TeardownPC /\ mode'[p] = "all",
         call[p] \in {"list", "create"} =>
           /\ pc'[p] \in SweepPC \cup TeardownPC
           /\ pc'[p] \in TeardownPC => mode'[p] = "generation",
         noted[p] \subseteq Resource, noted'[p] \subseteq noted[p] \cup live
  PROVE  Bound(p, g)'
  <1>1. g \in used /\ ~Creating(g)
    BY DEF Bound
  <1>2. OnlyWanes(g)
    BY <1>1, OverStaysOver
  <1>3. ~Creating(g)'
    BY <1>2 DEF OnlyWanes, Creating
  <1>4. PastGrace(g) => PastGrace(g)'
    BY <1>1, <1>2, GraceStaysPast
  <1>5. ASSUME PastGrace(g), \A r \in noted[p] : r[1] = g => age[r] >= InflightGrace
        PROVE  \A r \in noted'[p] : r[1] = g => age'[r] >= InflightGrace
    <2>1. \A r \in Resource : age[r] \in Int /\ age'[r] \in Int
      BY NextTypes DEF TypeOK, DaemonTypeOK
    <2>2. \A r \in noted'[p] : r \in Resource
      BY DEF TypeOK, DaemonTypeOK
    <2>3. \A r \in noted'[p] : r[1] = g => age[r] >= InflightGrace
      BY <1>5 DEF PastGrace
    <2> QED
      BY <1>2, <2>1, <2>2, <2>3, DaemonAssumption DEF OnlyWanes
  <1>6. CASE call[p] = "delete"
    BY <1>1, <1>3, <1>6 DEF Bound
  <1>7. CASE call[p] = "removeall"
    BY <1>1, <1>3, <1>7 DEF Bound
  <1>8. CASE call[p] \notin {"delete", "removeall"}
    BY <1>1, <1>3, <1>4, <1>5, <1>8 DEF Bound
  <1> QED
    BY <1>6, <1>7, <1>8

\* A verdict on the only generation under its name, past both deadlines, is that it is
\* abandoned (sweepInstance).
LEMMA VerdictIsAbandoned ==
  ASSUME TypeOK, OwnershipInv, NEW g \in used, PastGrace(g),
         NEW rs, rs # {}, \A r \in rs : r[1] = g /\ age[r] >= InflightGrace
  PROVE  Abandoned(rs)
  BY DEF Abandoned, PastGrace, HasFinished

\* What a sweep knows of the name when it decides.
ReadAll(p, g, rs) ==
    /\ \A r \in rs : /\ r[1] \in used /\ InstanceName[r[1]] = cur[p]
                     /\ r[1] = g => age[r] >= InflightGrace
    /\ cur[p] = InstanceName[g] => LeftOf(g, Resource) \subseteq rs

\* The decision loses nothing that is due.
LEMMA DecideKeeps ==
  ASSUME TypeOK, OwnershipInv, NEW p \in Proc, NEW g \in used, Alone(g), PastGrace(g),
         call[p] \in {"list", "create"}, Reaches(p, g), pc[p] \in {"sweepVolumes", "inspect"},
         NEW rs, ReadAll(p, g, rs), Decide(p, rs), UNCHANGED <<daemonVars, call, names>>
  PROVE  OnTheWay(p, g)'
  <1> USE DEF TypeOK, ProcTypeOK
  <1>1. LeftOf(g, Resource)' = LeftOf(g, Resource)
    BY DEF LeftOf
  <1>2. CASE Abandoned(rs)
    <2>1. pc'[p] = "capture" /\ cur' = cur /\ hand' = hand /\ mode'[p] = "generation"
      BY <1>2 DEF Decide, Goto
    <2>2. hand[p] = None
      BY DEF OwnershipInv, InPhase, SweepPC
    <2>3. InTeardown(p, g)'
      BY <2>1, <2>2 DEF InTeardown
    <2>4. Reaches(p, g)'
      BY <1>1, <2>1 DEF Reaches
    <2> QED
      BY <2>1, <2>3, <2>4 DEF OnTheWay, InResolve, InSweep
  <1>3. CASE ~Abandoned(rs)
    <2>1. pc'[p] = "sweep" /\ cur'[p] = None
      BY <1>3 DEF Decide, NextName, Goto
    <2>2. InstanceName[g] \in names[p] \/ LeftOf(g, Resource) = {}
      <3>1. CASE cur[p] = InstanceName[g]
        <4>1. \A r \in rs : r[1] = g /\ age[r] >= InflightGrace
          BY <3>1 DEF ReadAll, Alone
        <4>2. rs = {}
          BY <1>3, <4>1, VerdictIsAbandoned
        <4> QED
          BY <3>1, <4>2 DEF ReadAll
      <3>2. CASE cur[p] # InstanceName[g]
        BY <3>2 DEF Reaches
      <3> QED
        BY <3>1, <3>2
    <2>3. Reaches(p, g)'
      BY <1>1, <2>1, <2>2 DEF Reaches
    <2> QED
      BY <2>1, <2>3 DEF OnTheWay, Selects, InResolve, InSweep, TeardownPC
  <1> QED
    BY <1>2, <1>3

\* A step of the sweep.
LEMMA SweepCollects ==
  ASSUME TypeOK, OwnershipInv, Next, NEW p \in Proc, NEW g \in Gen, Alone(g),
         Bound(p, g), OnTheWay(p, g), ReadsName(p), ~Fails(p), SweepStep(p)
  PROVE  Collects(p, g)
  <1> USE DEF TypeOK, ProcTypeOK
  <1>1. /\ pc[p] \in SweepPC /\ UNCHANGED daemonVars
    BY DEF SweepStep, EnumerateInstanceNames, SweepContainers, SweepNetworks, SweepVolumes,
           InspectRunner, SweepDone, SweepPC
  <1>2. /\ g \in used /\ ControllerID[g] = ControllerOf[p] /\ PastGrace(g)
        /\ call[p] \in {"list", "create"} /\ Reaches(p, g)
        /\ \A r \in noted[p] : r[1] = g => age[r] >= InflightGrace
    BY <1>1 DEF Bound, OnTheWay, SweepPC, DeletePC, TeardownPC
  <1>3. \A rs : LeftOf(g, rs)' = LeftOf(g, rs)
    BY <1>1 DEF LeftOf
  <1>4. used \subseteq used' /\ noted[p] \subseteq Resource /\ noted'[p] \subseteq noted[p] \cup live
    BY StepAddsOwn, StepReads DEF AddsOwn, ProcStep
  <1>5. ASSUME UNCHANGED <<call, target>>,
               pc'[p] \in SweepPC \/ (pc'[p] = "capture" /\ mode'[p] = "generation"),
               OnTheWay(p, g)'
        PROVE  Collects(p, g)
    <2>1. Bound(p, g)'
      BY <1>2, <1>4, <1>5, BoundStays DEF TeardownPC, SweepPC
    <2>2. ~Finishes(p)
      BY <1>5 DEF Finishes, SweepPC
    <2> QED
      BY <1>5, <2>1, <2>2 DEF Collects
  <1>6. ASSUME pc'[p] = "sweep", UNCHANGED <<call, target>>,
               InstanceName[g] \in names'[p] \/ LeftOf(g, Resource) = {}
        PROVE  Collects(p, g)
    <2>1. Reaches(p, g)'
      BY <1>3, <1>6 DEF Reaches
    <2>2. OnTheWay(p, g)'
      BY <1>6, <2>1 DEF OnTheWay, Selects, InResolve, InSweep, TeardownPC
    <2> QED
      BY <1>5, <1>6, <2>2 DEF SweepPC
  <1>7. CASE EnumerateInstanceNames(p)
    <2>1. pc[p] = "enumerate" /\ pc'[p] # "enumerate"
      BY <1>7 DEF EnumerateInstanceNames, AfterSweep, Return, Goto
    <2>2. ~Mishap
      BY <2>1, <1>7, NoMishap DEF EnumerateInstanceNames, AfterSweep, Return, Goto
    <2>3. /\ pc'[p] = "sweep" /\ UNCHANGED <<call, target>>
          /\ names'[p] = {x \in Name : InstanceScoped(x, ControllerOf[p]) # {}}
      BY <1>7, <2>2 DEF EnumerateInstanceNames, Goto
    <2>4. InstanceName[g] \in names'[p] \/ LeftOf(g, Resource) = {}
      BY <1>2, <2>3, DaemonAssumption DEF LeftOf, InstanceScoped, MatchesPredicate
    <2> QED
      BY <1>6, <2>3, <2>4
  <1>8. CASE SweepDone(p)
    <2>1. LeftOf(g, Resource)' = {}
      BY <1>2, <1>3, <1>8 DEF SweepDone, Reaches
    <2>2. Gone(g)'
      BY <1>1, <2>1 DEF LeftOf, Gone, DaemonTypeOK
    <2>3. Finishes(p)
      BY <1>8 DEF SweepDone, AfterSweep, Return, Goto, Finishes
    <2> QED
      BY <2>2, <2>3 DEF Collects
  <1>9. CASE SweepContainers(p)
    <2>1. PICK x \in names[p] :
            LET cs == InstanceScoped(x, ControllerOf[p]) \cap Containers IN
            /\ names' = [names EXCEPT ![p] = @ \ {x}]
            /\ \/ /\ \E r \in cs \cap Runners : cstate[r] = "running"
                  /\ NextName(p)
               \/ /\ Goto(p, "sweepNetworks")
                  /\ cur' = [cur EXCEPT ![p] = x]
                  /\ noted' = [noted EXCEPT ![p] = cs]
               \/ Mishap /\ NextName(p)
      BY <1>9 DEF SweepContainers
    <2>2. UNCHANGED <<call, target>> /\ pc[p] = "sweep"
      BY <1>9 DEF SweepContainers
    <2>3. ~Mishap \/ pc'[p] = "remove"
      BY <2>1, NoMishap
    <2>4. InstanceName[g] \in names[p] \/ LeftOf(g, Resource) = {}
      BY <1>2, <2>2 DEF Reaches
    <2>5. ASSUME \E r \in InstanceScoped(x, ControllerOf[p]) \cap Containers \cap Runners :
                   cstate[r] = "running",
                 NextName(p)
          PROVE  Collects(p, g)
      <3>1. PICK r \in live \cap Runners : InstanceName[r[1]] = x /\ cstate[r] = "running"
        BY <2>5 DEF InstanceScoped
      <3>2. x # InstanceName[g]
        BY <1>2, <3>1, AloneMeans DEF PastGrace, IsRunning
      <3> QED
        BY <1>6, <2>1, <2>2, <2>4, <2>5, <3>2 DEF NextName, Goto
    <2>6. ASSUME Goto(p, "sweepNetworks"), cur' = [cur EXCEPT ![p] = x],
                 noted' = [noted EXCEPT ![p] = InstanceScoped(x, ControllerOf[p]) \cap Containers]
          PROVE  Collects(p, g)
      <3>1. pc'[p] = "sweepNetworks" /\ cur'[p] = x
        BY <2>6 DEF Goto
      <3>2. x = InstanceName[g] => LeftOf(g, Containers) \subseteq noted'[p]
        BY <1>2, <2>6 DEF LeftOf, InstanceScoped, MatchesPredicate
      <3>3. Reaches(p, g)'
        BY <1>3, <2>1, <2>4, <3>1 DEF Reaches
      <3>4. OnTheWay(p, g)'
        BY <1>3, <3>1, <3>2, <3>3 DEF OnTheWay, Selects, InResolve, InSweep, TeardownPC
      <3> QED
        BY <1>5, <2>2, <3>1, <3>4 DEF SweepPC
    <2> QED
      BY <2>1, <2>3, <2>5, <2>6 DEF NextName, Goto
  <1>10. CASE SweepNetworks(p)
    <2>1. pc[p] = "sweepNetworks" /\ UNCHANGED <<call, target, names>>
      BY <1>10 DEF SweepNetworks
    <2>2. ~Mishap
      BY <1>10, <2>1, NoMishap DEF SweepNetworks, NextName, Goto, Mishap
    <2>3. /\ pc'[p] = "sweepVolumes" /\ cur' = cur
          /\ noted'[p] = noted[p] \cup (InstanceScoped(cur[p], ControllerOf[p]) \cap Networks)
      BY <1>10, <2>2 DEF SweepNetworks, Goto
    <2>4. cur[p] = InstanceName[g] => LeftOf(g, Containers \cup Networks) \subseteq noted'[p]
      <3>1. cur[p] = InstanceName[g] => LeftOf(g, Containers) \subseteq noted[p]
        BY <2>1 DEF OnTheWay, InSweep
      <3> QED
        BY <1>2, <2>3, <3>1 DEF LeftOf, InstanceScoped, MatchesPredicate
    <2>5. Reaches(p, g)'
      BY <1>2, <1>3, <2>1, <2>3 DEF Reaches
    <2>6. OnTheWay(p, g)'
      BY <1>3, <2>3, <2>4, <2>5 DEF OnTheWay, Selects, InResolve, InSweep, TeardownPC
    <2> QED
      BY <1>5, <2>1, <2>3, <2>6 DEF SweepPC
  <1>11. CASE SweepVolumes(p)
    <2> DEFINE rs == noted[p] \cup (InstanceScoped(cur[p], ControllerOf[p]) \cap Volumes)
    <2>1. pc[p] = "sweepVolumes" /\ UNCHANGED <<call, target, names>>
      BY <1>11 DEF SweepVolumes
    <2>2. ~Mishap
      BY <1>11, <2>1, NoMishap DEF SweepVolumes, NextName, Goto, Mishap
    <2>3. cur[p] = InstanceName[g] => LeftOf(g, Resource) \subseteq rs
      <3>1. cur[p] = InstanceName[g] => LeftOf(g, Containers \cup Networks) \subseteq noted[p]
        BY <2>1 DEF OnTheWay, InSweep
      <3>2. Resource = Containers \cup Volumes \cup Networks
        BY DEF Resource, Containers, Volumes, Networks, Kind
      <3> QED
        BY <1>2, <3>1, <3>2 DEF LeftOf, InstanceScoped, MatchesPredicate
    <2>4. CASE Decide(p, rs)
      <3>1. ReadAll(p, g, rs)
        BY <1>2, <2>3 DEF ReadAll, ReadsName, InstanceScoped, PastGrace, OwnershipInv, NoncesDrawn
      <3>2. OnTheWay(p, g)'
        BY <1>1, <1>2, <2>1, <2>4, <3>1, DecideKeeps
      <3>3. pc'[p] \in SweepPC \/ (pc'[p] = "capture" /\ mode'[p] = "generation")
        BY <2>4 DEF Decide, NextName, Goto, SweepPC
      <3> QED
        BY <1>5, <2>1, <3>2, <3>3
    <2>5. CASE ~Decide(p, rs)
      <3>1. pc'[p] = "inspect" /\ noted'[p] = rs /\ cur' = cur
        BY <1>11, <2>2, <2>5 DEF SweepVolumes, Goto
      <3>2. Reaches(p, g)'
        BY <1>2, <1>3, <2>1, <3>1 DEF Reaches
      <3>3. OnTheWay(p, g)'
        BY <1>3, <2>3, <3>1, <3>2 DEF OnTheWay, Selects, InResolve, InSweep, TeardownPC
      <3> QED
        BY <1>5, <2>1, <3>1, <3>3 DEF SweepPC
    <2> QED
      BY <2>4, <2>5
  <1>12. CASE InspectRunner(p)
    <2>1. pc[p] = "inspect" /\ UNCHANGED <<call, target, names>>
      BY <1>12 DEF InspectRunner
    <2>2. ~Mishap
      BY <1>12, <2>1, NoMishap DEF InspectRunner, NextName, Goto, Mishap
    <2>3. Decide(p, noted[p])
      BY <1>12, <2>2 DEF InspectRunner
    <2>4. ReadAll(p, g, noted[p])
      BY <1>2, <2>1 DEF ReadAll, ReadsName, OnTheWay, InSweep
    <2>5. OnTheWay(p, g)'
      BY <1>1, <1>2, <2>1, <2>3, <2>4, DecideKeeps
    <2>6. pc'[p] \in SweepPC \/ (pc'[p] = "capture" /\ mode'[p] = "generation")
      BY <2>3 DEF Decide, NextName, Goto, SweepPC
    <2> QED
      BY <1>5, <2>1, <2>5, <2>6
  <1> QED
    BY <1>7, <1>8, <1>9, <1>10, <1>11, <1>12 DEF SweepStep

\* A step of a delete before its teardown (resolveInstanceName).
LEMMA DeleteCollects ==
  ASSUME TypeOK, OwnershipInv, Next, NEW p \in Proc, NEW g \in Gen,
         Bound(p, g), OnTheWay(p, g), ReadsName(p), ~Fails(p), DeleteStep(p)
  PROVE  Collects(p, g)
  <1> USE DEF TypeOK, ProcTypeOK
  <1>1. /\ pc[p] \in DeletePC /\ UNCHANGED daemonVars
    BY DEF DeleteStep, ResolveContainers, ResolveNetworks, ResolveVolumes, ResolveStep, DeletePC
  <1>2. /\ g \in used /\ ControllerID[g] = ControllerOf[p]
        /\ call[p] = "delete" /\ target[p] = InstanceName[g]
    BY <1>1 DEF Bound, SweepPC, DeletePC, TeardownPC
  <1>3. \A rs : LeftOf(g, rs)' = LeftOf(g, rs)
    BY <1>1 DEF LeftOf
  <1>4. used \subseteq used' /\ noted[p] \subseteq Resource /\ noted'[p] \subseteq noted[p] \cup live
    BY StepAddsOwn, StepReads DEF AddsOwn, ProcStep
  <1>5. hand[p] = None
    BY <1>1 DEF OwnershipInv, InPhase
  <1>6. ASSUME UNCHANGED <<call, target>>, OnTheWay(p, g)',
               \/ pc'[p] \in DeletePC
               \/ pc'[p] = "capture" /\ mode'[p] = "generation" /\ cur'[p] = target[p]
        PROVE  Collects(p, g)
    <2>1. Bound(p, g)'
      BY <1>2, <1>4, <1>6, BoundStays DEF TeardownPC, DeletePC
    <2>2. ~Finishes(p)
      BY <1>6 DEF Finishes, DeletePC
    <2> QED
      BY <1>6, <2>1, <2>2 DEF Collects
  <1>7. ASSUME NEW from, NEW next, NEW kinds, ResolveStep(p, from, next, kinds),
               from \in DeletePC, next # from
        PROVE  \/ Collects(p, g)
               \/ /\ LeftOf(g, kinds) = {}
                  /\ IF next = "idle" THEN Return(p) ELSE Goto(p, next) /\ UNCHANGED <<call, target>>
    <2>1. pc[p] = from /\ from # "idle" /\ from # "capture"
      BY <1>7 DEF ResolveStep, DeletePC
    <2>2. ~Mishap
      <3>1. ~(Mishap /\ Return(p))
        BY <2>1, NoMishap DEF Return, Goto
      <3> QED
        BY <1>7, <3>1 DEF ResolveStep, Mishap
    <2>3. CASE InstanceScoped(target[p], ControllerOf[p]) \cap kinds # {}
      <3>1. /\ pc'[p] = "capture" /\ mode'[p] = "generation" /\ cur'[p] = target[p]
            /\ UNCHANGED <<call, target, hand>>
        BY <1>7, <2>2, <2>3 DEF ResolveStep, Goto
      <3>2. OnTheWay(p, g)'
        BY <1>2, <1>5, <3>1 DEF OnTheWay, InTeardown, InResolve, InSweep
      <3> QED
        BY <1>6, <3>1, <3>2
    <2>4. CASE InstanceScoped(target[p], ControllerOf[p]) \cap kinds = {}
      <3>1. LeftOf(g, kinds) = {}
        BY <1>2, <2>4 DEF LeftOf, InstanceScoped, MatchesPredicate
      <3>2. IF next = "idle" THEN Return(p) ELSE Goto(p, next) /\ UNCHANGED <<call, target>>
        BY <1>7, <2>2, <2>4 DEF ResolveStep
      <3> QED
        BY <3>1, <3>2
    <2> QED
      BY <2>3, <2>4
  <1>8. ASSUME NEW next \in {"resolveNetworks", "resolveVolumes"},
               Goto(p, next), UNCHANGED <<call, target>>, LeftOf(g, Containers) = {},
               next = "resolveVolumes" => LeftOf(g, Networks) = {}
        PROVE  Collects(p, g)
    <2>1. pc'[p] = next
      BY <1>8 DEF Goto
    <2>2. OnTheWay(p, g)'
      BY <1>2, <1>3, <1>8, <2>1 DEF OnTheWay, Selects, InResolve, InSweep, TeardownPC
    <2> QED
      BY <1>6, <1>8, <2>1, <2>2 DEF DeletePC
  <1>9. CASE ResolveContainers(p)
    BY <1>7, <1>8, <1>9 DEF ResolveContainers, DeletePC
  <1>10. CASE ResolveNetworks(p)
    <2>1. LeftOf(g, Containers) = {}
      BY <1>10 DEF OnTheWay, InResolve, ResolveNetworks, ResolveStep
    <2> QED
      BY <1>7, <1>8, <1>10, <2>1 DEF ResolveNetworks, DeletePC
  <1>11. CASE ResolveVolumes(p)
    <2>1. LeftOf(g, Containers) = {} /\ LeftOf(g, Networks) = {}
      BY <1>11 DEF OnTheWay, InResolve, ResolveVolumes, ResolveStep
    <2>2. Collects(p, g) \/ (LeftOf(g, Volumes) = {} /\ Return(p))
      BY <1>7, <1>11 DEF ResolveVolumes, DeletePC
    <2>3. ASSUME LeftOf(g, Volumes) = {}, Return(p)
          PROVE  Collects(p, g)
      <3>1. LeftOf(g, Resource) = {}
        BY <2>1, <2>3, AllLeft
      <3>2. Gone(g)'
        BY <1>1, <3>1 DEF LeftOf, Gone, DaemonTypeOK
      <3> QED
        BY <2>3, <3>2 DEF Collects, Finishes, Return, Goto
    <2> QED
      BY <2>2, <2>3
  <1> QED
    BY <1>9, <1>10, <1>11 DEF DeleteStep

\* What a step of a teardown that goes on has to keep.
LEMMA TeardownGoesOn ==
  ASSUME TypeOK, OwnershipInv, Next, NEW p \in Proc, NEW g \in Gen,
         Bound(p, g), OnTheWay(p, g), ReadsName(p), TeardownStep(p),
         UNCHANGED <<call[p], target[p], mode[p], cur[p], names[p]>>,
         pc[p] \in TeardownPC, pc'[p] \in TeardownPC,
         Selects(p, g) => InTeardown(p, g)'
  PROVE  Collects(p, g)
  <1> USE DEF TypeOK, ProcTypeOK
  <1>1. used \subseteq used' /\ noted[p] \subseteq Resource /\ noted'[p] \subseteq noted[p] \cup live
    BY StepAddsOwn, StepReads DEF AddsOwn, ProcStep
  <1>2. Bound(p, g)'
    <2>1. /\ call[p] = "delete" => mode[p] = "generation" /\ cur[p] = target[p]
          /\ call[p] = "removeall" => mode[p] = "all"
          /\ call[p] \in {"list", "create"} => mode[p] = "generation"
      BY DEF Bound
    <2> QED
      BY <1>1, <2>1, BoundStays
  <1>3. \A rs : LeftOf(g, rs)' \subseteq LeftOf(g, rs)
    BY OverStaysOver, LeftWanes DEF Bound
  <1>4. call[p] \in {"list", "create"} => Reaches(p, g)'
    BY <1>3 DEF OnTheWay, Reaches, TeardownPC
  <1>5. Selects(p, g)' => InTeardown(p, g)'
    BY DEF Selects
  <1>6. OnTheWay(p, g)'
    BY <1>4, <1>5 DEF OnTheWay, InResolve, InSweep, TeardownPC
  <1>7. ~Finishes(p)
    BY DEF Finishes, TeardownPC
  <1> QED
    BY <1>2, <1>6, <1>7 DEF Collects

\* A list shows all that is left of its kind, and the gate lets it through.
LEMMA ListsAllLeft ==
  ASSUME TypeOK, OwnershipInv, NEW p \in Proc, NEW g \in Gen, pc[p] \in TeardownPC \ {"capture"},
         Bound(p, g), Selects(p, g), InTeardown(p, g), NEW rs, NEW r \in LeftOf(g, rs)
  PROVE  r \in Matching(p) \cap rs /\ (ReadsLiveClaim(p) \/ MayRemove(p, r))
  <1>1. r \in live \cap rs /\ r[1] = g /\ ControllerID[g] = ControllerOf[p]
    BY DEF LeftOf, Bound
  <1>2. mode[p] \in {"generation", "all"}
    BY DEF Bound
  <1>3. r \in Matching(p)
    <2>1. CASE mode[p] = "all"
      BY <1>1, <2>1 DEF Matching, MatchesPredicate
    <2>2. CASE mode[p] = "generation"
      BY <1>1, <2>2 DEF Matching, InstanceScoped, MatchesPredicate, Selects
    <2> QED
      BY <1>2, <2>1, <2>2
  <1>4. ReadsLiveClaim(p) \/ MayRemove(p, r)
    <2>1. CASE mode[p] = "all"
      BY <1>1, <2>1 DEF MayRemove, MatchesPredicate
    <2>2. CASE mode[p] = "generation"
      <3>1. captured[p] = g \/ captured[p] = None
        BY <2>2 DEF InTeardown
      <3>2. g # None
        BY AllocationAssumption
      <3> QED
        BY <1>1, <2>2, <3>1, <3>2 DEF MayRemove, MatchesPredicate, ReadsLiveClaim
    <2> QED
      BY <1>2, <2>1, <2>2
  <1> QED
    BY <1>1, <1>3, <1>4

\* The three lists.
LEMMA ListCollects ==
  ASSUME TypeOK, OwnershipInv, Next, NEW p \in Proc, NEW g \in Gen,
         Bound(p, g), OnTheWay(p, g), ReadsName(p), ~Fails(p),
         ListContainers(p) \/ ListVolumes(p) \/ ListNetworks(p)
  PROVE  Collects(p, g)
  <1> USE DEF TypeOK, ProcTypeOK
  <1> DEFINE listed(kinds) == {r \in Matching(p) \cap kinds : ReadsLiveClaim(p) \/ MayRemove(p, r)}
  <1>1. ASSUME NEW from \in {"teardown", "containers", "volumes"},
               NEW to \in {"containers", "volumes", "networks"}, from # to,
               NEW kinds, ListPhase(p, from, to, kinds)
        PROVE  /\ pc[p] = from /\ pc'[p] = to /\ todo[p] = {} /\ hand[p] = None /\ hand' = hand
               /\ todo'[p] = listed(kinds)
               /\ UNCHANGED <<daemonVars, call, target, mode, cur, names, captured>>
    <2>1. pc[p] = from /\ pc'[p] = to
      BY <1>1 DEF ListPhase, Goto
    <2>2. ~Mishap
      BY <1>1, <2>1, NoMishap
    <2> QED
      BY <1>1, <2>1, <2>2 DEF ListPhase
  <1> HIDE DEF listed
  <1>2. UNCHANGED daemonVars /\ \A rs : LeftOf(g, rs)' = LeftOf(g, rs)
    BY DEF ListContainers, ListVolumes, ListNetworks, ListPhase, LeftOf
  <1>3. None \notin Resource
    BY AllocationAssumption
  <1>4. ASSUME pc[p] \in TeardownPC \ {"capture"}, Selects(p, g), NEW kinds
        PROVE  LeftOf(g, kinds) \subseteq listed(kinds)
    BY <1>4, ListsAllLeft DEF OnTheWay, listed
  <1>5. \A kinds : listed(kinds) \subseteq kinds
    BY DEF listed
  <1>6. TeardownStep(p)
    BY DEF TeardownStep
  <1>7. CASE ListContainers(p)
    <2>1. /\ pc[p] = "teardown" /\ pc'[p] = "containers" /\ hand[p] = None /\ hand' = hand
          /\ todo'[p] = listed(Containers)
          /\ UNCHANGED <<daemonVars, call, target, mode, cur, names, captured>>
      BY <1>1, <1>7 DEF ListContainers
    <2>2. Selects(p, g) => InTeardown(p, g)'
      <3>1. Selects(p, g) => LeftOf(g, Containers) \subseteq listed(Containers)
        BY <1>4, <2>1 DEF TeardownPC
      <3> QED
        BY <1>2, <1>5, <2>1, <3>1 DEF OnTheWay, InTeardown
    <2> QED
      BY <1>6, <2>1, <2>2, TeardownGoesOn DEF TeardownPC
  <1>8. CASE ListVolumes(p)
    <2>1. /\ pc[p] = "containers" /\ pc'[p] = "volumes" /\ hand[p] = None /\ hand' = hand
          /\ todo[p] = {} /\ todo'[p] = listed(Volumes)
          /\ UNCHANGED <<daemonVars, call, target, mode, cur, names, captured>>
      BY <1>1, <1>8 DEF ListVolumes
    <2>2. Selects(p, g) => InTeardown(p, g)'
      <3>1. Selects(p, g) => LeftOf(g, Volumes) \subseteq listed(Volumes)
        BY <1>4, <2>1 DEF TeardownPC
      <3>2. Selects(p, g) => LeftOf(g, Containers) \subseteq {None}
        BY <2>1 DEF OnTheWay, InTeardown
      <3>3. Selects(p, g) => LeftOf(g, Containers) = {}
        BY <1>3, <3>2 DEF LeftOf, DaemonTypeOK
      <3> QED
        BY <1>2, <2>1, <3>1, <3>3 DEF OnTheWay, InTeardown
    <2> QED
      BY <1>6, <2>1, <2>2, TeardownGoesOn DEF TeardownPC
  <1>9. CASE ListNetworks(p)
    <2>1. /\ pc[p] = "volumes" /\ pc'[p] = "networks" /\ hand[p] = None /\ hand' = hand
          /\ todo[p] = {} /\ todo'[p] = listed(Networks)
          /\ UNCHANGED <<daemonVars, call, target, mode, cur, names, captured>>
      BY <1>1, <1>9 DEF ListNetworks
    <2>2. Selects(p, g) => InTeardown(p, g)'
      <3>1. Selects(p, g) => LeftOf(g, Networks) \subseteq listed(Networks)
        BY <1>4, <2>1 DEF TeardownPC
      <3>2. Selects(p, g) => LeftOf(g, Volumes) \subseteq {None} /\ LeftOf(g, Containers) = {}
        BY <2>1 DEF OnTheWay, InTeardown
      <3>3. Selects(p, g) => LeftOf(g, Volumes) = {}
        BY <1>3, <3>2 DEF LeftOf, DaemonTypeOK
      <3> QED
        BY <1>2, <2>1, <3>1, <3>2, <3>3 DEF OnTheWay, InTeardown
    <2> QED
      BY <1>6, <2>1, <2>2, TeardownGoesOn DEF TeardownPC
  <1> QED
    BY <1>7, <1>8, <1>9

\* The capture: the claim it finds is that of the generation, or there is none.
LEMMA CaptureCollects ==
  ASSUME TypeOK, OwnershipInv, Next, NEW p \in Proc, NEW g \in Gen, Alone(g),
         Bound(p, g), OnTheWay(p, g), ReadsName(p), ~Fails(p), CaptureGeneration(p)
  PROVE  Collects(p, g)
  <1> USE DEF TypeOK, ProcTypeOK
  <1> DEFINE x == cur[p]
             c == ControllerOf[p]
             gs == {h \in Gen : Claim(h) \in InstanceScoped(x, c)}
  <1>1. pc[p] = "capture" /\ mode[p] = "generation" /\ hand[p] = None
    BY DEF CaptureGeneration, OwnershipInv, InPhase
  <1>2. ~Mishap
    <2>1. ~(Mishap /\ TeardownReturns(p))
      BY <1>1, NoMishap DEF TeardownReturns, NextName, Return, Goto
    <2> QED
      BY <2>1 DEF CaptureGeneration, Mishap
  <1>3. /\ pc'[p] = "teardown" /\ captured'[p] = ClaimHolder(x, c)
        /\ UNCHANGED <<daemonVars, call, target, hand, names, cur, mode>>
    BY <1>2 DEF CaptureGeneration, Goto
  <1>4. ASSUME Selects(p, g)
        PROVE  InTeardown(p, g)'
    <2>1. g \in used /\ g # None /\ ControllerID[g] = c /\ InstanceName[g] = x
      BY <1>1, <1>4, AllocationAssumption DEF Bound, Selects, Mode
    <2>2. \A h \in gs : h = g
      BY <2>1 DEF InstanceScoped, Claim, Alone, OwnershipInv, NoncesDrawn
    <2>3. Claim(g) \in live => g \in gs
      BY <2>1 DEF InstanceScoped, MatchesPredicate, Claim
    <2>4. ClaimHolder(x, c) = g \/ (ClaimHolder(x, c) = None /\ Claim(g) \notin live)
      <3>1. CASE gs = {}
        BY <2>3, <3>1 DEF ClaimHolder
      <3>2. CASE gs # {}
        <4>1. ClaimHolder(x, c) = CHOOSE h \in gs : TRUE
          BY <3>2 DEF ClaimHolder
        <4>2. (CHOOSE h \in gs : TRUE) \in gs
          BY <3>2
        <4> QED
          BY <2>2, <4>1, <4>2
      <3> QED
        BY <3>1, <3>2
    <2> QED
      BY <1>1, <1>3, <2>4 DEF InTeardown
  <1> QED
    BY <1>1, <1>3, <1>4, TeardownGoesOn DEF TeardownPC, TeardownStep

\* The leftover check lets through what carries no live claim.
LEMMA CheckCollects ==
  ASSUME TypeOK, OwnershipInv, Next, NEW p \in Proc, NEW g \in Gen,
         Bound(p, g), OnTheWay(p, g), ReadsName(p), ~Fails(p), CheckLeftover(p)
  PROVE  Collects(p, g)
  <1> USE DEF TypeOK, ProcTypeOK
  <1>1. /\ pc[p] \in {"containers", "volumes", "networks"} /\ pc' = pc /\ hand[p] = None
        /\ mode[p] = "generation" /\ captured[p] = None
        /\ UNCHANGED <<daemonVars, call, target, names, cur, mode, captured>>
    BY DEF CheckLeftover, ReadsLiveClaim
  <1>2. PICK r \in todo[p] :
          /\ todo' = [todo EXCEPT ![p] = @ \ {r}]
          /\ \/ Hold(p, IF MayRemove(p, r) THEN r ELSE None)
             \/ Mishap
    BY DEF CheckLeftover, First
  <1>3. ~Mishap
    <2>1. todo'[p] # todo[p]
      BY <1>2
    <2> QED
      BY <1>1, <2>1, NoMishap
  <1>4. ASSUME Selects(p, g)
        PROVE  InTeardown(p, g)'
    <2>1. g # None /\ InTeardown(p, g)
      BY <1>4, AllocationAssumption DEF OnTheWay
    <2>2. Claim(g) \notin live
      BY <1>1, <2>1 DEF InTeardown
    <2>3. r[1] = g => MayRemove(p, r)
      <3>1. ASSUME r[1] = g
            PROVE  g # ClaimHolder(InstanceName[g], ControllerOf[p])
        <4> DEFINE gs == {h \in Gen : Claim(h) \in InstanceScoped(InstanceName[g], ControllerOf[p])}
        <4>1. g \notin gs
          BY <2>2 DEF InstanceScoped
        <4>2. gs # {} => (CHOOSE h \in gs : TRUE) \in gs
          OBVIOUS
        <4>3. ClaimHolder(InstanceName[g], ControllerOf[p]) =
                IF gs = {} THEN None ELSE CHOOSE h \in gs : TRUE
          BY DEF ClaimHolder
        <4> HIDE DEF gs
        <4> QED
          BY <2>1, <4>1, <4>2, <4>3
      <3> QED
        BY <1>1, <3>1 DEF MayRemove, MatchesPredicate, Bound
    <2>4. todo'[p] = todo[p] \ {r} /\ hand'[p] \in {r, None} /\ (r[1] = g => hand'[p] = r)
      BY <1>2, <1>3, <2>3 DEF Hold
    <2>5. \A rs : LeftOf(g, rs) \subseteq todo[p] \cup {hand[p]} =>
                    LeftOf(g, rs)' \subseteq todo'[p] \cup {hand'[p]}
      <3>1. \A s \in live : s # None
        BY AllocationAssumption DEF DaemonTypeOK
      <3> QED
        BY <1>1, <2>4, <3>1 DEF LeftOf
    <2>6. \A rs : LeftOf(g, rs)' = LeftOf(g, rs)
      BY <1>1 DEF LeftOf
    <2>7. pc[p] = "containers" => todo'[p] \cup {hand'[p]} \subseteq Containers \cup {None}
      BY <1>1, <2>1, <2>4 DEF InTeardown
    <2> QED
      BY <1>1, <2>1, <2>2, <2>5, <2>6, <2>7 DEF InTeardown, ReadsLiveClaim
  <1> QED
    BY <1>1, <1>4, TeardownGoesOn DEF TeardownPC, TeardownStep

\* A stopped container stays in hand until it is removed.
LEMMA StopCollects ==
  ASSUME TypeOK, OwnershipInv, Next, NEW p \in Proc, NEW g \in Gen,
         Bound(p, g), OnTheWay(p, g), ReadsName(p), StopContainer(p)
  PROVE  Collects(p, g)
  <1> USE DEF TypeOK, ProcTypeOK
  <1>1. /\ pc[p] = "containers" /\ pc'[p] = "remove" /\ live' = live
        /\ UNCHANGED <<call, target, names, cur, mode, captured>>
    BY DEF StopContainer, ContainerExited, Goto
  <1>2. PICK r \in Ready(p) : hand'[p] = r /\ todo'[p] = todo[p] \ {r}
    BY DEF StopContainer, Hold
  <1>3. ASSUME Selects(p, g)
        PROVE  InTeardown(p, g)'
    <2>1. InTeardown(p, g)
      BY <1>3 DEF OnTheWay
    <2>2. hand[p] = None \/ r = hand[p]
      BY <1>1, <2>1 DEF InTeardown, Ready
    <2>3. r \in todo[p] \cup {hand[p]}
      BY DEF Ready, First
    <2>4. todo'[p] \cup {hand'[p]} \subseteq todo[p] \cup {hand[p]}
      BY <1>2, <2>3
    <2>5. \A rs : LeftOf(g, rs) \subseteq todo[p] \cup {hand[p]} =>
                    LeftOf(g, rs)' \subseteq todo'[p] \cup {hand'[p]}
      <3>1. \A s \in live : s # None
        BY AllocationAssumption DEF DaemonTypeOK
      <3> QED
        BY <1>1, <1>2, <2>2, <3>1 DEF LeftOf
    <2> QED
      BY <1>1, <2>1, <2>4, <2>5 DEF InTeardown
  <1> QED
    BY <1>1, <1>3, TeardownGoesOn DEF TeardownPC, TeardownStep

\* No removal of the generation's own is refused: its containers go first, and nobody
\* else's hold its volumes or its network.
LEMMA NotRefused ==
  ASSUME TypeOK, OwnershipInv, NEW g \in used, Alone(g), NEW r \in Resource, r[1] = g,
         r \in Containers \/ LeftOf(g, Containers) = {}
  PROVE  ~RemoveRefused(r)
  <1>1. r \in Containers => r \notin Networks /\ r \notin Volumes
    BY DEF Containers, Networks, Volumes, ContainerKind, RunnerKind, VolumeKind
  <1>2. CASE r \in Containers
    BY <1>1, <1>2 DEF RemoveRefused, VolumeReferenced
  <1>3. CASE LeftOf(g, Containers) = {}
    <2>1. ~VolumeReferenced(r)
      BY <1>3 DEF VolumeReferenced, LeftOf
    <2>2. ~NetworkInUse(InstanceName[r[1]])
      BY <1>3, AloneMeans DEF NetworkInUse, IsRunning, LeftOf
    <2> QED
      BY <2>1, <2>2 DEF RemoveRefused
  <1> QED
    BY <1>2, <1>3

\* A removal takes off the list only what it removes.
LEMMA RemoveCollects ==
  ASSUME TypeOK, OwnershipInv, Next, NEW p \in Proc, NEW g \in Gen, Alone(g),
         Bound(p, g), OnTheWay(p, g), ReadsName(p), ~Fails(p),
         RemoveContainer(p) \/ RemoveVolumeOrNetwork(p)
  PROVE  Collects(p, g)
  <1> USE DEF TypeOK, ProcTypeOK
  <1>1. PICK r : /\ RemoveResource(p, r)
                 /\ \/ pc[p] = "remove" /\ pc'[p] = "containers" /\ r = hand[p]
                    \/ pc[p] \in {"volumes", "networks"} /\ pc'[p] = pc[p] /\ r \in Ready(p)
    BY DEF RemoveContainer, RemoveVolumeOrNetwork, Goto
  <1>2. /\ UNCHANGED <<call, target, names, cur, mode, captured>>
        /\ todo'[p] = todo[p] \ {r} /\ hand'[p] = None
        /\ pc[p] \in TeardownPC /\ pc'[p] \in TeardownPC
    BY <1>1 DEF RemoveResource, Hold, TeardownPC
  <1>3. r \in todo[p] \cup ({hand[p]} \ {None}) /\ r \in Resource
    BY <1>1 DEF OwnershipInv, InPhase, Ready, First
  <1>4. ~Mishap
    <2>1. pc'[p] # pc[p] \/ todo'[p] # todo[p] \/ hand'[p] # hand[p]
      BY <1>1, <1>2, <1>3
    <2> QED
      BY <1>1, <2>1, NoMishap
  <1>5. (~RemoveRefused(r) /\ live' = live \ {r}) \/ (RemoveRefused(r) /\ live' = live)
    BY <1>1, <1>4 DEF RemoveResource, Removed
  <1>6. ASSUME Selects(p, g)
        PROVE  InTeardown(p, g)'
    <2>1. InTeardown(p, g) /\ g \in used
      BY <1>6 DEF OnTheWay, Bound
    <2>2. r[1] = g => live' = live \ {r}
      <3>1. pc[p] = "remove" => r \in Containers
        BY <1>1, <1>3, <2>1, AllocationAssumption DEF InTeardown
      <3>2. pc[p] # "remove" => LeftOf(g, Containers) = {}
        BY <1>1, <2>1 DEF InTeardown
      <3> QED
        BY <1>3, <1>5, <2>1, <3>1, <3>2, NotRefused
    <2>3. hand[p] = None \/ r = hand[p]
      BY <1>1, <2>1 DEF InTeardown, Ready
    <2>4. \A rs : LeftOf(g, rs) \subseteq todo[p] \cup {hand[p]} =>
                    LeftOf(g, rs)' \subseteq todo'[p] \cup {hand'[p]}
      <3>1. \A s \in live : s # None
        BY AllocationAssumption DEF DaemonTypeOK
      <3> QED
        BY <1>2, <1>5, <2>2, <2>3, <3>1 DEF LeftOf
    <2>5. \A rs : LeftOf(g, rs)' \subseteq LeftOf(g, rs)
      BY <1>5 DEF LeftOf
    <2>6. Claim(g) \in live' => Claim(g) \in live
      BY <1>5
    <2>7. pc'[p] = "containers" => /\ LeftOf(g, Containers)' \subseteq todo'[p] \cup {hand'[p]}
                                   /\ todo'[p] \cup {hand'[p]} \subseteq Containers \cup {None}
      BY <1>1, <1>2, <2>1, <2>4 DEF InTeardown
    <2>8. pc'[p] \in {"volumes", "networks"} =>
            /\ LeftOf(g, Containers)' = {}
            /\ pc'[p] = "volumes" => LeftOf(g, Volumes)' \subseteq todo'[p] \cup {hand'[p]}
            /\ pc'[p] = "networks" => /\ LeftOf(g, Volumes)' = {}
                                      /\ LeftOf(g, Networks)' \subseteq todo'[p] \cup {hand'[p]}
      BY <1>1, <2>1, <2>4, <2>5 DEF InTeardown
    <2> QED
      BY <1>1, <1>2, <2>1, <2>6, <2>7, <2>8 DEF InTeardown
  <1> QED
    BY <1>2, <1>6, TeardownGoesOn DEF TeardownStep

\* The end of a teardown.
LEMMA DoneCollects ==
  ASSUME TypeOK, OwnershipInv, Next, NEW p \in Proc, NEW g \in Gen,
         Bound(p, g), OnTheWay(p, g), ReadsName(p), ~Fails(p), TeardownDone(p)
  PROVE  Collects(p, g)
  <1> USE DEF TypeOK, ProcTypeOK
  <1>1. /\ pc[p] = "networks" /\ pc[p] \in TeardownPC /\ todo[p] = {} /\ hand[p] = None
        /\ UNCHANGED daemonVars /\ TeardownReturns(p)
    BY DEF TeardownDone, TeardownPC
  <1>2. Selects(p, g) => LeftOf(g, Resource) = {}
    <2> SUFFICES ASSUME Selects(p, g)
                 PROVE  LeftOf(g, Resource) = {}
      OBVIOUS
    <2>1. LeftOf(g, Containers) = {} /\ LeftOf(g, Volumes) = {} /\ LeftOf(g, Networks) \subseteq {None}
      BY <1>1 DEF OnTheWay, InTeardown
    <2>2. LeftOf(g, Networks) = {}
      BY <2>1, AllocationAssumption DEF LeftOf, DaemonTypeOK
    <2> QED
      BY <2>1, <2>2, AllLeft
  <1>3. \A rs : LeftOf(g, rs)' = LeftOf(g, rs)
    BY <1>1 DEF LeftOf
  <1>4. CASE mode[p] = "generation" /\ call[p] # "delete"
    <2>1. /\ pc'[p] = "sweep" /\ UNCHANGED <<call, target, names>>
      BY <1>1, <1>4 DEF TeardownReturns, NextName, Goto
    <2>2. call[p] \in {"list", "create"} /\ Reaches(p, g)
      BY <1>1, <1>4 DEF Bound, OnTheWay
    <2>3. InstanceName[g] \in names[p] \/ LeftOf(g, Resource) = {}
      BY <1>1, <1>2, <2>2 DEF Reaches, Selects
    <2>4. Reaches(p, g)'
      BY <1>3, <2>1, <2>3 DEF Reaches
    <2>5. OnTheWay(p, g)'
      BY <2>1, <2>4 DEF OnTheWay, Selects, InResolve, InSweep, TeardownPC
    <2>6. used \subseteq used' /\ noted[p] \subseteq Resource /\ noted'[p] \subseteq noted[p] \cup live
      BY StepAddsOwn, StepReads DEF AddsOwn, ProcStep, TeardownStep
    <2>7. Bound(p, g)'
      BY <2>1, <2>2, <2>6, BoundStays DEF SweepPC, TeardownPC
    <2> QED
      BY <2>1, <2>5, <2>7 DEF Collects, Finishes
  <1>5. CASE ~(mode[p] = "generation" /\ call[p] # "delete")
    <2>1. Return(p)
      BY <1>1, <1>5 DEF TeardownReturns
    <2>2. Selects(p, g)
      BY <1>1, <1>5 DEF Bound, Selects
    <2>3. Gone(g)'
      BY <1>1, <1>2, <2>2 DEF LeftOf, Gone, DaemonTypeOK
    <2> QED
      BY <2>1, <2>3 DEF Collects, Finishes, Return, Goto
  <1> QED
    BY <1>4, <1>5

\* A step of the process itself, whatever it is at.
LEMMA OwnStepCollects ==
  ASSUME TypeOK, OwnershipInv, Next, NEW p \in Proc, NEW g \in Gen, Alone(g),
         Bound(p, g), OnTheWay(p, g), ReadsName(p), ~Fails(p),
         GarmCalls(p) \/ ProcStep(p) \/ Killed(p)
  PROVE  Collects(p, g)
  <1>1. pc[p] \in SweepPC \cup TeardownPC \cup DeletePC
    BY DEF Bound
  <1>2. ~GarmCalls(p)
    BY <1>1 DEF GarmCalls, CreateInstance, DeleteInstance, ListInstances, RemoveAllInstances,
         StartCall, SweepPC, TeardownPC, DeletePC
  <1>3. ~Killed(p)
    BY NoMishap DEF Killed, Return, Goto, TypeOK, ProcTypeOK
  <1>4. ~CreateStep(p)
    BY <1>1 DEF CreateStep, CreateClaimNetwork, ClassifyConflict, RemoveOwnNetwork,
         CreateVolume, Prepare, CreateRunner, StartRunner, DropRejectedRunner, CreateDind,
         StartDind, DeliverCredentials, VerifyRunner, VerifyDind, CreateFails, GuardedPC,
         VolumeKind, HoldsRunner, SweepPC, TeardownPC, DeletePC
  <1>5. CASE TeardownStep(p)
    BY <1>5, CaptureCollects, ListCollects, CheckCollects, StopCollects, RemoveCollects,
       DoneCollects DEF TeardownStep
  <1> QED
    BY <1>2, <1>3, <1>4, <1>5, SweepCollects, DeleteCollects DEF ProcStep

\* A call that starts has everything before it.
LEMMA StartCollects ==
  ASSUME TypeOK, OwnershipInv, NEW p \in Proc, ReadsName(p), GarmCalls(p),
         NEW g \in Due(p, call'[p], target'[p])
  PROVE  Bound(p, g)' /\ OnTheWay(p, g)'
  <1> USE DEF TypeOK, ProcTypeOK
  <1>1. /\ pc[p] = "idle" /\ UNCHANGED <<daemonVars, createVars, hand, sweepVars, captured>>
        /\ \/ call'[p] = "delete" /\ pc'[p] = "resolve"
           \/ call'[p] \in {"list", "create"} /\ pc'[p] = "enumerate"
           \/ call'[p] = "removeall" /\ pc'[p] = "teardown" /\ mode'[p] = "all"
    BY DEF GarmCalls, CreateInstance, DeleteInstance, ListInstances, RemoveAllInstances,
           StartCall, Goto
  <1>2. hand[p] = None /\ noted[p] = {}
    BY <1>1 DEF OwnershipInv, InPhase, ReadsName
  <1>3. /\ g \in used /\ ControllerID[g] = ControllerOf[p] /\ ~Creating(g)
        /\ call'[p] = "delete" => InstanceName[g] = target'[p]
        /\ call'[p] \in {"list", "create"} => PastGrace(g)
    BY DEF Due
  <1>4. ~Creating(g)' /\ (PastGrace(g) => PastGrace(g)')
    BY <1>1, <1>3 DEF Creating, PastGrace, IsRunning
  <1>5. Bound(p, g)'
    BY <1>1, <1>2, <1>3, <1>4 DEF Bound, DeletePC, SweepPC, TeardownPC
  <1>6. OnTheWay(p, g)'
    BY <1>1, <1>2 DEF OnTheWay, Selects, InTeardown, InResolve, InSweep, Reaches, TeardownPC
  <1> QED
    BY <1>5, <1>6

\* Every step keeps the invariant.
LEMMA NextCollects ==
  ASSUME TypeOK, OwnershipInv, SweepInv, CollectInv, [CollectNext]_collectVars
  PROVE  CollectInv'
  <1> USE DEF TypeOK, ProcTypeOK
  <1>1. CASE UNCHANGED collectVars
    BY <1>1 DEF collectVars, CollectInv, Alone, Bound, Creating, PastGrace, IsRunning, OnTheWay, Selects,
       InTeardown, ReadsLiveClaim, InResolve, InSweep, Reaches, LeftOf
  <1>2. CASE CollectNext
    <2> SUFFICES ASSUME NEW p \in Proc, NEW g \in doomed'[p]
                 PROVE  Alone(g)' /\ Bound(p, g)' /\ OnTheWay(p, g)'
      BY DEF CollectInv
    <2>1. Next /\ Remember
      BY <1>2 DEF CollectNext
    <2>2. /\ ~Finishes(p) /\ ~Fails(p)
          /\ g \in IF pc[p] = "idle" THEN Due(p, call'[p], target'[p]) ELSE doomed[p]
          /\ Alone(g)'
      BY <2>1 DEF Remember
    <2>3. ReadsName(p) /\ noted[p] \subseteq Resource
      BY DEF SweepInv
    <2>4. CASE pc[p] = "idle"
      <3>1. pc'[p] # "idle"
        BY <2>2 DEF Finishes
      <3>2. PICK q \in Proc : GarmCalls(q) \/ ProcStep(q) \/ Killed(q)
        BY <2>1, <2>4, <3>1 DEF Next, Host
      <3>3. q = p
        BY <2>4, <3>1, <3>2, StepIsLocal DEF Local
      <3>4. GarmCalls(p)
        BY <2>4, <3>2, <3>3 DEF ProcStep, SweepStep, EnumerateInstanceNames, SweepContainers, SweepNetworks,
           SweepVolumes, InspectRunner, SweepDone, TeardownStep, CaptureGeneration,
           ListContainers, ListVolumes, ListNetworks, ListPhase, CheckLeftover, StopContainer,
           RemoveContainer, RemoveVolumeOrNetwork, TeardownDone, DeleteStep, ResolveContainers,
           ResolveNetworks, ResolveVolumes, ResolveStep, CreateStep, CreateClaimNetwork,
           ClassifyConflict, RemoveOwnNetwork, CreateVolume, Prepare, CreateRunner, StartRunner,
           DropRejectedRunner, CreateDind, StartDind, DeliverCredentials, VerifyRunner,
           VerifyDind, CreateFails, GuardedPC, VolumeKind, HoldsRunner, Killed
      <3> QED
        BY <2>2, <2>3, <2>4, <3>4, StartCollects
    <2>5. CASE pc[p] # "idle"
      <3>1. used \subseteq used'
        BY <2>1, StepAddsOwn DEF Next, Host, AddsOwn
      <3>2. Alone(g)
        BY <2>2, <3>1 DEF Alone
      <3>3. Bound(p, g) /\ OnTheWay(p, g)
        BY <2>2, <2>5 DEF CollectInv
      <3>4. g \in Gen
        BY <3>3 DEF Bound
      <3>5. CASE Host
        BY <2>1, <2>2, <2>3, <3>1, <3>3, <3>4, <3>5, OthersCollect DEF Host
      <3>6. ASSUME NEW q \in Proc \ {p}, GarmCalls(q) \/ ProcStep(q) \/ Killed(q)
            PROVE  Bound(p, g)' /\ OnTheWay(p, g)'
        BY <2>1, <2>2, <2>3, <3>1, <3>3, <3>4, <3>6, StepIsLocal, OthersCollect DEF Local
      <3>7. CASE GarmCalls(p) \/ ProcStep(p) \/ Killed(p)
        <4>1. Collects(p, g)
          BY <2>1, <2>2, <2>3, <3>2, <3>3, <3>4, <3>7, OwnStepCollects
        <4> QED
          BY <2>2, <4>1 DEF Collects
      <3> QED
        BY <2>1, <2>2, <3>5, <3>6, <3>7 DEF Next
    <2> QED
      BY <2>4, <2>5
  <1> QED
    BY <1>1, <1>2

-----------------------------------------------------------------------------
(* The theorems. *)

\* The history variable takes nothing from what the processes do.
LEMMA HistoryOnly == CollectSpec => Spec
  <1>1. CollectInit => Init
    BY DEF CollectInit
  <1>2. [CollectNext]_collectVars => [Next]_vars
    BY DEF CollectNext, collectVars
  <1> QED
    BY <1>1, <1>2, PTL DEF CollectSpec, Spec

\* Nothing a call has to collect ever slips past it, whatever overlaps it
\* (TeardownAllocation, SweepOrphans, resolveInstanceName).
THEOREM NothingSlipsPast == CollectSpec => []CollectInv
  <1>1. CollectInit => CollectInv
    BY DEF CollectInit, CollectInv
  <1>2. TypeOK /\ OwnershipInv /\ SweepInv /\ CollectInv /\ [CollectNext]_collectVars => CollectInv'
    BY NextCollects
  <1> QED
    BY <1>1, <1>2, HistoryOnly, TypeCorrect, OwnershipHolds, SweepInvHolds, PTL DEF CollectSpec

\* A call ends with nothing left of what it had to collect, unless one of its own steps
\* failed or it was killed.
THEOREM DueIsCollected == CollectSpec => CollectsWhatIsDue
  <1>1. ASSUME TypeOK, OwnershipInv, SweepInv, CollectInv, [CollectNext]_collectVars,
               NEW p \in Proc, Finishes(p), ~Fails(p), NEW g \in doomed[p]
        PROVE  Gone(g)'
    <2> USE DEF TypeOK, ProcTypeOK
    <2>1. Alone(g) /\ Bound(p, g) /\ OnTheWay(p, g) /\ g \in Gen
      BY <1>1 DEF CollectInv, Bound
    <2>2. pc'[p] # pc[p]
      BY <1>1, <2>1 DEF Bound, Finishes, SweepPC, TeardownPC, DeletePC
    <2>3. Next
      BY <1>1, <2>2 DEF CollectNext, collectVars
    <2>4. PICK q \in Proc : GarmCalls(q) \/ ProcStep(q) \/ Killed(q)
      BY <2>2, <2>3 DEF Next, Host
    <2>5. q = p
      BY <1>1, <2>2, <2>4, StepIsLocal DEF Local
    <2>6. Collects(p, g)
      BY <1>1, <2>1, <2>3, <2>4, <2>5, OwnStepCollects DEF SweepInv
    <2> QED
      BY <1>1, <2>6 DEF Collects
  <1>2. TypeOK /\ OwnershipInv /\ SweepInv /\ CollectInv /\ [CollectNext]_collectVars =>
          [\A p \in Proc : Finishes(p) /\ ~Fails(p) =>
             \A g \in doomed[p] : Gone(g)']_collectVars
    BY <1>1
  <1> QED
    BY <1>2, NothingSlipsPast, HistoryOnly, TypeCorrect, OwnershipHolds, SweepInvHolds, PTL
       DEF CollectSpec, CollectsWhatIsDue

\* Once nobody works on the create of a generation, nothing of it ever appears again:
\* what a later call finds of it is all there will ever be (createFreshVolume,
\* createAndStartRunnerOnce, NetworkCreate).
THEOREM NothingComesBack ==
  Spec => [][\A g \in used : ~Creating(g) =>
               ~Creating(g)' /\ \A r \in live' : r[1] = g => r \in live]_vars
  <1>1. TypeOK /\ OwnershipInv /\ [Next]_vars =>
          [\A g \in used : ~Creating(g) =>
             ~Creating(g)' /\ \A r \in live' : r[1] = g => r \in live]_vars
    BY OverStaysOver DEF OnlyWanes, Creating
  <1> QED
    BY <1>1, TypeCorrect, OwnershipHolds, PTL DEF Spec
=============================================================================
