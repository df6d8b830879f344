------------------------------ MODULE SweepProofs ------------------------------
(***************************************************************************)
(* The orphan sweep of Allocation spares what is young, for any number of  *)
(* names, processes and failures, whatever creates, deletes and other      *)
(* sweeps overlap, as long as no instance name is used for a second        *)
(* generation.                                                             *)
(*                                                                         *)
(* The argument: the claim is made first and everything ages alike, so the *)
(* claim is the oldest resource a sweep reads; and a runner that exited    *)
(* never runs again, so its exit time stays.  Hence the verdict of a sweep *)
(* is still true when it acts on it, however late that is, and a create    *)
(* that is in time keeps what it has made.                                 *)
(***************************************************************************)
EXTENDS TeardownProofs

USE DEF vars, daemonVars, procVars, callVars, createVars, sweepVars, scopeVars,
        teardownVars, createFrame

-----------------------------------------------------------------------------
(* The inductive invariant. *)

\* The same controller uses the same name for both.
SameName(g, h) == InstanceName[g] = InstanceName[h] /\ ControllerID[g] = ControllerID[h]

\* No controller uses an instance name for two generations.
OneGeneration ==
    \A g, h \in Gen : SameName(g, h) => g = h

\* The phases of a create in which its runner has not been started.
BeforeStart == CreatePC \ {"dind", "startDind", "deliver", "verify", "verifyDind"}

NotStarted(g) == \E p \in Proc : gen[p] = g /\ pc[p] \in BeforeStart

\* A generation has one running runner at most, and has none before its start and
\* after an exit.
RunnerInv ==
    /\ \A r \in Runners : IsRunning(r) => ~NotStarted(r[1])
    /\ \A r, s \in Runners : IsRunning(r) /\ IsRunning(s) /\ r[1] = s[1] => r = s
    /\ \A g \in Gen : exitAge[g] # Never =>
         /\ g \in used /\ ~NotStarted(g)
         /\ \A r \in Runners : r[1] = g => ~IsRunning(r)

\* The age of r is that of a resource that exists, has been read, or will be created
\* with the labels Prepare built.
Stamped(r) ==
    \/ r \in live
    \/ \E p \in Proc : r \in noted[p]
    \/ \E p \in Proc : pc[p] \in HoldsRunner /\ gen[p] = r[1] /\ r[2] \in ContainerKind

\* Nothing of a generation is older than its claim.
ClaimOldest == \A r \in Resource : Stamped(r) => age[r] <= age[Claim(r[1])]

\* Old enough to be collected, and from then on.
Ripe(g) == age[Claim(g)] >= InflightGrace \/ exitAge[g] >= ExitedGrace

\* What a sweep has read is of the name it looks at.
ReadsName(p) ==
    /\ noted[p] # {} => pc[p] \in {"sweepNetworks", "sweepVolumes", "inspect"}
    /\ \A r \in noted[p] :
         r[1] \in used /\ InstanceName[r[1]] = cur[p] /\ ControllerID[r[1]] = ControllerOf[p]

\* A sweep that tears down has judged the name, and works on that name alone.
Judged(p) ==
    /\ pc[p] \in DeletePC => call[p] = "delete"
    /\ mode[p] = "generation" =>
         /\ call[p] # "delete" =>
              \E g \in used : /\ InstanceName[g] = cur[p] /\ ControllerID[g] = ControllerOf[p]
                              /\ Ripe(g)
         /\ \A r \in todo[p] \cup ({hand[p]} \ {None}) : InstanceName[r[1]] = cur[p]

SweepInv == RunnerInv /\ ClaimOldest /\ \A p \in Proc : ReadsName(p) /\ Judged(p)

-----------------------------------------------------------------------------
(* What one step does to ages, runners and nonces. *)

\* Ages only grow, or start when something is labelled; that of a claim starts when
\* its nonce is drawn.
AgesGoOn ==
    /\ \A r \in Resource : age'[r] \in {age[r], 0}
    /\ \A g \in used : age'[Claim(g)] = age[Claim(g)]

\* Only the create's own labels start an age.
LEMMA StepAges ==
  ASSUME TypeOK, OwnershipInv, NEW p \in Proc, GarmCalls(p) \/ ProcStep(p) \/ Killed(p)
  PROVE  AgesGoOn
  <1> USE DEF TypeOK, DaemonTypeOK
  <1>1. CASE UNCHANGED age
    BY <1>1 DEF AgesGoOn
  <1>2. ASSUME NEW rs, StampedNow(rs), \A g \in used : Claim(g) \notin rs
        PROVE  AgesGoOn
    BY <1>2 DEF AgesGoOn, StampedNow, Claim, Resource, Kind, ProcTypeOK
  <1>3. CASE CreateClaimNetwork(p)
    BY <1>1, <1>2, <1>3 DEF CreateClaimNetwork, NetworkCreated, Claim
  <1>4. CASE CreateVolume(p)
    <2>1. pc[p] # "network"
      BY <1>4 DEF CreateVolume, VolumeKind
    <2> QED
      BY <1>2, <1>4, <2>1 DEF CreateVolume, VolumeCreated, Claim
  <1>5. CASE Prepare(p)
    BY <1>2, <1>5 DEF Prepare, Claim, ContainerKind, RunnerKind
  <1>6. CASE CreateStep(p) /\ ~CreateClaimNetwork(p) /\ ~CreateVolume(p) /\ ~Prepare(p)
    BY <1>1, <1>6 DEF CreateStep, ClassifyConflict, RemoveOwnNetwork, CreateRunner, StartRunner,
         DropRejectedRunner, CreateDind, StartDind, DeliverCredentials, VerifyRunner,
         VerifyDind, CreateFails, Removed, ContainerCreated, ContainerStarted
  <1>7. CASE TeardownStep(p)
    BY <1>1, <1>7 DEF TeardownStep, CaptureGeneration, ListContainers, ListVolumes, ListNetworks,
         ListPhase, CheckLeftover, StopContainer, ContainerExited, RemoveContainer,
         RemoveVolumeOrNetwork, RemoveResource, Removed, TeardownDone
  <1>8. CASE SweepStep(p) \/ DeleteStep(p)
    BY <1>1, <1>8 DEF SweepStep, EnumerateInstanceNames, SweepContainers, SweepNetworks,
         SweepVolumes, InspectRunner, SweepDone, DeleteStep, ResolveContainers,
         ResolveNetworks, ResolveVolumes, ResolveStep
  <1>9. CASE GarmCalls(p) \/ Killed(p)
    BY <1>1, <1>9 DEF GarmCalls, CreateInstance, DeleteInstance, ListInstances,
         RemoveAllInstances, StartCall, Killed
  <1> QED
    BY <1>3, <1>4, <1>5, <1>6, <1>7, <1>8, <1>9 DEF ProcStep

\* A runner starts in its create, and an exit time is that of a running runner.
NoneStarts ==
    /\ \A r \in Runners : IsRunning(r)' => IsRunning(r)
    /\ \/ exitAge' = exitAge
       \/ \E r \in Runners :
            /\ IsRunning(r) /\ ~IsRunning(r)'
            /\ exitAge' = [exitAge EXCEPT ![r[1]] = 0]

OneStarts(p) ==
    /\ pc[p] = "start" /\ pc'[p] \in {"dind", "deliver"} /\ gen'[p] = gen[p]
    /\ \A r \in Runners : IsRunning(r)' => IsRunning(r) \/ r = hand[p]
    /\ exitAge' = exitAge

\* An exit, whatever caused it.
LEMMA ExitEffect ==
  ASSUME TypeOK, NEW r \in Containers, IsRunning(r), ContainerExited(r)
  PROVE  NoneStarts
  <1> USE DEF TypeOK, DaemonTypeOK
  <1>1. cstate'[r] = "exited" /\ \A s \in Containers \ {r} : cstate'[s] = cstate[s]
    BY DEF ContainerExited
  <1>2. Runners \subseteq Containers
    BY DEF Runners, Containers, ContainerKind
  <1> QED
    BY <1>1, <1>2 DEF ContainerExited, IsRunning, NoneStarts

\* A step starts the runner of its own create, or none.
LEMMA StepRunners ==
  ASSUME TypeOK, NEW p \in Proc, GarmCalls(p) \/ ProcStep(p) \/ Killed(p)
  PROVE  NoneStarts \/ OneStarts(p)
  <1> USE DEF TypeOK, DaemonTypeOK
  <1>1. Runners \subseteq Containers
    BY DEF Runners, Containers, ContainerKind
  <1>2. CASE UNCHANGED <<live, cstate, exitAge>>
    BY <1>2 DEF NoneStarts, IsRunning
  <1>3. ASSUME NEW r, Removed(r)
        PROVE  NoneStarts
    BY <1>1, <1>3 DEF Removed, NoneStarts, IsRunning
  <1>4. CASE CreateClaimNetwork(p)
    BY <1>1, <1>2, <1>4 DEF CreateClaimNetwork, NetworkCreated, Claim, NoneStarts, IsRunning,
         Runners, RunnerKind
  <1>5. CASE CreateVolume(p)
    BY <1>5 DEF CreateVolume, VolumeCreated, NoneStarts, IsRunning, Runners, RunnerKind,
         VolumeKind
  <1>6. ASSUME NEW r, ContainerCreated(r)
        PROVE  NoneStarts
    BY <1>1, <1>6 DEF ContainerCreated, NoneStarts, IsRunning
  <1>7. CASE StartRunner(p)
    <2>1. CASE ContainerStarted(hand[p]) /\ Goto(p, IF Dind(gen[p]) THEN "dind" ELSE "deliver")
      <3>1. pc[p] = "start" /\ pc'[p] \in {"dind", "deliver"} /\ gen' = gen
        BY <1>7, <2>1 DEF StartRunner, Goto, Guarded, ProcTypeOK
      <3>2. exitAge' = exitAge /\ live' = live
        BY <2>1 DEF ContainerStarted
      <3>3. \A r \in Runners : r # hand[p] => cstate'[r] = cstate[r]
        BY <1>1, <2>1 DEF ContainerStarted
      <3> QED
        BY <3>1, <3>2, <3>3 DEF OneStarts, IsRunning
    <2> QED
      BY <1>2, <1>7, <2>1 DEF StartRunner
  <1>8. CASE StartDind(p)
    BY <1>1, <1>2, <1>8 DEF StartDind, ContainerStarted, NoneStarts, IsRunning, Runners, RunnerKind
  <1>9. CASE Prepare(p) \/ ClassifyConflict(p) \/ RemoveOwnNetwork(p) \/ CreateRunner(p)
             \/ DropRejectedRunner(p) \/ CreateDind(p) \/ DeliverCredentials(p)
             \/ VerifyRunner(p) \/ VerifyDind(p) \/ CreateFails(p)
    BY <1>2, <1>3, <1>6, <1>9 DEF Prepare, ClassifyConflict, RemoveOwnNetwork, CreateRunner,
         DropRejectedRunner, CreateDind, DeliverCredentials, VerifyRunner, VerifyDind, CreateFails
  <1>10. CASE StopContainer(p)
    <2>1. CASE ~(\E r \in Ready(p) : IF IsRunning(r) THEN ContainerExited(r)
                                                     ELSE UNCHANGED daemonVars)
      BY <1>2, <1>10, <2>1 DEF StopContainer
    <2>2. ASSUME NEW r, IsRunning(r), ContainerExited(r)
          PROVE  NoneStarts
      BY <1>1, <2>2, ExitEffect DEF ContainerExited, NoneStarts, IsRunning
    <2> QED
      BY <1>2, <2>1, <2>2
  <1>11. CASE TeardownStep(p) /\ ~StopContainer(p)
    BY <1>2, <1>3, <1>11 DEF TeardownStep, CaptureGeneration, ListContainers, ListVolumes,
         ListNetworks, ListPhase, CheckLeftover, RemoveContainer, RemoveVolumeOrNetwork,
         RemoveResource, TeardownDone
  <1>12. CASE SweepStep(p) \/ DeleteStep(p)
    BY <1>2, <1>12 DEF SweepStep, EnumerateInstanceNames, SweepContainers, SweepNetworks,
         SweepVolumes, InspectRunner, SweepDone, DeleteStep, ResolveContainers,
         ResolveNetworks, ResolveVolumes, ResolveStep
  <1>13. CASE GarmCalls(p) \/ Killed(p)
    BY <1>2, <1>13 DEF GarmCalls, CreateInstance, DeleteInstance, ListInstances,
         RemoveAllInstances, StartCall, Killed
  <1> QED
    BY <1>4, <1>5, <1>7, <1>8, <1>9, <1>10, <1>11, <1>12, <1>13 DEF ProcStep, CreateStep

\* A create comes to its runner's start with the nonce it drew.
LEMMA StepNotStarted ==
  ASSUME TypeOK, OwnershipInv, SettledInv, NEW p \in Proc,
         GarmCalls(p) \/ ProcStep(p) \/ Killed(p), NEW g \in used, NotStarted(g)'
  PROVE  NotStarted(g)
  <1> USE DEF TypeOK, ProcTypeOK
  <1>1. PICK q \in Proc : gen'[q] = g /\ pc'[q] \in BeforeStart
    BY DEF NotStarted
  <1>2. CASE q # p
    BY <1>1, <1>2, StepIsLocal DEF Local, NotStarted
  <1>3. g \in Gen /\ g # None
    BY AllocationAssumption
  <1>4. ASSUME gen'[p] = g, pc'[p] \in BeforeStart
        PROVE  gen[p] = g /\ pc[p] \in BeforeStart
    <2>1. ~Return(p)
      BY <1>3, <1>4 DEF Return
    <2>2. gen[p] = g
      BY <1>3, <1>4, StepAddsOwn DEF AddsOwn
    <2>3. pc[p] \notin {"idle", "claim", "capture"} \cup SweepPC \cup DeletePC
      BY <1>3, <2>2, NoNonce
    <2>4. pc[p] \in CreatePC \/ mode[p] = "exact"
      BY <1>3, <2>2 DEF SettledInv, Holds
    <2>5. CASE TeardownStep(p)
      <3>1. pc[p] \in TeardownPC /\ mode[p] # "generation"
        BY <2>3, <2>4, <2>5 DEF TeardownStep, CaptureGeneration, ListContainers, ListVolumes, ListNetworks,
           ListPhase, CheckLeftover, StopContainer, RemoveContainer, RemoveVolumeOrNetwork,
           TeardownDone, TeardownPC, CreatePC, SweepPC, DeletePC
      <3>2. pc'[p] \in TeardownPC
        BY <2>1, <2>5, <3>1 DEF TeardownStep, CaptureGeneration, ListContainers, ListVolumes, ListNetworks,
           ListPhase, CheckLeftover, StopContainer, RemoveContainer, RemoveVolumeOrNetwork,
           TeardownDone, TeardownReturns, TeardownPC, Goto
      <3> QED
        BY <1>4, <3>2 DEF BeforeStart, CreatePC, TeardownPC
    <2>6. CASE SweepStep(p) \/ DeleteStep(p) \/ GarmCalls(p)
      BY <2>3, <2>6 DEF GarmCalls, CreateInstance, DeleteInstance, ListInstances, RemoveAllInstances,
           StartCall, SweepStep, EnumerateInstanceNames, SweepContainers, SweepNetworks,
           SweepVolumes, InspectRunner, SweepDone, DeleteStep, ResolveContainers,
           ResolveNetworks, ResolveVolumes, ResolveStep, SweepPC, DeletePC
    <2>7. CASE CreateStep(p)
      <3>1. pc[p] \in CreatePC
        BY <2>7 DEF CreateStep, CreateClaimNetwork, ClassifyConflict, RemoveOwnNetwork,
           CreateVolume, Prepare, CreateRunner, StartRunner, DropRejectedRunner, CreateDind,
           StartDind, DeliverCredentials, VerifyRunner, VerifyDind, CreateFails, GuardedPC,
           VolumeKind, HoldsRunner, CreatePC
      <3>2. CASE pc[p] \in {"dind", "startDind", "deliver", "verify", "verifyDind"}
        <4>1. pc'[p] \in {"startDind", "deliver", "verify", "verifyDind", "teardown"}
          BY <2>1, <2>7, <3>2 DEF CreateStep, CreateClaimNetwork, ClassifyConflict, RemoveOwnNetwork,
           CreateVolume, Prepare, CreateRunner, StartRunner, DropRejectedRunner, CreateDind,
           StartDind, DeliverCredentials, VerifyRunner, VerifyDind, CreateFails, Guarded,
           VolumeKind, Goto
        <4> QED
          BY <1>4, <4>1 DEF BeforeStart, CreatePC
      <3> QED
        BY <2>2, <3>1, <3>2 DEF BeforeStart
    <2> QED
      BY <2>1, <2>5, <2>6, <2>7 DEF ProcStep, Killed
  <1> QED
    BY <1>1, <1>2, <1>4 DEF NotStarted

\* An exited runner stays exited, whatever creates and teardowns overlap.
LEMMA RunnersKept ==
  ASSUME TypeOK, OwnershipInv, SettledInv, RunnerInv, Next
  PROVE  RunnerInv'
  <1> USE DEF TypeOK, DaemonTypeOK
  <1>1. ASSUME NoneStarts, \A g \in used : NotStarted(g)' => NotStarted(g), used \subseteq used'
        PROVE  RunnerInv'
    <2>1. \A r \in Runners : IsRunning(r) => r[1] \in used
      BY DEF OwnershipInv, NoncesDrawn, IsRunning
    <2>2. \A r \in Runners : IsRunning(r)' => ~NotStarted(r[1])'
      BY <1>1, <2>1 DEF NoneStarts, RunnerInv
    <2>3. \A r, s \in Runners : IsRunning(r)' /\ IsRunning(s)' /\ r[1] = s[1] => r = s
      BY <1>1 DEF NoneStarts, RunnerInv
    <2>4. ASSUME NEW g \in Gen, exitAge'[g] # Never
          PROVE  /\ g \in used' /\ ~NotStarted(g)'
                 /\ \A r \in Runners : r[1] = g => ~IsRunning(r)'
      <3>1. CASE exitAge[g] # Never
        BY <1>1, <3>1 DEF NoneStarts, RunnerInv
      <3>2. CASE exitAge[g] = Never
        <4>1. PICK r \in Runners : r[1] = g /\ IsRunning(r) /\ ~IsRunning(r)'
          BY <1>1, <2>4, <3>2 DEF NoneStarts
        <4> QED
          BY <1>1, <2>1, <4>1 DEF NoneStarts, RunnerInv
      <3> QED
        BY <3>1, <3>2
    <2> QED
      BY <2>2, <2>3, <2>4 DEF RunnerInv
  <1>2. ASSUME NEW p \in Proc, GarmCalls(p) \/ ProcStep(p) \/ Killed(p)
        PROVE  RunnerInv'
    <2>1. \A g \in used : NotStarted(g)' => NotStarted(g)
      BY <1>2, StepNotStarted
    <2>2. used \subseteq used'
      BY <1>2, StepAddsOwn DEF AddsOwn
    <2>3. CASE OneStarts(p)
      <3>1. hand[p] \in Runners /\ hand[p][1] = gen[p] /\ gen[p] # None /\ gen[p] \in Gen
        BY <2>3 DEF OneStarts, OwnershipInv, InPhase, HoldsRunner, CreatePC, ProcTypeOK
      <3>2. NotStarted(gen[p]) /\ gen[p] \in used
        BY <2>3, <3>1 DEF OneStarts, NotStarted, BeforeStart, CreatePC, OwnershipInv, NoncesDrawn
      <3>3. exitAge[gen[p]] = Never /\ \A r \in Runners : r[1] = gen[p] => ~IsRunning(r)
        BY <3>1, <3>2 DEF RunnerInv
      <3>4. \A g \in Gen : g = gen[p] => ~NotStarted(g)'
        <4>1. \A q \in Proc \ {p} : gen'[q] # gen[p]
          BY <1>2, <3>1, StepIsLocal DEF Local, SettledInv, OneHolder
        <4> QED
          BY <2>3, <4>1 DEF OneStarts, NotStarted, BeforeStart
      <3>5. \A r \in Runners : IsRunning(r)' => r = hand[p] \/ (IsRunning(r) /\ r[1] # gen[p])
        BY <2>3, <3>3 DEF OneStarts
      <3>6. \A r \in Runners : IsRunning(r)' => ~NotStarted(r[1])'
        <4>1. \A r \in Runners : IsRunning(r) => r[1] \in used /\ ~NotStarted(r[1])
          BY DEF OwnershipInv, NoncesDrawn, IsRunning, RunnerInv
        <4> QED
          BY <2>1, <3>1, <3>4, <3>5, <4>1 DEF Runners
      <3>7. \A r, s \in Runners : IsRunning(r)' /\ IsRunning(s)' /\ r[1] = s[1] => r = s
        BY <3>1, <3>5 DEF RunnerInv
      <3>8. \A g \in Gen : exitAge'[g] # Never =>
              /\ g \in used' /\ ~NotStarted(g)'
              /\ \A r \in Runners : r[1] = g => ~IsRunning(r)'
        BY <2>1, <2>2, <2>3, <3>1, <3>3, <3>5 DEF OneStarts, RunnerInv
      <3> QED
        BY <3>6, <3>7, <3>8 DEF RunnerInv
    <2> QED
      BY <1>1, <1>2, <2>1, <2>2, <2>3, StepRunners
  <1>3. CASE Host
    <2>1. used' = used /\ \A g \in Gen : NotStarted(g)' <=> NotStarted(g)
      BY <1>3 DEF Host, NotStarted
    <2>2. CASE ContainerExits
      <3>1. NoneStarts
        BY <2>2, ExitEffect DEF ContainerExits
      <3> QED
        BY <1>1, <2>1, <3>1 DEF ProcTypeOK
    <2>3. CASE Tick
      <3>1. \A g \in Gen : exitAge'[g] # Never => exitAge[g] # Never
        BY <2>3 DEF Tick, Older, Never
      <3>2. \A r : IsRunning(r)' <=> IsRunning(r)
        BY <2>3 DEF Tick, IsRunning
      <3>3. \A r \in Runners : r[1] \in Gen
        BY DEF Runners
      <3> QED
        BY <2>1, <3>1, <3>2, <3>3 DEF RunnerInv
    <2> QED
      BY <1>3, <2>2, <2>3 DEF Host
  <1> QED
    BY <1>2, <1>3 DEF Next

-----------------------------------------------------------------------------
(* What a sweep reads. *)

\* A sweep notes what exists, under the name it looks at.
LEMMA StepReads ==
  ASSUME TypeOK, OwnershipInv, NEW p \in Proc, GarmCalls(p) \/ ProcStep(p) \/ Killed(p),
         ReadsName(p)
  PROVE  noted'[p] \subseteq noted[p] \cup live /\ ReadsName(p)'
  <1> USE DEF TypeOK, ProcTypeOK, ReadsName
  <1>1. used \subseteq used'
    BY StepAddsOwn DEF AddsOwn
  <1>2. CASE noted'[p] = {}
    BY <1>2
  <1>3. CASE Return(p)
    BY <1>2, <1>3 DEF Return
  <1>4. CASE NextName(p)
    BY <1>2, <1>4 DEF NextName
  <1>5. ASSUME noted'[p] = noted[p], noted[p] = {}
        PROVE  noted'[p] = {}
    BY <1>5
  <1>6. CASE GarmCalls(p) \/ CreateStep(p) \/ DeleteStep(p)
    <2>1. pc[p] \notin {"sweepNetworks", "sweepVolumes", "inspect"}
      BY <1>6 DEF GarmCalls, CreateInstance, DeleteInstance, ListInstances, RemoveAllInstances,
         StartCall, CreateStep, CreateClaimNetwork, ClassifyConflict, RemoveOwnNetwork,
         CreateVolume, Prepare, CreateRunner, StartRunner, DropRejectedRunner, CreateDind,
         StartDind, DeliverCredentials, VerifyRunner, VerifyDind, CreateFails, GuardedPC,
         VolumeKind, HoldsRunner, DeleteStep, ResolveContainers, ResolveNetworks,
         ResolveVolumes, ResolveStep
    <2>2. noted' = noted \/ Return(p)
      BY <1>6 DEF GarmCalls, CreateInstance, DeleteInstance, ListInstances, RemoveAllInstances,
         StartCall, CreateStep, CreateClaimNetwork, ClassifyConflict, RemoveOwnNetwork,
         CreateVolume, Prepare, CreateRunner, StartRunner, DropRejectedRunner, CreateDind,
         StartDind, DeliverCredentials, VerifyRunner, VerifyDind, CreateFails, Guarded,
         DeleteStep, ResolveContainers, ResolveNetworks, ResolveVolumes, ResolveStep
    <2> QED
      BY <1>2, <1>3, <2>1, <2>2
  <1>7. CASE TeardownStep(p)
    <2>1. pc[p] \notin {"sweepNetworks", "sweepVolumes", "inspect"}
      BY <1>7 DEF TeardownStep, CaptureGeneration, ListContainers, ListVolumes, ListNetworks,
         ListPhase, CheckLeftover, StopContainer, RemoveContainer, RemoveVolumeOrNetwork,
         TeardownDone
    <2>2. noted' = noted \/ Return(p) \/ NextName(p)
      BY <1>7 DEF TeardownStep, CaptureGeneration, ListContainers, ListVolumes, ListNetworks,
         ListPhase, CheckLeftover, StopContainer, RemoveContainer, RemoveVolumeOrNetwork,
         RemoveResource, TeardownDone, TeardownReturns
    <2> QED
      BY <1>2, <1>3, <1>4, <2>1, <2>2
  <1>8. CASE EnumerateInstanceNames(p) \/ SweepDone(p)
    <2>1. noted' = noted \/ Return(p)
      BY <1>8 DEF EnumerateInstanceNames, SweepDone, AfterSweep
    <2> QED
      BY <1>2, <1>3, <1>8, <2>1 DEF EnumerateInstanceNames, SweepDone
  <1>9. \A r \in live : r[1] \in used
    BY DEF OwnershipInv, NoncesDrawn
  <1>10. CASE SweepContainers(p)
    <2>1. CASE NextName(p)
      BY <1>4, <2>1
    <2>2. CASE ~NextName(p)
      <3>1. PICK x \in names[p] :
              /\ pc'[p] = "sweepNetworks" /\ cur'[p] = x
              /\ noted'[p] = InstanceScoped(x, ControllerOf[p]) \cap Containers
        BY <1>10, <2>2 DEF SweepContainers, Goto
      <3> QED
        BY <1>1, <1>9, <3>1 DEF InstanceScoped, MatchesPredicate
    <2> QED
      BY <2>1, <2>2
  <1>11. CASE SweepNetworks(p)
    <2>1. CASE NextName(p)
      BY <1>4, <2>1
    <2>2. CASE ~NextName(p)
      <3>1. /\ pc'[p] = "sweepVolumes" /\ cur' = cur
            /\ noted'[p] = noted[p] \cup (InstanceScoped(cur[p], ControllerOf[p]) \cap Networks)
        BY <1>11, <2>2 DEF SweepNetworks, Goto
      <3> QED
        BY <1>1, <1>9, <3>1 DEF InstanceScoped, MatchesPredicate
    <2> QED
      BY <2>1, <2>2
  <1>12. CASE SweepVolumes(p)
    <2>1. CASE NextName(p)
      BY <1>4, <2>1
    <2>2. CASE ~NextName(p)
      <3>1. \/ noted'[p] = {}
            \/ /\ pc'[p] = "inspect" /\ cur' = cur
               /\ noted'[p] = noted[p] \cup (InstanceScoped(cur[p], ControllerOf[p]) \cap Volumes)
        BY <1>12, <2>2 DEF SweepVolumes, Decide, Goto
      <3> QED
        BY <1>1, <1>2, <1>9, <3>1 DEF InstanceScoped, MatchesPredicate
    <2> QED
      BY <2>1, <2>2
  <1>13. CASE InspectRunner(p)
    <2>1. noted'[p] = {}
      BY <1>13 DEF InspectRunner, Decide, NextName
    <2> QED
      BY <1>2, <2>1
  <1> QED
    BY <1>3, <1>6, <1>7, <1>8, <1>10, <1>11, <1>12, <1>13 DEF ProcStep, SweepStep, Killed

\* What a step labels is new.
LEMMA StepStamps ==
  ASSUME TypeOK, OwnershipInv, SettledInv, NEW p \in Proc,
         GarmCalls(p) \/ ProcStep(p) \/ Killed(p), ReadsName(p),
         NEW r \in Resource, Stamped(r)', ~Stamped(r)
  PROVE  age'[r] = 0 \/ r \in Networks
  <1> USE DEF TypeOK, DaemonTypeOK, ProcTypeOK
  <1>1. ASSUME r \in live'
        PROVE  age'[r] = 0 \/ r \in Networks
    <2>1. r \notin live
      BY DEF Stamped
    <2>2. CASE CreateClaimNetwork(p)
      BY <1>1, <2>1, <2>2 DEF CreateClaimNetwork, NetworkCreated, Claim, Networks
    <2>3. CASE CreateVolume(p)
      BY <1>1, <2>1, <2>3 DEF CreateVolume, VolumeCreated, StampedNow
    <2>4. CASE CreateRunner(p) \/ CreateDind(p)
      <3>1. pc[p] \in HoldsRunner /\ hand[p] \in Runners /\ hand[p][1] = gen[p]
        BY <2>4 DEF CreateRunner, CreateDind, HoldsRunner, OwnershipInv, InPhase
      <3>2. r[1] = gen[p] /\ r[2] \in ContainerKind
        BY <1>1, <2>1, <2>4, <3>1 DEF CreateRunner, CreateDind, ContainerCreated, Runners,
           ContainerKind
      <3> QED
        BY <3>1, <3>2 DEF Stamped
    <2>5. CASE CreateStep(p) /\ ~(CreateClaimNetwork(p) \/ CreateVolume(p) \/ CreateRunner(p)
                                  \/ CreateDind(p))
      BY <1>1, <2>1, <2>5 DEF CreateStep, ClassifyConflict, RemoveOwnNetwork, Removed, Prepare,
         StartRunner, ContainerStarted, DropRejectedRunner, StartDind, DeliverCredentials,
         VerifyRunner, VerifyDind, CreateFails
    <2>6. CASE TeardownStep(p)
      BY <1>1, <2>1, <2>6 DEF TeardownStep, CaptureGeneration, ListContainers, ListVolumes,
         ListNetworks, ListPhase, CheckLeftover, StopContainer, ContainerExited,
         RemoveContainer, RemoveVolumeOrNetwork, RemoveResource, Removed, TeardownDone
    <2>7. CASE SweepStep(p) \/ DeleteStep(p) \/ GarmCalls(p) \/ Killed(p)
      BY <1>1, <2>1, <2>7 DEF SweepStep, EnumerateInstanceNames, SweepContainers, SweepNetworks,
         SweepVolumes, InspectRunner, SweepDone, DeleteStep, ResolveContainers,
         ResolveNetworks, ResolveVolumes, ResolveStep, GarmCalls, CreateInstance,
         DeleteInstance, ListInstances, RemoveAllInstances, StartCall, Killed
    <2> QED
      BY <2>2, <2>3, <2>4, <2>5, <2>6, <2>7 DEF ProcStep
  <1>2. \A q \in Proc : r \notin noted'[q]
    BY StepReads, StepIsLocal DEF Local, Stamped
  <1>3. ASSUME pc'[p] \in HoldsRunner, gen'[p] = r[1], r[2] \in ContainerKind
        PROVE  age'[r] = 0
    <2>1. ~Return(p)
      BY <1>3 DEF Return, Goto, HoldsRunner
    <2>2. pc[p] \notin HoldsRunner \/ gen[p] # r[1]
      BY <1>3 DEF Stamped
    <2>3. CASE Prepare(p)
      BY <1>3, <2>3 DEF Prepare, StampedNow, Resource
    <2>4. CASE CreateStep(p) /\ ~Prepare(p)
      BY <1>3, <2>1, <2>2, <2>4 DEF CreateStep, CreateClaimNetwork, ClassifyConflict,
         RemoveOwnNetwork, CreateVolume, AfterVolume, CreateRunner, StartRunner,
         DropRejectedRunner, CreateDind, StartDind, DeliverCredentials, VerifyRunner,
         VerifyDind, CreateFails, Guarded, Goto, HoldsRunner, VolumeKind
    <2>5. CASE TeardownStep(p)
      BY <1>3, <2>1, <2>2, <2>5 DEF TeardownStep, CaptureGeneration, ListContainers,
         ListVolumes, ListNetworks, ListPhase, CheckLeftover, StopContainer, RemoveContainer,
         RemoveVolumeOrNetwork, RemoveResource, TeardownDone, TeardownReturns, NextName, Goto,
         HoldsRunner
    <2>6. CASE SweepStep(p) \/ DeleteStep(p) \/ GarmCalls(p)
      BY <1>3, <2>1, <2>2, <2>6 DEF SweepStep, EnumerateInstanceNames, SweepContainers,
         SweepNetworks, SweepVolumes, InspectRunner, Decide, SweepDone, AfterSweep, NextName,
         DeleteStep, ResolveContainers, ResolveNetworks, ResolveVolumes, ResolveStep,
         GarmCalls, CreateInstance, DeleteInstance, ListInstances, RemoveAllInstances,
         StartCall, Goto, HoldsRunner
    <2> QED
      BY <2>1, <2>3, <2>4, <2>5, <2>6 DEF ProcStep, Killed
  <1>4. \A q \in Proc \ {p} : pc'[q] = pc[q] /\ gen'[q] = gen[q]
    BY StepIsLocal DEF Local
  <1> QED
    BY <1>1, <1>2, <1>3, <1>4 DEF Stamped

\* Whatever has an age belongs to a nonce that was drawn.
LEMMA StampedUsed ==
  ASSUME OwnershipInv, \A p \in Proc : ReadsName(p), NEW r \in Resource, Stamped(r)
  PROVE  r[1] \in used
  BY AllocationAssumption DEF OwnershipInv, NoncesDrawn, ReadsName, Stamped, Resource

\* The claim stays the oldest, since it is made first and time is the same for all.
LEMMA OldestKept ==
  ASSUME TypeOK, OwnershipInv, SettledInv, ClaimOldest, \A p \in Proc : ReadsName(p), Next
  PROVE  ClaimOldest'
  <1> USE DEF TypeOK, DaemonTypeOK, ProcTypeOK
  <1>1. \A r \in Resource : Claim(r[1]) \in Resource /\ age[r] \in Nat /\ age[Claim(r[1])] \in Nat
    BY DaemonAssumption DEF Claim, Resource, Kind
  <1>2. ASSUME NEW p \in Proc, GarmCalls(p) \/ ProcStep(p) \/ Killed(p)
        PROVE  ClaimOldest'
    <2>1. AgesGoOn
      BY <1>2, StepAges
    <2> SUFFICES ASSUME NEW r \in Resource, Stamped(r)'
                 PROVE  age'[r] <= age'[Claim(r[1])]
      BY DEF ClaimOldest, Claim
    <2>2. age'[Claim(r[1])] \in Nat
      BY <1>1, <2>1 DEF AgesGoOn
    <2>3. CASE Stamped(r)
      <3>1. r[1] \in used
        BY <2>3, StampedUsed
      <3> QED
        BY <1>1, <2>1, <2>3, <3>1 DEF AgesGoOn, ClaimOldest
    <2>4. CASE ~Stamped(r)
      <3>1. age'[r] = 0 \/ r \in Networks
        BY <1>2, <2>4, StepStamps
      <3>2. r \in Networks => r = Claim(r[1])
        BY DEF Networks, Claim
      <3>3. r = Claim(r[1]) => age'[r] = age'[Claim(r[1])]
        OBVIOUS
      <3> QED
        BY <2>2, <3>1, <3>2, <3>3
    <2> QED
      BY <2>3, <2>4
  <1>3. CASE Host
    <2>1. \A r : Stamped(r)' <=> Stamped(r)
      BY <1>3 DEF Host, ContainerExits, ContainerExited, Tick, Stamped
    <2>2. CASE ContainerExits
      BY <2>1, <2>2 DEF ContainerExits, ContainerExited, ClaimOldest, Claim
    <2>3. CASE Tick
      <3>1. \A r \in Resource : age[r] \in 0 .. InflightGrace /\ age'[r] = Older(age[r], InflightGrace)
        BY <2>3 DEF Tick
      <3>2. \A a, b \in 0 .. InflightGrace :
              a <= b => Older(a, InflightGrace) <= Older(b, InflightGrace)
        BY DaemonAssumption DEF Older
      <3> QED
        BY <1>1, <2>1, <3>1, <3>2 DEF ClaimOldest, Claim
    <2> QED
      BY <1>3, <2>2, <2>3 DEF Host
  <1> QED
    BY <1>2, <1>3 DEF Next

-----------------------------------------------------------------------------
(* The verdict, and how long it stands. *)

\* What is old enough stays so.
LEMMA RipeStays ==
  ASSUME TypeOK, OwnershipInv, RunnerInv, Next, NEW g \in used, Ripe(g)
  PROVE  Ripe(g)'
  <1> USE DEF TypeOK, DaemonTypeOK
  <1>1. g \in Gen /\ Claim(g) \in Resource
    BY DEF ProcTypeOK, Claim, Resource, Kind
  <1>2. exitAge[g] >= ExitedGrace => exitAge[g] # Never
    BY DaemonAssumption DEF Never
  <1>3. ASSUME NoneStarts, exitAge[g] # Never
        PROVE  exitAge'[g] = exitAge[g]
    BY <1>1, <1>3 DEF NoneStarts, RunnerInv
  <1>4. ASSUME NEW p \in Proc, GarmCalls(p) \/ ProcStep(p) \/ Killed(p)
        PROVE  Ripe(g)'
    <2>1. age'[Claim(g)] = age[Claim(g)]
      BY <1>4, StepAges DEF AgesGoOn
    <2>2. exitAge[g] # Never => exitAge'[g] = exitAge[g]
      BY <1>3, <1>4, StepRunners DEF OneStarts
    <2> QED
      BY <1>2, <2>1, <2>2 DEF Ripe, Claim
  <1>5. CASE Host /\ ContainerExits
    <2>1. age' = age /\ NoneStarts
      BY <1>5, ExitEffect DEF ContainerExits, ContainerExited
    <2> QED
      BY <1>2, <1>3, <2>1 DEF Ripe, Claim
  <1>6. CASE Host /\ Tick
    <2>1. /\ age'[Claim(g)] = Older(age[Claim(g)], InflightGrace)
          /\ exitAge'[g] = Older(exitAge[g], ExitedGrace)
      BY <1>1, <1>6 DEF Tick
    <2>2. age[Claim(g)] \in 0 .. InflightGrace /\ exitAge[g] \in {Never} \cup 0 .. ExitedGrace
      BY <1>1
    <2> QED
      BY <2>1, <2>2, DaemonAssumption DEF Ripe, Claim, Older, Never
  <1> QED
    BY <1>4, <1>5, <1>6 DEF Next, Host

\* A sweep finds abandoned only what is old enough: the claim is no younger than what
\* it read (sweepInstance).
LEMMA VerdictRight ==
  ASSUME TypeOK, ClaimOldest, NEW rs \in SUBSET Resource, \A r \in rs : Stamped(r),
         Abandoned(rs)
  PROVE  \E r \in rs : Ripe(r[1])
  <1> USE DEF TypeOK, DaemonTypeOK
  <1>1. CASE \E r \in rs \cap Runners : HasFinished(r)
    BY <1>1 DEF Abandoned, Ripe
  <1>2. CASE ~(\E r \in rs \cap Runners : HasFinished(r))
    <2>1. PICK r \in rs : age[r] >= InflightGrace
      BY <1>2 DEF Abandoned
    <2>2. age[r] <= age[Claim(r[1])]
      BY DEF ClaimOldest
    <2>3. r \in Resource /\ Claim(r[1]) \in Resource
      BY DEF Claim, Resource, Kind
    <2>4. age[r] \in Int /\ age[Claim(r[1])] \in Int /\ InflightGrace \in Int
      BY <2>3, DaemonAssumption
    <2>5. age[Claim(r[1])] >= InflightGrace
      BY <2>1, <2>2, <2>4
    <2> QED
      BY <2>5 DEF Ripe
  <1> QED
    BY <1>1, <1>2

\* A sweep's teardown is of a name it has judged (sweepInstance, TeardownAllocation).
LEMMA SweepJudges ==
  ASSUME TypeOK, OwnershipInv, ClaimOldest, NEW p \in Proc, ReadsName(p), Judged(p),
         SweepStep(p)
  PROVE  Judged(p)'
  <1> USE DEF TypeOK, DaemonTypeOK, ProcTypeOK
  <1>1. /\ pc[p] \in SweepPC /\ mode[p] = None /\ todo[p] = {} /\ hand[p] = None
    BY DEF SweepStep, EnumerateInstanceNames, SweepContainers, SweepNetworks, SweepVolumes,
           InspectRunner, SweepDone, SweepPC, OwnershipInv, InPhase, TeardownPC
  <1>2. None # "generation"
    BY AllocationAssumption DEF Mode
  <1>3. CASE mode'[p] = None /\ pc'[p] \notin DeletePC
    BY <1>2, <1>3 DEF Judged
  <1>4. CASE Return(p)
    BY <1>3, <1>4 DEF Return, Goto, DeletePC
  <1>5. CASE EnumerateInstanceNames(p) \/ SweepDone(p) \/ SweepContainers(p) \/ SweepNetworks(p)
    <2>1. mode' = mode \/ Return(p)
      BY <1>5 DEF EnumerateInstanceNames, SweepDone, SweepContainers, SweepNetworks, AfterSweep
    <2>2. pc'[p] \notin DeletePC
      BY <1>4, <1>5 DEF EnumerateInstanceNames, SweepDone, SweepContainers, SweepNetworks,
         AfterSweep, Return, NextName, Goto, DeletePC
    <2> QED
      BY <1>1, <1>3, <1>4, <2>1, <2>2
  <1>6. ASSUME NEW rs \in SUBSET Resource, Decide(p, rs), UNCHANGED <<daemonVars, used, todo>>,
               \A r \in rs : /\ Stamped(r) /\ r[1] \in used
                             /\ InstanceName[r[1]] = cur[p]
                             /\ ControllerID[r[1]] = ControllerOf[p]
        PROVE  Judged(p)'
    <2>1. CASE ~Abandoned(rs)
      BY <1>1, <1>3, <1>6, <2>1 DEF Decide, NextName, Goto, DeletePC
    <2>2. CASE Abandoned(rs)
      <3>1. PICK r \in rs : Ripe(r[1])
        BY <1>6, <2>2, VerdictRight
      <3>2. Ripe(r[1])'
        BY <1>6, <3>1 DEF Ripe, Claim
      <3>3. pc'[p] = "capture" /\ cur' = cur /\ hand' = hand /\ used' = used
        BY <1>6, <2>2 DEF Decide, Goto
      <3>4. \E g \in used' : /\ InstanceName[g] = cur'[p] /\ ControllerID[g] = ControllerOf[p]
                             /\ Ripe(g)'
        BY <1>6, <3>1, <3>2, <3>3
      <3> QED
        BY <1>1, <1>6, <3>3, <3>4 DEF Judged, DeletePC
    <2> QED
      BY <2>1, <2>2
  <1>7. CASE SweepVolumes(p)
    <2> DEFINE rs == noted[p] \cup (InstanceScoped(cur[p], ControllerOf[p]) \cap Volumes)
    <2>1. CASE mode' = mode
      BY <1>1, <1>3, <1>7, <2>1 DEF SweepVolumes, Decide, NextName, Goto, DeletePC
    <2>2. CASE mode' # mode
      <3>1. Decide(p, rs) /\ UNCHANGED <<daemonVars, used, todo>>
        BY <1>7, <2>2 DEF SweepVolumes
      <3>2. rs \in SUBSET Resource
        BY DEF InstanceScoped
      <3>3. \A r \in rs : /\ Stamped(r) /\ r[1] \in used
                          /\ InstanceName[r[1]] = cur[p] /\ ControllerID[r[1]] = ControllerOf[p]
        BY DEF Stamped, ReadsName, InstanceScoped, MatchesPredicate, OwnershipInv, NoncesDrawn
      <3> QED
        BY <1>6, <3>1, <3>2, <3>3
    <2> QED
      BY <2>1, <2>2
  <1>8. CASE InspectRunner(p)
    <2>1. CASE mode' = mode
      BY <1>1, <1>3, <1>8, <2>1 DEF InspectRunner, Decide, NextName, Goto, DeletePC
    <2>2. CASE mode' # mode
      <3>1. Decide(p, noted[p]) /\ UNCHANGED <<daemonVars, used, todo>>
        BY <1>8, <2>2 DEF InspectRunner
      <3>2. noted[p] \in SUBSET Resource
        OBVIOUS
      <3>3. \A r \in noted[p] : /\ Stamped(r) /\ r[1] \in used
                                /\ InstanceName[r[1]] = cur[p]
                                /\ ControllerID[r[1]] = ControllerOf[p]
        BY DEF Stamped, ReadsName
      <3> QED
        BY <1>6, <3>1, <3>2, <3>3
    <2> QED
      BY <2>1, <2>2
  <1> QED
    BY <1>5, <1>7, <1>8 DEF SweepStep

\* Outside teardowns by name there is nothing to judge.
LEMMA NoVerdict ==
  ASSUME NEW p \in Proc, mode'[p] # "generation", pc'[p] \in DeletePC => call'[p] = "delete"
  PROVE  Judged(p)'
  BY DEF Judged

\* The end of a call, and of one name's teardown.
LEMMA ReturnJudges ==
  ASSUME TypeOK, NEW p \in Proc, Return(p) \/ TeardownReturns(p)
  PROVE  Judged(p)'
  <1>1. mode'[p] = None /\ pc'[p] \in {"idle", "sweep"}
    BY DEF TeardownReturns, NextName, Return, Goto, TypeOK, ProcTypeOK
  <1> QED
    BY <1>1, NoVerdict, AllocationAssumption DEF Mode, DeletePC

\* A call that starts, a delete before its teardown, and a create.
LEMMA CallJudges ==
  ASSUME TypeOK, OwnershipInv, NEW p \in Proc, Judged(p),
         GarmCalls(p) \/ DeleteStep(p) \/ CreateStep(p)
  PROVE  Judged(p)'
  <1> USE DEF TypeOK, ProcTypeOK
  <1>1. None # "generation"
    BY AllocationAssumption DEF Mode
  <1>2. pc[p] \notin TeardownPC => mode[p] = None /\ todo[p] = {}
    BY DEF OwnershipInv, InPhase
  <1>3. CASE Return(p)
    BY <1>3, ReturnJudges
  <1>4. CASE GarmCalls(p)
    <2>1. pc[p] \notin TeardownPC
      BY <1>4 DEF GarmCalls, CreateInstance, DeleteInstance, ListInstances, RemoveAllInstances,
         StartCall, TeardownPC
    <2>2. mode'[p] \in {mode[p], "all"}
      BY <1>4 DEF GarmCalls, CreateInstance, DeleteInstance, ListInstances, RemoveAllInstances,
         StartCall
    <2>3. pc'[p] \in DeletePC => call'[p] = "delete"
      BY <1>4 DEF GarmCalls, CreateInstance, DeleteInstance, ListInstances, RemoveAllInstances,
         StartCall, Goto, DeletePC
    <2> QED
      BY <1>1, <1>2, <2>1, <2>2, <2>3, NoVerdict
  <1>5. ASSUME NEW from \in DeletePC, NEW next \in DeletePC \cup {"idle"}, NEW kinds,
               ResolveStep(p, from, next, kinds), ~Return(p)
        PROVE  Judged(p)'
    <2>1. pc[p] \in DeletePC /\ call' = call /\ call[p] = "delete"
      BY <1>5 DEF ResolveStep, Judged
    <2>2. hand' = hand /\ todo' = todo /\ hand[p] = None /\ todo[p] = {}
      BY <1>2, <1>5, <2>1 DEF ResolveStep, OwnershipInv, InPhase, TeardownPC, DeletePC
    <2> QED
      BY <2>1, <2>2 DEF Judged
  <1>6. CASE DeleteStep(p)
    BY <1>3, <1>5, <1>6 DEF DeleteStep, ResolveContainers, ResolveNetworks, ResolveVolumes,
       DeletePC
  <1>7. CASE CreateStep(p) /\ ~Return(p)
    <2>1. pc[p] \in CreatePC
      BY <1>7 DEF CreateStep, CreateClaimNetwork, ClassifyConflict, RemoveOwnNetwork,
         CreateVolume, Prepare, CreateRunner, StartRunner, DropRejectedRunner, CreateDind,
         StartDind, DeliverCredentials, VerifyRunner, VerifyDind, CreateFails, GuardedPC,
         VolumeKind, HoldsRunner, CreatePC
    <2>2. mode[p] = None
      BY <1>2, <2>1 DEF CreatePC, TeardownPC
    <2>3. mode' = mode \/ mode'[p] = "exact"
      BY <1>7 DEF CreateStep, CreateClaimNetwork, ClassifyConflict, RemoveOwnNetwork,
         CreateVolume, Prepare, CreateRunner, StartRunner, DropRejectedRunner, CreateDind,
         StartDind, DeliverCredentials, VerifyRunner, VerifyDind, CreateFails, Guarded
    <2>4. pc'[p] \notin DeletePC
      BY <1>7 DEF CreateStep, CreateClaimNetwork, ClassifyConflict, RemoveOwnNetwork,
         CreateVolume, AfterVolume, Prepare, CreateRunner, StartRunner, DropRejectedRunner,
         CreateDind, StartDind, DeliverCredentials, VerifyRunner, VerifyDind, CreateFails,
         Guarded, Goto, DeletePC
    <2> QED
      BY <1>1, <2>2, <2>3, <2>4, NoVerdict
  <1> QED
    BY <1>3, <1>4, <1>6, <1>7

\* A teardown by name lists that name only, and its verdict stands while it works.
LEMMA TeardownJudges ==
  ASSUME TypeOK, OwnershipInv, RunnerInv, NEW p \in Proc, Judged(p), Next, TeardownStep(p)
  PROVE  Judged(p)'
  <1> USE DEF TypeOK, ProcTypeOK
  <1>1. CASE TeardownReturns(p)
    BY <1>1, ReturnJudges
  <1>2. CASE ~TeardownReturns(p)
    <2>1. mode' = mode /\ call' = call /\ cur' = cur /\ used' = used
      BY <1>2 DEF TeardownStep, CaptureGeneration, ListContainers, ListVolumes, ListNetworks,
         ListPhase, CheckLeftover, StopContainer, RemoveContainer, RemoveVolumeOrNetwork,
         RemoveResource, TeardownDone
    <2>2. pc'[p] \notin DeletePC
      BY <1>2 DEF TeardownStep, CaptureGeneration, ListContainers, ListVolumes, ListNetworks,
         ListPhase, CheckLeftover, StopContainer, RemoveContainer, RemoveVolumeOrNetwork,
         RemoveResource, TeardownDone, Goto, DeletePC
    <2>3. \A g \in used : Ripe(g) => Ripe(g)'
      BY RipeStays
    <2>4. ASSUME mode[p] = "generation",
                 NEW r \in todo'[p] \cup ({hand'[p]} \ {None})
          PROVE  InstanceName[r[1]] = cur[p]
      <3>1. \A s \in todo[p] \cup ({hand[p]} \ {None}) : InstanceName[s[1]] = cur[p]
        BY <2>4 DEF Judged
      <3>2. ASSUME NEW from, NEW to, NEW kinds, ListPhase(p, from, to, kinds)
            PROVE  InstanceName[r[1]] = cur[p]
        BY <2>4, <3>1, <3>2 DEF ListPhase, Matching, InstanceScoped
      <3>3. CASE CaptureGeneration(p)
        BY <1>2, <2>4, <3>1, <3>3 DEF CaptureGeneration
      <3>4. CASE CheckLeftover(p)
        BY <2>4, <3>1, <3>4 DEF CheckLeftover, Hold, First
      <3>5. CASE StopContainer(p)
        BY <2>4, <3>1, <3>5 DEF StopContainer, Ready, Hold, First
      <3>6. CASE RemoveContainer(p) \/ RemoveVolumeOrNetwork(p)
        BY <2>4, <3>1, <3>6 DEF RemoveContainer, RemoveVolumeOrNetwork, RemoveResource, Hold
      <3> QED
        BY <1>2, <3>2, <3>3, <3>4, <3>5, <3>6
           DEF TeardownStep, ListContainers, ListVolumes, ListNetworks, TeardownDone
    <2> QED
      BY <2>1, <2>2, <2>3, <2>4 DEF Judged
  <1> QED
    BY <1>1, <1>2

\* Every step keeps the invariant.
LEMMA NextSweeps ==
  ASSUME TypeOK, OwnershipInv, SettledInv, SweepInv, [Next]_vars
  PROVE  SweepInv'
  <1>1. CASE UNCHANGED vars
    BY <1>1 DEF SweepInv, RunnerInv, IsRunning, NotStarted, ClaimOldest, Stamped, Claim,
       ReadsName, Judged, Ripe
  <1>2. CASE Next
    <2>1. RunnerInv' /\ ClaimOldest'
      BY <1>2, RunnersKept, OldestKept DEF SweepInv
    <2>2. \A g \in used : Ripe(g) => Ripe(g)'
      BY <1>2, RipeStays DEF SweepInv
    <2>3. ASSUME NEW q \in Proc, UNCHANGED <<pc[q], call[q], cur[q], mode[q], todo[q], hand[q],
                                            noted[q]>>,
                 used \subseteq used'
          PROVE  ReadsName(q)' /\ Judged(q)'
      BY <2>2, <2>3 DEF SweepInv, ReadsName, Judged
    <2>4. CASE Host
      <3>1. UNCHANGED procVars
        BY <2>4 DEF Host
      <3> QED
        BY <2>1, <2>3, <3>1 DEF SweepInv
    <2>5. ASSUME NEW p \in Proc, GarmCalls(p) \/ ProcStep(p) \/ Killed(p)
          PROVE  SweepInv'
      <3>1. \A q \in Proc \ {p} : ReadsName(q)' /\ Judged(q)'
        BY <2>3, <2>5, StepIsLocal, StepAddsOwn DEF Local, AddsOwn
      <3>2. ReadsName(p)'
        BY <2>5, StepReads DEF SweepInv
      <3>3. Judged(p)'
        <4>1. CASE Killed(p)
          BY <4>1, ReturnJudges DEF Killed
        <4>2. CASE SweepStep(p)
          BY <4>2, SweepJudges DEF SweepInv
        <4>3. CASE TeardownStep(p)
          BY <1>2, <4>3, TeardownJudges DEF SweepInv
        <4>4. CASE GarmCalls(p) \/ DeleteStep(p) \/ CreateStep(p)
          BY <4>4, CallJudges DEF SweepInv
        <4> QED
          BY <2>5, <4>1, <4>2, <4>3, <4>4 DEF ProcStep
      <3> QED
        BY <2>1, <3>1, <3>2, <3>3 DEF SweepInv
    <2> QED
      BY <1>2, <2>4, <2>5 DEF Next
  <1> QED
    BY <1>1, <1>2

-----------------------------------------------------------------------------
(* The theorems. *)

\* Whatever overlaps, a sweep that tears down works on the name it judged, and on
\* nothing younger than its verdict (sweepInstance).
THEOREM SweepInvHolds == Spec => []SweepInv
  <1>1. Init => SweepInv
    BY AllocationAssumption
       DEF Init, DaemonInit, SweepInv, RunnerInv, IsRunning, NotStarted, ClaimOldest, Stamped,
           HoldsRunner, ReadsName, Judged, Mode, DeletePC
  <1>2. TypeOK /\ OwnershipInv /\ SettledInv /\ SweepInv /\ [Next]_vars => SweepInv'
    BY NextSweeps
  <1> QED
    BY <1>1, <1>2, TypeCorrect, OwnershipHolds, SettledHolds, PTL DEF Spec

\* A sweep stops and removes only under a name it judged.
LEMMA SweepTakesJudged ==
  ASSUME TypeOK, OwnershipInv, SweepInv, [Next]_vars,
         NEW p \in Proc, Acts(p), mode[p] = "generation", call[p] # "delete",
         NEW r \in live, \/ r \notin live'
                         \/ r \in Containers /\ IsRunning(r) /\ cstate'[r] # "running"
  PROVE  \E g \in used : SameName(g, r[1]) /\ Ripe(g)
  <1> USE DEF TypeOK, DaemonTypeOK, ProcTypeOK
  <1>1. GarmCalls(p) \/ ProcStep(p) \/ Killed(p)
    <2>1. ~Host /\ ~UNCHANGED vars
      BY DEF Host, Acts
    <2>2. PICK q \in Proc : GarmCalls(q) \/ ProcStep(q) \/ Killed(q)
      BY <2>1 DEF Next
    <2>3. p = q
      BY <2>2, StepIsLocal DEF Local, Acts
    <2> QED
      BY <2>2, <2>3
  <1>2. pc[p] \in TeardownPC
    BY AllocationAssumption DEF OwnershipInv, InPhase, Mode
  <1>0. ~UNCHANGED daemonVars
    BY DEF IsRunning
  <1>3. TeardownStep(p)
    <2>1. ~Killed(p)
      BY <1>0 DEF Killed
    <2>2. ~GarmCalls(p) /\ ~SweepStep(p) /\ ~DeleteStep(p)
      BY <1>2 DEF GarmCalls, CreateInstance, DeleteInstance, ListInstances, RemoveAllInstances,
         StartCall, SweepStep, EnumerateInstanceNames, SweepContainers, SweepNetworks,
         SweepVolumes, InspectRunner, SweepDone, DeleteStep, ResolveContainers,
         ResolveNetworks, ResolveVolumes, ResolveStep, TeardownPC
    <2>3. ~CreateStep(p)
      BY <1>2 DEF CreateStep, CreateClaimNetwork, ClassifyConflict, RemoveOwnNetwork,
         CreateVolume, Prepare, CreateRunner, StartRunner, DropRejectedRunner, CreateDind,
         StartDind, DeliverCredentials, VerifyRunner, VerifyDind, CreateFails, GuardedPC,
         VolumeKind, HoldsRunner, TeardownPC
    <2> QED
      BY <1>1, <2>1, <2>2, <2>3 DEF ProcStep
  <1>4. r \in todo[p] \cup ({hand[p]} \ {None})
    <2>1. ASSUME NEW s, RemoveResource(p, s)
          PROVE  r = s
      BY <1>0, <2>1 DEF RemoveResource, Removed, IsRunning
    <2>2. CASE StopContainer(p)
      <3>1. PICK s \in Ready(p) : IF IsRunning(s) THEN ContainerExited(s) ELSE UNCHANGED daemonVars
        BY <1>0, <2>2 DEF StopContainer
      <3>2. r = s
        <4>1. ContainerExited(s)
          BY <1>0, <3>1
        <4>2. live' = live /\ cstate' = [cstate EXCEPT ![s] = "exited"]
          BY <4>1 DEF ContainerExited
        <4> QED
          BY <4>2 DEF IsRunning
      <3> QED
        BY <3>2 DEF Ready, First
    <2>3. CASE RemoveContainer(p)
      BY <2>1, <2>3 DEF RemoveContainer, OwnershipInv, InPhase
    <2>4. CASE RemoveVolumeOrNetwork(p)
      BY <2>1, <2>4 DEF RemoveVolumeOrNetwork, Ready, First
    <2> QED
      BY <1>0, <1>3, <2>2, <2>3, <2>4 DEF TeardownStep, CaptureGeneration, ListContainers, ListVolumes,
         ListNetworks, ListPhase, CheckLeftover, TeardownDone
  <1>5. InstanceName[r[1]] = cur[p] /\ ControllerID[r[1]] = ControllerOf[p]
    BY <1>2, <1>4 DEF SweepInv, Judged, OwnershipInv, Entitled
  <1>6. PICK g \in used : InstanceName[g] = cur[p] /\ ControllerID[g] = ControllerOf[p] /\ Ripe(g)
    BY DEF SweepInv, Judged
  <1> QED
    BY <1>5, <1>6 DEF SameName

\* Where no name is used twice, that is what it takes.
LEMMA SweepTakesRipe ==
  ASSUME OneGeneration, TypeOK, OwnershipInv, SweepInv, [Next]_vars,
         NEW p \in Proc, Acts(p), mode[p] = "generation", call[p] # "delete",
         NEW r \in live, \/ r \notin live'
                         \/ r \in Containers /\ IsRunning(r) /\ cstate'[r] # "running"
  PROVE  Ripe(r[1])
  <1>1. PICK g \in used : SameName(g, r[1]) /\ Ripe(g)
    BY SweepTakesJudged
  <1>2. g = r[1]
    BY <1>1 DEF SameName, OneGeneration, Resource, TypeOK, DaemonTypeOK, ProcTypeOK
  <1> QED
    BY <1>1, <1>2

\* Whatever overlaps, a sweep takes apart a young generation only if an older one had
\* its name before it, which is the way of the run sweep_reuse: there is no other.
THEOREM YoungTakenByReuse ==
  Spec =>
    [][\A p \in Proc :
         Acts(p) /\ mode[p] = "generation" /\ call[p] # "delete" =>
           \A r \in live :
             \/ r \notin live'
             \/ r \in Containers /\ IsRunning(r) /\ cstate'[r] # "running"
             => \/ Ripe(r[1])
                \/ \E g \in used \ {r[1]} : SameName(g, r[1]) /\ Ripe(g)]_vars
  <1>1. TypeOK /\ OwnershipInv /\ SweepInv /\ [Next]_vars =>
          [\A p \in Proc :
             Acts(p) /\ mode[p] = "generation" /\ call[p] # "delete" =>
               \A r \in live :
                 \/ r \notin live'
                 \/ r \in Containers /\ IsRunning(r) /\ cstate'[r] # "running"
                 => \/ Ripe(r[1])
                    \/ \E g \in used \ {r[1]} : SameName(g, r[1]) /\ Ripe(g)]_vars
    BY SweepTakesJudged
  <1> QED
    BY <1>1, TypeCorrect, OwnershipHolds, SweepInvHolds, PTL DEF Spec

\* As long as no name is used twice, a sweep takes no generation apart before the
\* in-flight deadline of its claim or the grace after its runner's exit, however long
\* ago it read the name and whatever overlaps (sweepInstance; ADR-004, Orphan sweep).
THEOREM YoungSpared == OneGeneration /\ Spec => SweepSparesYoung
  <1>1. OneGeneration /\ TypeOK /\ OwnershipInv /\ SweepInv /\ [Next]_vars =>
          [\A p \in Proc :
             Acts(p) /\ mode[p] = "generation" /\ call[p] # "delete" =>
               \A r \in live :
                 /\ Claim(r[1]) \in live
                 /\ \/ r \notin live'
                    \/ r \in Containers /\ IsRunning(r) /\ cstate'[r] # "running"
                 => \/ age[Claim(r[1])] >= InflightGrace
                    \/ exitAge[r[1]] >= ExitedGrace]_vars
    BY SweepTakesRipe DEF Ripe
  <1>2. OneGeneration => []OneGeneration
    OBVIOUS
  <1> QED
    BY <1>1, <1>2, TypeCorrect, OwnershipHolds, SweepInvHolds, PTL DEF Spec, SweepSparesYoung

-----------------------------------------------------------------------------
(* What a create still has when it ends. *)

\* GARM creates and lists, and nothing else.
OnlySweeps == Calls \subseteq {"create", "list"}

\* Every teardown was asked for by a call GARM makes.
CallsInv ==
    \A p \in Proc : /\ call[p] \in Calls \cup {None}
                    /\ mode[p] = "all" => call[p] = "removeall"

\* Until its generation may be collected, a create finds all it has made so far.
InPlace(p) ==
    gen[p] # None /\ ~Ripe(gen[p]) =>
      /\ pc[p] \in GuardedPC => Claim(gen[p]) \in live
      /\ pc[p] \in GuardedPC \ {"workspace"} => <<gen[p], "workspace">> \in live
      /\ pc[p] = "dind-state" => <<gen[p], "socket">> \in live
      /\ pc[p] \in {"prepare"} \cup HoldsRunner /\ Dind(gen[p])
         => <<gen[p], "socket">> \in live /\ <<gen[p], "dind-state">> \in live
      /\ pc[p] \in HoldsRunner \ {"runner"} => hand[p] \in live
      /\ pc[p] \in {"startDind", "deliver", "verify", "verifyDind"} /\ Dind(gen[p])
         => <<gen[p], "dind">> \in live

WholeInv == CallsInv /\ \A p \in Proc : InPlace(p)

\* A call stays what it is until it returns.
LEMMA CallsKept ==
  ASSUME TypeOK, OwnershipInv, CallsInv, [Next]_vars
  PROVE  CallsInv'
  <1> USE DEF TypeOK, ProcTypeOK
  <1>1. CASE Host \/ UNCHANGED vars
    BY <1>1 DEF Host, CallsInv
  <1>2. ASSUME NEW p \in Proc, GarmCalls(p) \/ ProcStep(p) \/ Killed(p)
        PROVE  CallsInv'
    <2>1. \A q \in Proc \ {p} : call'[q] = call[q] /\ mode'[q] = mode[q]
      BY <1>2, StepIsLocal DEF Local
    <2>2. None # "all"
      BY AllocationAssumption DEF Mode
    <2>3. CASE Return(p)
      <3>1. call'[p] = None /\ mode'[p] = None
        BY <2>3 DEF Return
      <3> QED
        BY <2>1, <2>2, <3>1 DEF CallsInv
    <2>4. CASE GarmCalls(p)
      <3>1. mode[p] # "all"
        BY <2>2, <2>4 DEF GarmCalls, CreateInstance, DeleteInstance, ListInstances,
           RemoveAllInstances, StartCall, OwnershipInv, InPhase, TeardownPC
      <3>2. call'[p] \in Calls
        BY <2>4 DEF GarmCalls, CreateInstance, DeleteInstance, ListInstances,
           RemoveAllInstances, StartCall
      <3>3. mode'[p] = mode[p] \/ call'[p] = "removeall"
        BY <2>4 DEF GarmCalls, CreateInstance, DeleteInstance, ListInstances,
           RemoveAllInstances, StartCall
      <3> QED
        BY <2>1, <3>1, <3>2, <3>3 DEF CallsInv
    <2>5. CASE call' = call /\ mode'[p] \in {mode[p], None, "exact", "generation"}
      BY <2>1, <2>2, <2>5 DEF CallsInv
    <2>6. CASE (SweepStep(p) \/ DeleteStep(p)) /\ ~Return(p)
      BY <2>5, <2>6 DEF SweepStep, EnumerateInstanceNames, SweepContainers, SweepNetworks,
         SweepVolumes, InspectRunner, Decide, SweepDone, AfterSweep, DeleteStep,
         ResolveContainers, ResolveNetworks, ResolveVolumes, ResolveStep
    <2>7. CASE TeardownStep(p) /\ ~Return(p)
      BY <2>5, <2>7 DEF TeardownStep, CaptureGeneration, ListContainers, ListVolumes,
         ListNetworks, ListPhase, CheckLeftover, StopContainer, RemoveContainer,
         RemoveVolumeOrNetwork, RemoveResource, TeardownDone, TeardownReturns
    <2>8. CASE CreateStep(p) /\ ~Return(p)
      BY <2>5, <2>8 DEF CreateStep, CreateClaimNetwork, ClassifyConflict, RemoveOwnNetwork,
         CreateVolume, Prepare, CreateRunner, StartRunner, DropRejectedRunner, CreateDind,
         StartDind, DeliverCredentials, VerifyRunner, VerifyDind, CreateFails, Guarded
    <2> QED
      BY <1>2, <2>3, <2>4, <2>6, <2>7, <2>8 DEF ProcStep, Killed
  <1> QED
    BY <1>1, <1>2 DEF Next

\* Nobody else removes what a create needs before its generation may be collected.
LEMMA OthersSpare ==
  ASSUME OneGeneration, OnlySweeps, TypeOK, OwnershipInv, SettledInv, SweepInv, CallsInv,
         NEW p \in Proc, GarmCalls(p) \/ ProcStep(p) \/ Killed(p),
         NEW q \in Proc \ {p}, gen[q] # None, ~Ripe(gen[q]),
         NEW r \in live, r[1] = gen[q]
  PROVE  r \in live'
  <1> SUFFICES ASSUME r \notin live'
               PROVE  FALSE
    OBVIOUS
  <1>1. RemovalStep(p)
    BY OnlyRemovalsRemove
  <1>2. Next
    BY DEF Next
  <1>3. Acts(p)
    <2>1. CASE RemoveContainer(p)
      BY <2>1 DEF RemoveContainer, Goto, Acts, TypeOK, ProcTypeOK
    <2>2. CASE RemoveOwnNetwork(p)
      BY <2>2 DEF RemoveOwnNetwork, Return, Goto, Acts, TypeOK, ProcTypeOK
    <2>3. CASE DropRejectedRunner(p)
      BY <2>3 DEF DropRejectedRunner, Goto, Acts, TypeOK, ProcTypeOK
    <2>4. CASE RemoveVolumeOrNetwork(p)
      <3>1. PICK s \in Ready(p) : RemoveResource(p, s)
        BY <2>4 DEF RemoveVolumeOrNetwork
      <3>2. hand'[p] = None /\ todo'[p] = todo[p] \ {s}
        BY <3>1 DEF RemoveResource, Hold, TypeOK, ProcTypeOK
      <3> QED
        BY <3>1, <3>2 DEF Ready, First, Acts
    <2> QED
      BY <1>1, <2>1, <2>2, <2>3, <2>4 DEF RemovalStep
  <1>4. mode[p] \notin {"generation", "all"} => r[1] = gen[p]
    BY <1>2, <1>3, RemovalEntitled
  <1>5. mode[p] \in {"generation", "all"}
    BY <1>4 DEF SettledInv, OneHolder
  <1>6. call[p] \notin {"delete", "removeall"}
    BY AllocationAssumption DEF CallsInv, OnlySweeps, AllCalls
  <1>7. mode[p] = "generation"
    BY <1>5, <1>6 DEF CallsInv
  <1> QED
    BY <1>2, <1>3, <1>6, <1>7, SweepTakesRipe

\* A create goes on only with what it made still in place.
LEMMA CreateKeeps ==
  ASSUME TypeOK, OwnershipInv, NEW p \in Proc, InPlace(p), CreateStep(p),
         \A g \in used : Ripe(g) => Ripe(g)'
  PROVE  InPlace(p)'
  <1> USE DEF TypeOK, DaemonTypeOK, ProcTypeOK
  <1>1. CASE pc'[p] \notin GuardedPC
    BY <1>1 DEF InPlace, GuardedPC, VolumeKind, HoldsRunner
  <1>2. CASE CreateClaimNetwork(p) /\ pc'[p] \in GuardedPC
    <2>1. pc'[p] = "workspace" /\ live' = live \cup {Claim(gen'[p])}
      BY <1>2 DEF CreateClaimNetwork, NetworkCreated, Goto, GuardedPC, VolumeKind, HoldsRunner,
         Claim
    <2> QED
      BY <2>1 DEF InPlace, HoldsRunner, Claim
  <1>3. CASE ~CreateClaimNetwork(p) /\ pc'[p] \in GuardedPC
    <2>1. ~Return(p) /\ ~Guarded(p)
      BY <1>3 DEF Return, Guarded, Goto, GuardedPC, VolumeKind, HoldsRunner
    <2>2. gen' = gen
      BY <1>3, <2>1 DEF CreateStep, ClassifyConflict, RemoveOwnNetwork, CreateVolume, Prepare,
         CreateRunner, StartRunner, DropRejectedRunner, CreateDind, StartDind,
         DeliverCredentials, VerifyRunner, VerifyDind, CreateFails
    <2> SUFFICES ASSUME gen[p] # None, ~Ripe(gen[p])'
                 PROVE  InPlace(p)'
      BY <2>2 DEF InPlace
    <2> DEFINE g == gen[p]
    <2>3. g \in Gen /\ g \in used /\ ~Ripe(g)
      <3>1. g \in Gen /\ g \in used
        BY DEF OwnershipInv, NoncesDrawn
      <3>2. Ripe(g) => age'[Claim(g)] >= InflightGrace \/ exitAge'[g] >= ExitedGrace
        BY <3>1 DEF Ripe, Claim
      <3> QED
        BY <2>2, <3>1, <3>2 DEF Ripe, Claim
    <2>4. pc[p] \in HoldsRunner => hand[p] \in Runners
      BY DEF OwnershipInv, InPhase
    <2>5. CASE CreateVolume(p)
      <3>1. /\ pc[p] \in VolumeKind /\ live' = live \cup {<<g, pc[p]>>}
            /\ pc'[p] = AfterVolume(g, pc[p])
        BY <2>5 DEF CreateVolume, VolumeCreated, Goto
      <3> QED
        BY <2>2, <2>3, <3>1
           DEF InPlace, AfterVolume, VolumeKind, GuardedPC, HoldsRunner, Claim
    <2>6. CASE Prepare(p)
      BY <2>2, <2>3, <2>6 DEF Prepare, Goto, InPlace, GuardedPC, VolumeKind, HoldsRunner, Claim
    <2>7. CASE CreateRunner(p)
      <3>1. pc[p] = "runner" /\ pc'[p] = "start" /\ live' = live \cup {hand[p]} /\ hand' = hand
        BY <2>1, <2>7 DEF CreateRunner, ContainerCreated, Goto
      <3> QED
        BY <2>2, <2>3, <3>1 DEF InPlace, GuardedPC, VolumeKind, HoldsRunner, Claim
    <2>8. CASE StartRunner(p)
      <3>1. /\ pc[p] = "start" /\ live' = live /\ hand' = hand
            /\ pc'[p] \in {"dind", "deliver", "drop"}
            /\ pc'[p] = "deliver" => ~Dind(g)
        BY <2>1, <2>8 DEF StartRunner, ContainerStarted, Goto
      <3> QED
        BY <2>2, <2>3, <3>1 DEF InPlace, GuardedPC, VolumeKind, HoldsRunner, Claim
    <2>9. CASE DropRejectedRunner(p)
      <3>1. pc[p] = "drop" /\ pc'[p] = "runner" /\ live' = live \ {hand[p]}
        BY <2>9 DEF DropRejectedRunner, Removed, Goto
      <3>2. hand[p] \in Runners
        BY <2>4, <3>1 DEF HoldsRunner
      <3>3. \A k : <<g, k>> \in live /\ k \notin RunnerKind => <<g, k>> \in live'
        BY <3>1, <3>2 DEF Runners
      <3> QED
        BY <2>2, <2>3, <3>1, <3>3
           DEF InPlace, GuardedPC, VolumeKind, HoldsRunner, Claim, RunnerKind
    <2>10. CASE CreateDind(p)
      <3>1. /\ pc[p] = "dind" /\ pc'[p] = "startDind" /\ hand' = hand
            /\ live' = live \cup {<<g, "dind">>}
        BY <2>1, <2>10 DEF CreateDind, ContainerCreated, Goto
      <3> QED
        BY <2>2, <2>3, <3>1 DEF InPlace, GuardedPC, VolumeKind, HoldsRunner, Claim
    <2>11. CASE StartDind(p) \/ DeliverCredentials(p) \/ VerifyRunner(p) \/ VerifyDind(p)
      <3>1. /\ pc[p] \in {"startDind", "deliver", "verify"} /\ live' = live /\ hand' = hand
            /\ pc'[p] \in {"deliver", "verify", "verifyDind"}
        BY <2>1, <2>11 DEF StartDind, DeliverCredentials, VerifyRunner, VerifyDind,
           ContainerStarted, Goto
      <3> QED
        BY <2>2, <2>3, <3>1 DEF InPlace, GuardedPC, VolumeKind, HoldsRunner, Claim
    <2> QED
      BY <1>3, <2>1, <2>5, <2>6, <2>7, <2>8, <2>9, <2>10, <2>11
         DEF CreateStep, ClassifyConflict, RemoveOwnNetwork, CreateFails
  <1> QED
    BY <1>1, <1>2, <1>3

\* A step outside the create leaves a process in none of its phases.
LEMMA OtherwiseInPlace ==
  ASSUME TypeOK, NEW p \in Proc, GarmCalls(p) \/ SweepStep(p) \/ DeleteStep(p)
                                 \/ TeardownStep(p) \/ Killed(p)
  PROVE  InPlace(p)'
  <1> USE DEF TypeOK, ProcTypeOK
  <1>1. pc'[p] \notin GuardedPC
    <2>1. CASE Return(p) \/ TeardownReturns(p) \/ AfterSweep(p)
      BY <2>1 DEF TeardownReturns, AfterSweep, NextName, Return, Goto, GuardedPC, VolumeKind,
         HoldsRunner
    <2>2. CASE TeardownStep(p)
      BY <2>1, <2>2 DEF TeardownStep, CaptureGeneration, ListContainers, ListVolumes,
         ListNetworks, ListPhase, CheckLeftover, StopContainer, RemoveContainer,
         RemoveVolumeOrNetwork, RemoveResource, TeardownDone, Goto, GuardedPC, VolumeKind,
         HoldsRunner
    <2>3. CASE SweepStep(p) \/ DeleteStep(p)
      BY <2>1, <2>3 DEF SweepStep, EnumerateInstanceNames, SweepContainers, SweepNetworks,
         SweepVolumes, InspectRunner, Decide, SweepDone, NextName, DeleteStep,
         ResolveContainers, ResolveNetworks, ResolveVolumes, ResolveStep, Goto, GuardedPC,
         VolumeKind, HoldsRunner
    <2>4. CASE GarmCalls(p) \/ Killed(p)
      BY <2>1, <2>4 DEF GarmCalls, CreateInstance, DeleteInstance, ListInstances,
         RemoveAllInstances, StartCall, Killed, Goto, GuardedPC, VolumeKind, HoldsRunner
    <2> QED
      BY <2>2, <2>3, <2>4
  <1> QED
    BY <1>1 DEF InPlace, GuardedPC, VolumeKind, HoldsRunner

\* Every step keeps the invariant.
LEMMA NextWhole ==
  ASSUME OneGeneration, OnlySweeps, TypeOK, OwnershipInv, SettledInv, SweepInv, WholeInv,
         [Next]_vars
  PROVE  WholeInv'
  <1>1. CallsInv'
    BY CallsKept DEF WholeInv
  <1>2. CASE UNCHANGED vars
    BY <1>1, <1>2 DEF WholeInv, InPlace, Ripe, Claim
  <1>3. CASE Next
    <2>1. \A g \in used : Ripe(g) => Ripe(g)'
      BY <1>3, RipeStays DEF SweepInv
    <2>2. \A q \in Proc : gen[q] # None => gen[q] \in used
      BY DEF OwnershipInv, NoncesDrawn
    <2>3. ASSUME NEW q \in Proc, UNCHANGED <<pc[q], gen[q], hand[q]>>,
                 gen[q] # None /\ ~Ripe(gen[q]) =>
                   \A r \in live : r[1] = gen[q] => r \in live'
          PROVE  InPlace(q)'
      <3> SUFFICES ASSUME gen[q] # None, ~Ripe(gen[q])'
                   PROVE  InPlace(q)'
        BY <2>3 DEF InPlace
      <3>1. ~Ripe(gen[q]) /\ gen'[q] = gen[q]
        <4>1. gen[q] \in used /\ gen'[q] = gen[q]
          BY <2>2, <2>3
        <4>2. Ripe(gen[q]) =>
                age'[Claim(gen[q])] >= InflightGrace \/ exitAge'[gen[q]] >= ExitedGrace
          BY <2>1, <4>1 DEF Ripe, Claim
        <4> QED
          BY <4>1, <4>2 DEF Ripe, Claim
      <3>2. \A k : <<gen[q], k>> \in live => <<gen[q], k>> \in live'
        BY <2>3, <3>1
      <3>3. pc[q] \in HoldsRunner /\ hand[q] \in live => hand[q] \in live'
        BY <2>3, <3>1 DEF OwnershipInv, InPhase
      <3> QED
        BY <2>3, <3>1, <3>2, <3>3 DEF WholeInv, InPlace, Claim
    <2>4. CASE Host
      <3>1. UNCHANGED procVars /\ live' = live
        BY <2>4 DEF Host, ContainerExits, ContainerExited, Tick
      <3> QED
        BY <1>1, <2>3, <3>1 DEF WholeInv
    <2>5. ASSUME NEW p \in Proc, GarmCalls(p) \/ ProcStep(p) \/ Killed(p)
          PROVE  WholeInv'
      <3>1. \A q \in Proc \ {p} : InPlace(q)'
        BY <2>3, <2>5, StepIsLocal, OthersSpare DEF Local, WholeInv
      <3>2. InPlace(p)'
        BY <2>1, <2>5, CreateKeeps, OtherwiseInPlace DEF ProcStep, WholeInv
      <3> QED
        BY <1>1, <3>1, <3>2 DEF WholeInv
    <2> QED
      BY <1>3, <2>4, <2>5 DEF Next
  <1> QED
    BY <1>2, <1>3

\* A runner is a generation and a kind.
LEMMA RunnerPair ==
  ASSUME NEW r \in Runners
  PROVE  r[2] \in RunnerKind /\ r = <<r[1], r[2]>>
  BY DEF Runners

\* A create that reports success has verified its containers last, and what it does not
\* look at again is still there.
LEMMA SuccessWhole ==
  ASSUME TypeOK, OwnershipInv, SweepInv, WholeInv, [Next]_vars, NEW p \in Proc,
         pc[p] \in {"verify", "verifyDind"}, pc'[p] = "idle", mishaps' = mishaps,
         age[Claim(gen[p])] < InflightGrace, exitAge[gen[p]] < ExitedGrace
  PROVE  Whole(gen[p])
  <1> USE DEF TypeOK, DaemonTypeOK, ProcTypeOK
  <1>1. VerifyRunner(p) \/ VerifyDind(p) \/ Killed(p)
    <2>1. ~Host /\ ~UNCHANGED vars
      BY DEF Host
    <2>2. PICK q \in Proc : GarmCalls(q) \/ ProcStep(q) \/ Killed(q)
      BY <2>1 DEF Next
    <2>3. p = q
      BY <2>2, StepIsLocal DEF Local
    <2>4. ~GarmCalls(p) /\ ~SweepStep(p) /\ ~DeleteStep(p) /\ ~TeardownStep(p)
      BY DEF GarmCalls, CreateInstance, DeleteInstance, ListInstances, RemoveAllInstances,
         StartCall, SweepStep, EnumerateInstanceNames, SweepContainers, SweepNetworks,
         SweepVolumes, InspectRunner, SweepDone, DeleteStep, ResolveContainers,
         ResolveNetworks, ResolveVolumes, ResolveStep, TeardownStep, CaptureGeneration,
         ListContainers, ListVolumes, ListNetworks, ListPhase, CheckLeftover, StopContainer,
         RemoveContainer, RemoveVolumeOrNetwork, TeardownDone
    <2>5. CreateStep(p) => VerifyRunner(p) \/ VerifyDind(p)
      BY DEF CreateStep, CreateClaimNetwork, ClassifyConflict, RemoveOwnNetwork, CreateVolume,
         Prepare, CreateRunner, StartRunner, DropRejectedRunner, CreateDind, StartDind,
         DeliverCredentials, CreateFails, Guarded, Goto, VolumeKind
    <2> QED
      BY <2>2, <2>3, <2>4, <2>5 DEF ProcStep
  <1>2. ~Killed(p)
    BY DEF Killed, Mishap
  <1>3. gen[p] # None /\ gen[p] \in Gen /\ hand[p] \in Runners /\ hand[p][1] = gen[p]
    BY DEF OwnershipInv, InPhase, CreatePC, HoldsRunner
  <1>4. ~Ripe(gen[p])
    <2>1. Claim(gen[p]) \in Resource
      BY <1>3 DEF Claim, Resource, Kind
    <2> QED
      BY <1>3, <2>1, DaemonAssumption DEF Ripe, Never
  <1>5. /\ Claim(gen[p]) \in live /\ <<gen[p], "workspace">> \in live /\ hand[p] \in live
        /\ Dind(gen[p]) => /\ <<gen[p], "socket">> \in live /\ <<gen[p], "dind-state">> \in live
                           /\ <<gen[p], "dind">> \in live
    BY <1>3, <1>4 DEF WholeInv, InPlace, GuardedPC, HoldsRunner, VolumeKind
  <1>6. \E k \in RunnerKind : <<gen[p], k>> \in live
    <2>1. hand[p][2] \in RunnerKind /\ hand[p] = <<gen[p], hand[p][2]>>
      BY <1>3, RunnerPair
    <2> QED
      BY <1>5, <2>1
  <1> QED
    BY <1>5, <1>6 DEF Whole, Claim

\* With creates and sweeps only, and no name used twice, a create that reports success
\* is whole, whatever other sweeps judged and removed meanwhile.
THEOREM SuccessIsWhole == OneGeneration /\ OnlySweeps /\ Spec => SuccessMeansWhole
  <1>1. Init => WholeInv
    BY AllocationAssumption DEF Init, WholeInv, CallsInv, InPlace, Mode
  <1>2. OneGeneration /\ OnlySweeps /\ TypeOK /\ OwnershipInv /\ SettledInv /\ SweepInv
        /\ WholeInv /\ [Next]_vars => WholeInv'
    BY NextWhole
  <1>3. TypeOK /\ OwnershipInv /\ SweepInv /\ WholeInv /\ [Next]_vars =>
          [\A p \in Proc :
             /\ pc[p] \in {"verify", "verifyDind"} /\ pc'[p] = "idle" /\ mishaps' = mishaps
             /\ age[Claim(gen[p])] < InflightGrace /\ exitAge[gen[p]] < ExitedGrace
             => Whole(gen[p])]_vars
    BY SuccessWhole
  <1>4. OneGeneration /\ OnlySweeps => [](OneGeneration /\ OnlySweeps)
    OBVIOUS
  <1> QED
    BY <1>1, <1>2, <1>3, <1>4, TypeCorrect, OwnershipHolds, SettledHolds, SweepInvHolds, PTL
       DEF Spec, SuccessMeansWhole

-----------------------------------------------------------------------------
(* Volumes without labels. *)

\* A volume was re-created without labels only for a create past its deadline, and a
\* sidecar is created only where there is one.
StrayInv ==
    /\ \A v \in stray : v[1] \in used /\ Ripe(v[1])
    /\ \A p \in Proc : pc[p] = "dind" => Dind(gen[p])

\* The volumes a container of a create in time mounts are there when it is created
\* (createAndStartRunnerOnce, createDindSidecar).
LEMMA MountsInPlace ==
  ASSUME TypeOK, OwnershipInv, NEW p \in Proc, InPlace(p), gen[p] # None, ~Ripe(gen[p]),
         NEW r, \/ pc[p] = "runner" /\ r = hand[p]
                \/ pc[p] = "dind" /\ r = <<gen[p], "dind">> /\ Dind(gen[p]),
         NEW v \in Volumes, v[1] = r[1], v[2] \in Mounts(r)
  PROVE  v \in live
  <1>1. v = <<v[1], v[2]>> /\ v[2] \in VolumeKind
    BY DEF Volumes
  <1>2. CASE pc[p] = "runner" /\ r = hand[p]
    <2>1. r \in Runners /\ r[1] = gen[p]
      BY <1>2 DEF OwnershipInv, InPhase, HoldsRunner
    <2>2. r[2] \in RunnerKind
      BY <2>1, RunnerPair
    <2>3. v[2] = "workspace" \/ (Dind(gen[p]) /\ v[2] = "socket")
      BY <2>1, <2>2 DEF Mounts, RunnerKind
    <2> QED
      BY <1>1, <1>2, <2>1, <2>3 DEF InPlace, GuardedPC, HoldsRunner
  <1>3. CASE pc[p] = "dind" /\ r = <<gen[p], "dind">> /\ Dind(gen[p])
    BY <1>1, <1>3 DEF InPlace, GuardedPC, HoldsRunner, VolumeKind
  <1> QED
    BY <1>2, <1>3

\* Only the create of a container makes such volumes.
LEMMA StrayEffect ==
  ASSUME TypeOK, NEW p \in Proc, GarmCalls(p) \/ ProcStep(p) \/ Killed(p),
         stray' \subseteq stray => FALSE
  PROVE  \E r : /\ \/ pc[p] = "runner" /\ r = hand[p]
                   \/ pc[p] = "dind" /\ r = <<gen[p], "dind">>
                /\ ContainerCreated(r)
  <1>1. CASE GarmCalls(p) \/ Killed(p)
    BY <1>1 DEF GarmCalls, CreateInstance, DeleteInstance, ListInstances, RemoveAllInstances,
                StartCall, Killed
  <1>2. CASE SweepStep(p) \/ DeleteStep(p)
    BY <1>2 DEF SweepStep, EnumerateInstanceNames, SweepContainers, SweepNetworks,
         SweepVolumes, InspectRunner, SweepDone, DeleteStep, ResolveContainers,
         ResolveNetworks, ResolveVolumes, ResolveStep
  <1>3. CASE TeardownStep(p)
    BY <1>3 DEF TeardownStep, CaptureGeneration, ListContainers, ListVolumes, ListNetworks,
         ListPhase, CheckLeftover, StopContainer, ContainerExited, RemoveContainer,
         RemoveVolumeOrNetwork, RemoveResource, Removed, TeardownDone
  <1>4. CASE CreateRunner(p)
    BY <1>4 DEF CreateRunner
  <1>5. CASE CreateDind(p)
    BY <1>5 DEF CreateDind
  <1>6. CASE CreateStep(p) /\ ~CreateRunner(p) /\ ~CreateDind(p)
    BY <1>6 DEF CreateStep, CreateClaimNetwork, NetworkCreated, ClassifyConflict,
         RemoveOwnNetwork, CreateVolume, VolumeCreated, Prepare, StartRunner,
         DropRejectedRunner, StartDind, DeliverCredentials, VerifyRunner, VerifyDind,
         CreateFails, Removed, ContainerStarted
  <1> QED
    BY <1>1, <1>2, <1>3, <1>4, <1>5, <1>6 DEF ProcStep

\* The sidecar comes after the start of a runner that has one.
LEMMA SidecarNext ==
  ASSUME TypeOK, NEW p \in Proc, GarmCalls(p) \/ ProcStep(p) \/ Killed(p), pc'[p] = "dind"
  PROVE  Dind(gen'[p])
  <1> USE DEF TypeOK, ProcTypeOK
  <1>1. CASE StartRunner(p)
    BY <1>1 DEF StartRunner, Guarded, Goto
  <1>2. CASE CreateStep(p) /\ ~StartRunner(p)
    BY <1>2 DEF CreateStep, CreateClaimNetwork, ClassifyConflict, RemoveOwnNetwork, CreateVolume,
         AfterVolume, Prepare, CreateRunner, DropRejectedRunner, CreateDind, StartDind,
         DeliverCredentials, VerifyRunner, VerifyDind, CreateFails, Guarded, Return, Goto
  <1>3. CASE ~CreateStep(p)
    <2>1. CASE Return(p) \/ TeardownReturns(p) \/ AfterSweep(p)
      BY <2>1 DEF TeardownReturns, AfterSweep, NextName, Return, Goto
    <2>2. CASE TeardownStep(p)
      BY <2>1, <2>2 DEF TeardownStep, CaptureGeneration, ListContainers, ListVolumes,
         ListNetworks, ListPhase, CheckLeftover, StopContainer, RemoveContainer,
         RemoveVolumeOrNetwork, RemoveResource, TeardownDone, Goto
    <2>3. CASE SweepStep(p) \/ DeleteStep(p)
      BY <2>1, <2>3 DEF SweepStep, EnumerateInstanceNames, SweepContainers, SweepNetworks,
         SweepVolumes, InspectRunner, Decide, SweepDone, NextName, DeleteStep,
         ResolveContainers, ResolveNetworks, ResolveVolumes, ResolveStep, Goto
    <2>4. CASE GarmCalls(p) \/ Killed(p)
      BY <2>1, <2>4 DEF GarmCalls, CreateInstance, DeleteInstance, ListInstances,
         RemoveAllInstances, StartCall, Killed, Goto
    <2> QED
      BY <1>3, <2>2, <2>3, <2>4 DEF ProcStep
  <1> QED
    BY <1>1, <1>2, <1>3

\* Every step keeps the invariant.
LEMMA NextStray ==
  ASSUME TypeOK, OwnershipInv, SweepInv, WholeInv, StrayInv, [Next]_vars
  PROVE  StrayInv'
  <1>1. CASE UNCHANGED vars
    BY <1>1 DEF StrayInv, Ripe, Claim
  <1>2. ASSUME Next, NEW g \in used, Ripe(g)
        PROVE  g \in used' /\ Ripe(g)'
    <2>1. Ripe(g)'
      BY <1>2, RipeStays DEF SweepInv
    <2>2. used \subseteq used'
      BY <1>2, StepAddsOwn DEF AddsOwn, Next, Host
    <2> QED
      BY <2>1, <2>2
  <1>3. CASE Host
    <2>1. stray' = stray /\ UNCHANGED <<pc, gen>> /\ Next
      BY <1>3 DEF Host, ContainerExits, ContainerExited, Tick, Next
    <2>2. \A v \in stray : v[1] \in used' /\ Ripe(v[1])'
      BY <1>2, <2>1 DEF StrayInv
    <2> QED
      BY <2>1, <2>2 DEF StrayInv
  <1>4. ASSUME NEW p \in Proc, GarmCalls(p) \/ ProcStep(p) \/ Killed(p)
        PROVE  StrayInv'
    <2>0. Next
      BY <1>4 DEF Next
    <2>1. \A v \in stray : v[1] \in used' /\ Ripe(v[1])'
      BY <1>2, <2>0 DEF StrayInv
    <2>2. ASSUME NEW q \in Proc, pc'[q] = "dind"
          PROVE  Dind(gen'[q])
      <3>1. CASE q = p
        BY <1>4, <2>2, <3>1, SidecarNext
      <3>2. CASE q # p
        BY <1>4, <2>2, <3>2, StepIsLocal DEF Local, StrayInv
      <3> QED
        BY <3>1, <3>2
    <2>3. ASSUME NEW v \in stray', v \notin stray
          PROVE  v[1] \in used' /\ Ripe(v[1])'
      <3>1. PICK r : /\ \/ pc[p] = "runner" /\ r = hand[p]
                        \/ pc[p] = "dind" /\ r = <<gen[p], "dind">>
                     /\ ContainerCreated(r)
        BY <1>4, <2>3, StrayEffect
      <3>2. v \in Volumes /\ v[1] = r[1] /\ v[2] \in Mounts(r) /\ v \notin live
        BY <2>3, <3>1 DEF ContainerCreated
      <3>3. gen[p] # None /\ r[1] = gen[p]
        BY <3>1 DEF OwnershipInv, InPhase, HoldsRunner, CreatePC
      <3>4. pc[p] = "dind" => Dind(gen[p])
        BY DEF StrayInv
      <3>5. Ripe(gen[p])
        BY <3>1, <3>2, <3>3, <3>4, MountsInPlace DEF WholeInv
      <3>6. gen[p] \in used
        BY <3>3 DEF OwnershipInv, NoncesDrawn
      <3> QED
        BY <1>2, <2>0, <3>2, <3>3, <3>5, <3>6
    <2> QED
      BY <2>1, <2>2, <2>3 DEF StrayInv
  <1> QED
    BY <1>1, <1>3, <1>4 DEF Next

\* With creates and sweeps only, and no name used twice, the daemon re-creates no volume
\* of a create that is in time: a volume no teardown can find, as a delete leaves it
\* during a create, comes from a sweep only of a create past its deadline.
THEOREM StraysAreLate ==
  OneGeneration /\ OnlySweeps /\ Spec => [](\A v \in stray : Ripe(v[1]))
  <1>1. Init => WholeInv
    BY AllocationAssumption DEF Init, WholeInv, CallsInv, InPlace, Mode
  <1>2. Init => StrayInv
    BY DEF Init, DaemonInit, StrayInv
  <1>3. OneGeneration /\ OnlySweeps /\ TypeOK /\ OwnershipInv /\ SettledInv /\ SweepInv
        /\ WholeInv /\ [Next]_vars => WholeInv'
    BY NextWhole
  <1>4. TypeOK /\ OwnershipInv /\ SweepInv /\ WholeInv /\ StrayInv /\ [Next]_vars => StrayInv'
    BY NextStray
  <1>5. StrayInv => \A v \in stray : Ripe(v[1])
    BY DEF StrayInv
  <1>6. OneGeneration /\ OnlySweeps => [](OneGeneration /\ OnlySweeps)
    OBVIOUS
  <1> QED
    BY <1>1, <1>2, <1>3, <1>4, <1>5, <1>6, TypeCorrect, OwnershipHolds, SettledHolds,
       SweepInvHolds, PTL DEF Spec
=============================================================================
