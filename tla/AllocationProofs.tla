-------------------------- MODULE AllocationProofs --------------------------
(***************************************************************************)
(* Proofs about Allocation, for any number of processes, controllers,      *)
(* instance names, generations and failures, and for every DinD mode.      *)
(***************************************************************************)
EXTENDS Allocation, TLAPS

\* The variables, as the actions group them.
USE DEF vars, daemonVars, procVars, callVars, createVars, sweepVars, scopeVars,
        teardownVars, createFrame

-----------------------------------------------------------------------------
(* Type correctness. *)

\* The effects of daemon calls keep the daemon's types (Daemon.tla).
LEMMA DaemonEffects ==
  ASSUME DaemonTypeOK
  PROVE  /\ UNCHANGED daemonVars => DaemonTypeOK'
         /\ \A g \in Gen : NetworkCreated(g) => DaemonTypeOK'
         /\ \A g \in Gen, k \in VolumeKind : VolumeCreated(g, k) => DaemonTypeOK'
         /\ \A r \in Containers : \/ ContainerCreated(r) \/ ContainerStarted(r)
                                  \/ ContainerExited(r)
                                  => DaemonTypeOK'
         /\ \A r \in Resource : Removed(r) => DaemonTypeOK'
  <1> USE DEF DaemonTypeOK, Resource, Containers, Volumes, Kind, VolumeKind, ContainerKind, RunnerKind, CState
  <1>1. UNCHANGED daemonVars => DaemonTypeOK'
    OBVIOUS
  <1>2. ASSUME NEW g \in Gen, NetworkCreated(g)
        PROVE  DaemonTypeOK'
    BY <1>2, DaemonAssumption DEF NetworkCreated, StampedNow, Claim
  <1>3. ASSUME NEW g \in Gen, NEW k \in VolumeKind, VolumeCreated(g, k)
        PROVE  DaemonTypeOK'
    BY <1>3, DaemonAssumption DEF VolumeCreated, StampedNow
  <1>4. ASSUME NEW r \in Containers, ContainerCreated(r)
        PROVE  DaemonTypeOK'
    BY <1>4 DEF ContainerCreated
  <1>5. ASSUME NEW r \in Containers, ContainerStarted(r)
        PROVE  DaemonTypeOK'
    BY <1>5 DEF ContainerStarted
  <1>6. ASSUME NEW r \in Containers, ContainerExited(r)
        PROVE  DaemonTypeOK'
    BY <1>6, DaemonAssumption DEF ContainerExited
  <1>7. ASSUME NEW r \in Resource, Removed(r)
        PROVE  DaemonTypeOK'
    BY <1>7 DEF Removed
  <1> QED
    BY <1>1, <1>2, <1>3, <1>4, <1>5, <1>6, <1>7

\* The host's own steps keep the daemon's types.
LEMMA HostEffects ==
  ASSUME DaemonTypeOK, ContainerExits \/ Tick
  PROVE  DaemonTypeOK'
  <1>1. CASE ContainerExits
    BY <1>1, DaemonEffects DEF ContainerExits
  <1>2. CASE Tick
    BY <1>2, DaemonAssumption DEF Tick, Older, DaemonTypeOK, Never, Resource
  <1> QED
    BY <1>1, <1>2

\* The steps that end or redirect a call keep the types.
LEMMA ReturnTypes ==
  ASSUME ProcTypeOK, NEW p \in Proc, mishaps' \in 0 .. MaxMishaps
  PROVE  Return(p) => ProcTypeOK'
  BY DEF ProcTypeOK, Return, Goto, Hold, PC, Resource

\* A failure or kill stays within its bound.
LEMMA MishapTypes ==
  ASSUME ProcTypeOK, Mishap
  PROVE  mishaps' \in 0 .. MaxMishaps
  BY AllocationAssumption DEF ProcTypeOK, Mishap

\* Leaving a name keeps the types.
LEMMA NextNameTypes ==
  ASSUME ProcTypeOK, NEW p \in Proc, NextName(p)
  PROVE  /\ pc' \in [Proc -> PC]
         /\ hand' \in [Proc -> Resource \cup {None}]
         /\ cur' \in [Proc -> Name \cup {None}]
         /\ noted' \in [Proc -> SUBSET Resource]
  BY DEF ProcTypeOK, NextName, Goto, Hold, PC, SweepPC

\* A GARM call that starts.
LEMMA CallTypes ==
  ASSUME TypeOK, NEW p \in Proc, GarmCalls(p)
  PROVE  TypeOK'
  <1> USE DEF TypeOK, ProcTypeOK, StartCall, Goto, PC, SweepPC, TeardownPC, DeletePC, AllCalls, Mode
  <1>1. ASSUME NEW x \in Name, CreateInstance(p, x)
        PROVE  TypeOK'
    BY <1>1, DaemonEffects DEF CreateInstance
  <1>2. ASSUME NEW x \in Name, DeleteInstance(p, x)
        PROVE  TypeOK'
    BY <1>2, DaemonEffects DEF DeleteInstance
  <1>3. CASE ListInstances(p)
    BY <1>3, DaemonEffects DEF ListInstances
  <1>4. CASE RemoveAllInstances(p)
    BY <1>4, DaemonEffects DEF RemoveAllInstances
  <1> QED
    BY <1>1, <1>2, <1>3, <1>4 DEF GarmCalls

\* A killed process keeps the types.
LEMMA KilledTypes ==
  ASSUME TypeOK, NEW p \in Proc, Killed(p)
  PROVE  TypeOK'
  BY DaemonEffects, MishapTypes, ReturnTypes DEF TypeOK, Killed

\* A step of the orphan sweep.
LEMMA SweepTypes ==
  ASSUME TypeOK, NEW p \in Proc, SweepStep(p)
  PROVE  TypeOK'
  <1> USE DEF TypeOK, Goto, PC, SweepPC, CreatePC, TeardownPC, Mode
  <1>0. UNCHANGED mishaps \/ Mishap => mishaps' \in 0 .. MaxMishaps
    BY MishapTypes DEF ProcTypeOK
  <1>a. ASSUME AfterSweep(p), mishaps' \in 0 .. MaxMishaps
        PROVE  ProcTypeOK'
    BY <1>a, ReturnTypes DEF AfterSweep, ProcTypeOK
  <1>b. ASSUME NEW rs \in SUBSET Resource, Decide(p, rs)
        PROVE  /\ pc' \in [Proc -> PC]
               /\ hand' \in [Proc -> Resource \cup {None}]
               /\ cur' \in [Proc -> Name \cup {None}]
               /\ noted' \in [Proc -> SUBSET Resource]
               /\ mode' \in [Proc -> Mode \cup {None}]
    BY <1>b, NextNameTypes DEF Decide, ProcTypeOK
  <1>1. CASE EnumerateInstanceNames(p)
    <2>1. CASE Mishap /\ AfterSweep(p)
      BY <1>1, <2>1, <1>0, <1>a, DaemonEffects DEF EnumerateInstanceNames
    <2>2. CASE ~(Mishap /\ AfterSweep(p))
      BY <1>1, <2>2, DaemonEffects DEF EnumerateInstanceNames, ProcTypeOK
    <2> QED
      BY <2>1, <2>2
  <1>2. CASE SweepContainers(p)
    <2>1. PICK x \in names[p] :
            LET cs == InstanceScoped(x, ControllerOf[p]) \cap Containers IN
            /\ names' = [names EXCEPT ![p] = @ \ {x}]
            /\ \/ NextName(p) /\ (UNCHANGED mishaps \/ Mishap)
               \/ /\ Goto(p, "sweepNetworks")
                  /\ cur' = [cur EXCEPT ![p] = x]
                  /\ noted' = [noted EXCEPT ![p] = cs]
                  /\ UNCHANGED <<hand, mishaps>>
      BY <1>2 DEF SweepContainers
    <2>2. UNCHANGED <<daemonVars, callVars, createVars, scopeVars, teardownVars>>
      BY <1>2 DEF SweepContainers
    <2>3. InstanceScoped(x, ControllerOf[p]) \cap Containers \subseteq Resource
      BY DEF InstanceScoped, DaemonTypeOK
    <2> QED
      BY <1>0, <2>1, <2>2, <2>3, NextNameTypes, DaemonEffects DEF ProcTypeOK
  <1>3. CASE SweepNetworks(p)
    BY <1>3, <1>0, NextNameTypes, DaemonEffects
       DEF SweepNetworks, ProcTypeOK, DaemonTypeOK, InstanceScoped
  <1>4. CASE SweepVolumes(p)
    <2> DEFINE rs == noted[p] \cup (InstanceScoped(cur[p], ControllerOf[p]) \cap Volumes)
    <2>1. rs \in SUBSET Resource
      BY DEF InstanceScoped, ProcTypeOK, DaemonTypeOK
    <2> HIDE DEF rs
    <2>2. \/ Decide(p, rs) /\ UNCHANGED mishaps
          \/ Goto(p, "inspect") /\ noted' = [noted EXCEPT ![p] = rs]
              /\ UNCHANGED <<hand, cur, mode, mishaps>>
          \/ Mishap /\ NextName(p) /\ UNCHANGED mode
      BY <1>4 DEF SweepVolumes, rs
    <2>3. UNCHANGED <<daemonVars, callVars, createVars, names, captured, settled, teardownVars>>
      BY <1>4 DEF SweepVolumes
    <2> QED
      BY <1>0, <1>b, <2>1, <2>2, <2>3, NextNameTypes, DaemonEffects DEF ProcTypeOK
  <1>5. CASE InspectRunner(p)
    BY <1>5, <1>0, <1>b, NextNameTypes, DaemonEffects DEF InspectRunner, ProcTypeOK
  <1>6. CASE SweepDone(p)
    BY <1>6, <1>0, <1>a, DaemonEffects DEF SweepDone
  <1> QED
    BY <1>1, <1>2, <1>3, <1>4, <1>5, <1>6 DEF SweepStep

\* A step of a teardown: rollback, delete, sweep or remove-all.
LEMMA TeardownTypes ==
  ASSUME TypeOK, OwnershipInv, NEW p \in Proc, TeardownStep(p)
  PROVE  TypeOK'
  <1> USE DEF TypeOK, Goto, Hold, PC, TeardownPC
  <1>0. UNCHANGED mishaps \/ Mishap => mishaps' \in 0 .. MaxMishaps
    BY MishapTypes DEF ProcTypeOK
  <1>a. ASSUME TeardownReturns(p), mishaps' \in 0 .. MaxMishaps
        PROVE  ProcTypeOK'
    BY <1>a, ReturnTypes, NextNameTypes DEF TeardownReturns, ProcTypeOK
  <1>b. \A x, c : ClaimHolder(x, c) \in Gen \cup {None}
    BY DEF ClaimHolder
  <1>c. First(p) \subseteq todo[p] /\ todo[p] \subseteq Resource
    BY DEF First, ProcTypeOK
  <1>d. Ready(p) \subseteq Resource
    BY <1>c DEF Ready, ProcTypeOK
  <1>e. ASSUME NEW from, NEW to \in PC, NEW kinds, ListPhase(p, from, to, kinds)
        PROVE  TypeOK'
    <2>1. Matching(p) \subseteq Resource
      BY DEF Matching, InstanceScoped, DaemonTypeOK
    <2>2. DaemonTypeOK'
      BY <1>e, DaemonEffects DEF ListPhase
    <2>3. todo' \in [Proc -> SUBSET Resource]
      <3> DEFINE listed == {r \in Matching(p) \cap kinds : ReadsLiveClaim(p) \/ MayRemove(p, r)}
      <3>1. listed \subseteq Resource
        BY <2>1
      <3>2. todo' = [todo EXCEPT ![p] = listed] \/ UNCHANGED todo
        BY <1>e DEF ListPhase
      <3> QED
        BY <3>1, <3>2 DEF ProcTypeOK
    <2>4. mishaps' \in 0 .. MaxMishaps
      BY <1>e, <1>0 DEF ListPhase, ProcTypeOK
    <2>5. pc' \in [Proc -> PC] /\ err' \in [Proc -> BOOLEAN]
      BY <1>e DEF ListPhase, Goto, ProcTypeOK
    <2> QED
      BY <1>e, <2>2, <2>3, <2>4, <2>5
      DEF ListPhase, ProcTypeOK, callVars, createVars, sweepVars, scopeVars
  <1>f. ASSUME NEW r \in Resource, RemoveResource(p, r), pc' \in [Proc -> PC]
        PROVE  TypeOK'
    BY <1>f, <1>0, DaemonEffects DEF RemoveResource, ProcTypeOK
  <1>1. CASE CaptureGeneration(p)
    <2>1. CASE Mishap /\ TeardownReturns(p)
      BY <1>1, <2>1, <1>0, <1>a, DaemonEffects DEF CaptureGeneration
    <2>2. CASE ~(Mishap /\ TeardownReturns(p))
      <3>1. PICK g \in Gen \cup {None}, b \in BOOLEAN :
              captured' = [captured EXCEPT ![p] = g] /\ settled' = [settled EXCEPT ![p] = b]
        <4> DEFINE g == ClaimHolder(cur[p], ControllerOf[p])
        <4>1. g \in Gen \cup {None} /\ (g # None /\ ~Creating(g)) \in BOOLEAN
          BY <1>b
        <4>2. /\ captured' = [captured EXCEPT ![p] = g]
              /\ settled' = [settled EXCEPT ![p] = g # None /\ ~Creating(g)]
          BY <1>1, <2>2 DEF CaptureGeneration
        <4> QED
          BY <4>1, <4>2
      <3>2. UNCHANGED <<daemonVars, callVars, createVars, hand, sweepVars, mode, teardownVars, mishaps>>
        BY <1>1, <2>2 DEF CaptureGeneration
      <3> QED
        BY <1>1, <2>2, <3>1, <3>2, DaemonEffects DEF CaptureGeneration, ProcTypeOK
    <2> QED
      BY <2>1, <2>2
  <1>2. CASE ListContainers(p)
    BY <1>2, <1>e DEF ListContainers
  <1>3. CASE ListVolumes(p)
    BY <1>3, <1>e DEF ListVolumes
  <1>4. CASE ListNetworks(p)
    BY <1>4, <1>e DEF ListNetworks
  <1>5. CASE CheckLeftover(p)
    <2>1. PICK r \in First(p) :
            /\ todo' = [todo EXCEPT ![p] = @ \ {r}]
            /\ \/ hand' = [hand EXCEPT ![p] = r] /\ UNCHANGED <<err, mishaps>>
               \/ hand' = [hand EXCEPT ![p] = None] /\ UNCHANGED <<err, mishaps>>
               \/ Mishap /\ err' = [err EXCEPT ![p] = TRUE] /\ UNCHANGED hand
      BY <1>5 DEF CheckLeftover
    <2>2. UNCHANGED <<daemonVars, pc, callVars, createVars, sweepVars, scopeVars, found>>
      BY <1>5 DEF CheckLeftover
    <2> QED
      BY <2>1, <2>2, <1>0, <1>c, DaemonEffects DEF ProcTypeOK
  <1>6. CASE StopContainer(p)
    <2>1. PICK r \in Ready(p) :
            /\ Hold(p, r)
            /\ todo' = [todo EXCEPT ![p] = @ \ {r}]
            /\ \/ /\ IF IsRunning(r) THEN ContainerExited(r) ELSE UNCHANGED daemonVars
                  /\ UNCHANGED mishaps
               \/ Mishap /\ UNCHANGED daemonVars
      BY <1>6 DEF StopContainer
    <2>2. r \in Resource
      BY <1>d
    <2>3. DaemonTypeOK'
      <3>1. CASE UNCHANGED daemonVars
        BY <3>1, DaemonEffects
      <3>2. CASE ContainerExited(r)
        <4>1. cstate' \in [Containers -> CState]
          BY <3>2 DEF ContainerExited, DaemonTypeOK, CState
        <4>2. exitAge' \in [Gen -> {Never} \cup 0 .. ExitedGrace]
          <5>1. 0 \in {Never} \cup 0 .. ExitedGrace
            BY DaemonAssumption
          <5>2. \/ exitAge' = exitAge
                \/ exitAge' = [exitAge EXCEPT ![r[1]] = 0]
            BY <3>2 DEF ContainerExited
          <5> QED
            BY <5>1, <5>2 DEF DaemonTypeOK
        <4> QED
          BY <3>2, <4>1, <4>2 DEF ContainerExited, DaemonTypeOK
      <3> QED
        BY <2>1, <3>1, <3>2
    <2> QED
      BY <1>6, <1>0, <2>1, <2>2, <2>3 DEF StopContainer, ProcTypeOK
  <1>7. CASE RemoveContainer(p)
    <2>1. hand[p] \in Resource
      BY <1>7 DEF RemoveContainer, OwnershipInv, InPhase, ProcTypeOK
    <2> QED
      BY <1>7, <2>1, <1>f DEF RemoveContainer, ProcTypeOK
  <1>8. CASE RemoveVolumeOrNetwork(p)
    BY <1>8, <1>d, <1>f DEF RemoveVolumeOrNetwork, ProcTypeOK
  <1>9. CASE TeardownDone(p)
    BY <1>9, <1>0, <1>a, DaemonEffects DEF TeardownDone
  <1> QED
    BY <1>1, <1>2, <1>3, <1>4, <1>5, <1>6, <1>7, <1>8, <1>9 DEF TeardownStep

\* A step of DeleteInstance before its teardown.
LEMMA DeleteTypes ==
  ASSUME TypeOK, NEW p \in Proc, DeleteStep(p)
  PROVE  TypeOK'
  <1> USE DEF TypeOK, Goto, PC, DeletePC, TeardownPC, Mode
  <1>1. ASSUME NEW from, NEW next \in PC, NEW kinds, ResolveStep(p, from, next, kinds)
        PROVE  TypeOK'
    <2>1. DaemonTypeOK'
      BY <1>1, DaemonEffects DEF ResolveStep
    <2>2. CASE Return(p) /\ (UNCHANGED mishaps \/ Mishap)
      BY <2>1, <2>2, MishapTypes, ReturnTypes DEF ProcTypeOK
    <2>3. CASE ~(Return(p) /\ (UNCHANGED mishaps \/ Mishap))
      BY <1>1, <2>1, <2>3 DEF ResolveStep, ProcTypeOK
    <2> QED
      BY <2>2, <2>3
  <1> QED
    BY <1>1 DEF DeleteStep, ResolveContainers, ResolveNetworks, ResolveVolumes

\* A step of CreateInstance after its sweep.
LEMMA CreateTypes ==
  ASSUME TypeOK, OwnershipInv, NEW p \in Proc, CreateStep(p)
  PROVE  TypeOK'
  <1> USE DEF TypeOK, Goto, Hold, PC, CreatePC
  <1>0. UNCHANGED mishaps \/ Mishap => mishaps' \in 0 .. MaxMishaps
    BY MishapTypes DEF ProcTypeOK
  <1>a. ASSUME Guarded(p), mishaps' \in 0 .. MaxMishaps
        PROVE  ProcTypeOK'
    BY <1>a DEF Guarded, ProcTypeOK, TeardownPC, Mode
  <1>b. ASSUME NEW l \in PC, Goto(p, l), UNCHANGED <<createFrame, hand>>, mishaps' \in 0 .. MaxMishaps
        PROVE  ProcTypeOK'
    BY <1>b DEF ProcTypeOK
  <1>c. pc[p] \in CreatePC \ {"claim"} => gen[p] \in Gen
    BY DEF OwnershipInv, InPhase, ProcTypeOK
  <1>d. pc[p] \in HoldsRunner => hand[p] \in Containers /\ hand[p] \in Resource
    BY DEF OwnershipInv, InPhase, Runners, Containers, ContainerKind, Resource, Kind
  <1>e. \A g \in Gen : /\ Claim(g) \in Resource
                      /\ <<g, "dind">> \in Containers
                      /\ <<g, "runner">> \in Resource
                      /\ <<g, "retried">> \in Resource
    BY DEF Claim, Resource, Kind, Containers, ContainerKind, RunnerKind
  <1>1. CASE CreateClaimNetwork(p)
    <2>1. PICK g \in Gen \ used :
            /\ used' = used \cup {g}
            /\ gen' = [gen EXCEPT ![p] = g]
            /\ NetworkCreated(g) \/ UNCHANGED daemonVars
            /\ UNCHANGED mishaps \/ Mishap
            /\ \E l \in {"workspace", "unclaim", "classify"} : Goto(p, l)
      BY <1>1 DEF CreateClaimNetwork
    <2>2. UNCHANGED <<callVars, hand, sweepVars, scopeVars, teardownVars>>
      BY <1>1 DEF CreateClaimNetwork
    <2> QED
      BY <1>0, <2>1, <2>2, DaemonEffects DEF ProcTypeOK
  <1>2. CASE ClassifyConflict(p)
    BY <1>2, <1>0, ReturnTypes, DaemonEffects DEF ClassifyConflict
  <1>3. CASE RemoveOwnNetwork(p)
    BY <1>3, <1>0, <1>c, <1>e, ReturnTypes, DaemonEffects DEF RemoveOwnNetwork
  <1>4. CASE CreateVolume(p)
    <2>1. pc[p] \in VolumeKind /\ gen[p] \in Gen /\ AfterVolume(gen[p], pc[p]) \in PC
      BY <1>4, <1>c DEF CreateVolume, VolumeKind, AfterVolume
    <2> QED
      BY <1>4, <2>1, <1>b, <1>0, DaemonEffects DEF CreateVolume
  <1>5. CASE Prepare(p)
    <2>1. DaemonTypeOK'
      BY <1>5, DaemonAssumption DEF Prepare, StampedNow, DaemonTypeOK
    <2>2. gen[p] \in Gen
      BY <1>5, <1>c DEF Prepare
    <2> QED
      BY <1>5, <2>1, <2>2, <1>e DEF Prepare, ProcTypeOK
  <1>6. CASE CreateRunner(p)
    <2>1. hand[p] \in Containers
      BY <1>6, <1>d DEF CreateRunner, HoldsRunner
    <2> QED
      BY <1>6, <2>1, <1>0, <1>a, <1>b, DaemonEffects DEF CreateRunner
  <1>7. CASE StartRunner(p)
    <2>1. hand[p] \in Containers
      BY <1>7, <1>d DEF StartRunner, HoldsRunner
    <2>2. mishaps' \in 0 .. MaxMishaps
      BY <1>7, <1>0 DEF StartRunner
    <2> QED
      BY <1>7, <2>1, <2>2, <1>a, <1>b, DaemonEffects DEF StartRunner
  <1>8. CASE DropRejectedRunner(p)
    <2>1. hand[p] \in Resource /\ gen[p] \in Gen
      BY <1>8, <1>c, <1>d DEF DropRejectedRunner, HoldsRunner
    <2> QED
      BY <1>8, <2>1, <1>e, DaemonEffects DEF DropRejectedRunner, ProcTypeOK
  <1>9. CASE CreateDind(p)
    <2>1. <<gen[p], "dind">> \in Containers
      BY <1>9, <1>c, <1>e DEF CreateDind
    <2> QED
      BY <1>9, <2>1, <1>0, <1>a, <1>b, DaemonEffects DEF CreateDind
  <1>10. CASE StartDind(p)
    <2>1. <<gen[p], "dind">> \in Containers
      BY <1>10, <1>c, <1>e DEF StartDind
    <2> QED
      BY <1>10, <2>1, <1>0, <1>a, <1>b, DaemonEffects DEF StartDind
  <1>11. CASE DeliverCredentials(p)
    BY <1>11, <1>0, <1>a, <1>b, DaemonEffects DEF DeliverCredentials
  <1>12. CASE VerifyRunner(p)
    BY <1>12, <1>0, <1>a, <1>b, ReturnTypes, DaemonEffects DEF VerifyRunner
  <1>13. CASE VerifyDind(p)
    BY <1>13, <1>0, <1>a, ReturnTypes, DaemonEffects DEF VerifyDind
  <1>14. CASE CreateFails(p)
    BY <1>14, <1>0, <1>a, DaemonEffects DEF CreateFails
  <1> QED
    BY <1>1, <1>2, <1>3, <1>4, <1>5, <1>6, <1>7, <1>8, <1>9, <1>10, <1>11, <1>12,
       <1>13, <1>14 DEF CreateStep

\* Every step keeps the types, where the ownership invariant holds.
LEMMA NextTypes ==
  ASSUME TypeOK, OwnershipInv, [Next]_vars
  PROVE  TypeOK'
  <1>1. CASE Host
    BY <1>1, HostEffects DEF Host, TypeOK, ProcTypeOK
  <1>2. CASE UNCHANGED vars
    BY <1>2, DaemonEffects DEF TypeOK, ProcTypeOK
  <1>3. ASSUME NEW p \in Proc, GarmCalls(p) \/ ProcStep(p) \/ Killed(p)
        PROVE  TypeOK'
    BY <1>3, CallTypes, KilledTypes, SweepTypes, TeardownTypes, DeleteTypes, CreateTypes
       DEF ProcStep
  <1> QED
    BY <1>1, <1>2, <1>3 DEF Next

-----------------------------------------------------------------------------
(* Ownership. *)

\* A step changes nothing of what the other processes hold.
OthersKeep(p) ==
    \A q \in Proc \ {p} :
      /\ pc'[q] = pc[q] /\ gen'[q] = gen[q] /\ hand'[q] = hand[q]
      /\ mode'[q] = mode[q] /\ captured'[q] = captured[q] /\ todo'[q] = todo[q]

\* A claim that appears carries a fresh nonce.
ClaimsFresh ==
    /\ used \subseteq used'
    /\ \A g \in Gen : Claim(g) \in live' => Claim(g) \in live \/ g \notin used

\* What the other processes are entitled to survives every step.
LEMMA OthersEntitled ==
  ASSUME TypeOK, OwnershipInv, NEW p \in Proc, OthersKeep(p), ClaimsFresh
  PROVE  \A q \in Proc \ {p} : InPhase(q)' /\ Entitled(q)'
  <1> SUFFICES ASSUME NEW q \in Proc \ {p}
               PROVE  InPhase(q)' /\ Entitled(q)'
    OBVIOUS
  <1>1. InPhase(q) /\ Entitled(q)
    BY DEF OwnershipInv
  <1>2. InPhase(q)'
    BY <1>1 DEF OthersKeep, InPhase
  <1>3. hand[q] # None => hand[q][1] \in Gen
    BY DEF TypeOK, ProcTypeOK, Resource
  <1>4. Entitled(q)'
    BY <1>1, <1>3 DEF OthersKeep, ClaimsFresh, Entitled, ReadsLiveClaim
  <1> QED
    BY <1>2, <1>4

\* A step that creates nothing and draws no nonce.
LEMMA QuietStep ==
  ASSUME TypeOK, OwnershipInv, NEW p \in Proc, OthersKeep(p),
         live' \subseteq live, used' = used, gen'[p] \in {gen[p], None},
         InPhase(p)', Entitled(p)'
  PROVE  OwnershipInv'
  <1>1. ClaimsFresh
    BY DEF ClaimsFresh
  <1>2. \A q \in Proc : InPhase(q)' /\ Entitled(q)'
    BY <1>1, OthersEntitled
  <1>3. NoncesDrawn'
    BY DEF OwnershipInv, NoncesDrawn, OthersKeep
  <1>4. OneClaim'
    BY DEF OwnershipInv, OneClaim, Claim
  <1> QED
    BY <1>2, <1>3, <1>4 DEF OwnershipInv

\* The end of a call.
LEMMA ReturnOwns ==
  ASSUME TypeOK, OwnershipInv, NEW p \in Proc, Return(p), live' \subseteq live
  PROVE  OwnershipInv'
  <1>1. /\ OthersKeep(p) /\ used' = used /\ gen'[p] = None
        /\ pc'[p] = "idle" /\ todo'[p] = {} /\ hand'[p] = None
        /\ mode'[p] = None /\ captured'[p] = None
    BY DEF TypeOK, ProcTypeOK, Return, Goto, Hold, OthersKeep
  <1>2. InPhase(p)' /\ Entitled(p)'
    BY <1>1, AllocationAssumption
       DEF InPhase, Entitled, TeardownPC, CreatePC, HoldsRunner, Mode
  <1> QED
    BY <1>1, <1>2, QuietStep

\* Leaving a name: the sweep goes on to the next one.
LEMMA SweepingOwns ==
  ASSUME TypeOK, OwnershipInv, NEW p \in Proc, OthersKeep(p), live' \subseteq live,
         used' = used, gen'[p] = gen[p], pc'[p] \in SweepPC \cup {"claim"},
         todo'[p] = {}, hand'[p] = None, mode'[p] = None, captured'[p] = None
  PROVE  OwnershipInv'
  <1>1. InPhase(p)' /\ Entitled(p)'
    BY AllocationAssumption
       DEF InPhase, Entitled, TeardownPC, CreatePC, HoldsRunner, SweepPC, Mode
  <1> QED
    BY <1>1, QuietStep

\* A GARM call that starts owns nothing yet.
LEMMA CallOwns ==
  ASSUME TypeOK, OwnershipInv, NEW p \in Proc, GarmCalls(p)
  PROVE  OwnershipInv'
  <1>1. /\ pc[p] = "idle"
        /\ \/ (Goto(p, "enumerate") \/ Goto(p, "resolve")) /\ mode' = mode
           \/ Goto(p, "teardown") /\ mode' = [mode EXCEPT ![p] = "all"]
        /\ UNCHANGED <<live, used, gen, hand, captured, todo>>
    BY DEF GarmCalls, CreateInstance, DeleteInstance, ListInstances, RemoveAllInstances,
           StartCall
  <1>2. OthersKeep(p)
    BY <1>1 DEF OthersKeep, Goto, TypeOK, ProcTypeOK
  <1>3. /\ todo[p] = {} /\ hand[p] = None /\ mode[p] = None /\ captured[p] = None
    BY <1>1 DEF OwnershipInv, InPhase, TeardownPC
  <1>4. InPhase(p)' /\ Entitled(p)'
    BY <1>1, <1>3, AllocationAssumption
       DEF InPhase, Entitled, ReadsLiveClaim, SweepPC, DeletePC, TeardownPC, CreatePC, HoldsRunner,
           Mode, Goto, TypeOK, ProcTypeOK
  <1> QED
    BY <1>1, <1>2, <1>4, QuietStep

\* A sweep removes nothing itself: it keeps the ownership invariant.
LEMMA SweepOwns ==
  ASSUME TypeOK, OwnershipInv, NEW p \in Proc, SweepStep(p)
  PROVE  OwnershipInv'
  <1>1. pc[p] \in SweepPC
    BY DEF SweepStep, EnumerateInstanceNames, SweepContainers, SweepNetworks, SweepVolumes,
           InspectRunner, SweepDone, SweepPC
  <1>2. /\ todo[p] = {} /\ hand[p] = None /\ mode[p] = None /\ captured[p] = None
    BY <1>1 DEF OwnershipInv, InPhase, TeardownPC, SweepPC
  <1>3. live' = live
    BY DEF SweepStep, EnumerateInstanceNames, SweepContainers, SweepNetworks, SweepVolumes,
           InspectRunner, SweepDone
  <1>4. CASE Return(p)
    BY <1>3, <1>4, ReturnOwns
  <1>5. ASSUME UNCHANGED <<used, gen, hand, mode, captured, todo>>,
               NEW l \in SweepPC \cup {"claim"}, Goto(p, l)
        PROVE  OwnershipInv'
    BY <1>2, <1>3, <1>5, SweepingOwns DEF Goto, OthersKeep, TypeOK, ProcTypeOK
  <1>6. ASSUME UNCHANGED <<used, gen, mode, captured, todo>>, NextName(p)
        PROVE  OwnershipInv'
    BY <1>2, <1>3, <1>6, SweepingOwns DEF NextName, Goto, Hold, OthersKeep, TypeOK, ProcTypeOK, SweepPC
  <1>7. ASSUME UNCHANGED <<used, gen, hand, captured, todo>>, Goto(p, "capture"),
               mode' = [mode EXCEPT ![p] = "generation"]
        PROVE  OwnershipInv'
    <2>1. /\ OthersKeep(p) /\ gen'[p] = gen[p]
          /\ pc'[p] = "capture" /\ mode'[p] = "generation"
          /\ todo'[p] = {} /\ hand'[p] = None /\ captured'[p] = None
      BY <1>2, <1>7 DEF Goto, OthersKeep, TypeOK, ProcTypeOK
    <2>2. InPhase(p)' /\ Entitled(p)'
      BY <2>1, AllocationAssumption
         DEF InPhase, Entitled, TeardownPC, CreatePC, HoldsRunner, Mode
    <2> QED
      BY <1>3, <1>7, <2>1, <2>2, QuietStep
  <1>8. ASSUME NEW rs, Decide(p, rs), UNCHANGED <<used, gen, captured, todo>>
        PROVE  OwnershipInv'
    BY <1>6, <1>7, <1>8 DEF Decide
  <1>9. CASE EnumerateInstanceNames(p) \/ SweepDone(p)
    BY <1>9, <1>4, <1>5 DEF EnumerateInstanceNames, SweepDone, AfterSweep, SweepPC
  <1>10. CASE SweepContainers(p) \/ SweepNetworks(p)
    BY <1>10, <1>5, <1>6 DEF SweepContainers, SweepNetworks, SweepPC
  <1>11. CASE SweepVolumes(p) \/ InspectRunner(p)
    BY <1>11, <1>5, <1>6, <1>8 DEF SweepVolumes, InspectRunner, SweepPC
  <1> QED
    BY <1>9, <1>10, <1>11 DEF SweepStep

\* Resolving the name of a delete keeps the ownership invariant.
LEMMA DeleteOwns ==
  ASSUME TypeOK, OwnershipInv, NEW p \in Proc, DeleteStep(p)
  PROVE  OwnershipInv'
  <1>1. PICK next \in {"resolveNetworks", "resolveVolumes", "idle"} :
          /\ pc[p] \in DeletePC
          /\ live' = live
          /\ \/ Return(p)
             \/ /\ UNCHANGED <<used, gen, hand, captured, todo>>
                /\ \/ Goto(p, "capture") /\ mode' = [mode EXCEPT ![p] = "generation"]
                   \/ next # "idle" /\ Goto(p, next) /\ mode' = mode
    BY DEF DeleteStep, ResolveContainers, ResolveNetworks, ResolveVolumes, ResolveStep, DeletePC
  <1>2. /\ todo[p] = {} /\ hand[p] = None /\ mode[p] = None /\ captured[p] = None
    BY <1>1 DEF OwnershipInv, InPhase, TeardownPC, DeletePC
  <1>3. CASE Return(p)
    BY <1>1, <1>3, ReturnOwns
  <1>4. CASE ~Return(p)
    <2>1. OthersKeep(p)
      BY <1>1, <1>4 DEF Goto, OthersKeep, TypeOK, ProcTypeOK
    <2>2. /\ todo'[p] = {} /\ hand'[p] = None /\ captured'[p] = None
          /\ gen'[p] = gen[p]
          /\ \/ pc'[p] = "capture" /\ mode'[p] = "generation"
             \/ pc'[p] \in DeletePC /\ mode'[p] = None
      BY <1>1, <1>2, <1>4 DEF Goto, TypeOK, ProcTypeOK, DeletePC
    <2>3. InPhase(p)' /\ Entitled(p)'
      BY <2>2, AllocationAssumption
         DEF InPhase, Entitled, TeardownPC, CreatePC, DeletePC, HoldsRunner, Mode
    <2> QED
      BY <1>1, <1>4, <2>1, <2>2, <2>3, QuietStep
  <1> QED
    BY <1>3, <1>4

\* A leftover the gate lets through has no claim: a name has at most one claim
\* network, so the claim the gate reads is the only one it could be.
LEMMA LeftoverUnclaimed ==
  ASSUME TypeOK, OneClaim, NEW p \in Proc, NEW r \in Resource,
         ReadsLiveClaim(p), MayRemove(p, r)
  PROVE  Claim(r[1]) \notin live
  <1> DEFINE x == InstanceName[r[1]]
             gs == {g \in Gen : Claim(g) \in InstanceScoped(x, ControllerOf[p])}
  <1>1. r[1] \in Gen /\ ControllerID[r[1]] = ControllerOf[p]
    BY DEF Resource, MayRemove, MatchesPredicate
  <1>2. r[1] # ClaimHolder(x, ControllerOf[p])
    BY DEF MayRemove, ReadsLiveClaim
  <1>3. ASSUME Claim(r[1]) \in live
        PROVE  FALSE
    <2>1. r[1] \in gs
      BY <1>1, <1>3 DEF InstanceScoped, MatchesPredicate, Claim
    <2>2. \A g \in gs : g = r[1]
      BY <1>1, <1>3 DEF InstanceScoped, MatchesPredicate, Claim, OneClaim
    <2>3. ClaimHolder(x, ControllerOf[p]) = CHOOSE g \in gs : TRUE
      BY <2>1 DEF ClaimHolder
    <2>4. (CHOOSE g \in gs : TRUE) \in gs
      BY <2>1
    <2> QED
      BY <1>2, <2>2, <2>3, <2>4
  <1> QED
    BY <1>3

\* A teardown step keeps the ownership invariant: what it lists and what it holds
\* passed the gate of its mode.
LEMMA TeardownOwns ==
  ASSUME TypeOK, OwnershipInv, NEW p \in Proc, TeardownStep(p)
  PROVE  OwnershipInv'
  <1>a. InPhase(p) /\ Entitled(p)
    BY DEF OwnershipInv
  <1>b. ASSUME TeardownReturns(p), live' = live
        PROVE  OwnershipInv'
    <2>1. CASE Return(p)
      BY <1>b, <2>1, ReturnOwns
    <2>2. CASE ~Return(p)
      BY <1>b, <2>2, SweepingOwns
         DEF TeardownReturns, NextName, Goto, Hold, OthersKeep, TypeOK, ProcTypeOK, SweepPC
    <2> QED
      BY <2>1, <2>2
  <1>c. ASSUME NEW from \in TeardownPC \ {"capture"},
               NEW to \in {"containers", "volumes", "networks"},
               NEW kinds, ListPhase(p, from, to, kinds)
        PROVE  OwnershipInv'
    <2>1. /\ OthersKeep(p) /\ live' = live
          /\ UNCHANGED <<used, gen, hand, mode, captured>>
          /\ pc[p] = from /\ pc'[p] = to /\ hand[p] = None
      BY <1>c DEF ListPhase, Goto, OthersKeep, TypeOK, ProcTypeOK
    <2>2. \A r \in todo'[p] : r \in Matching(p) /\ (ReadsLiveClaim(p) \/ MayRemove(p, r))
      BY <1>c DEF ListPhase, TypeOK, ProcTypeOK
    <2>3. \A r \in todo'[p] : r \in live /\ ControllerID[r[1]] = ControllerOf[p]
      BY <2>2 DEF Matching, InstanceScoped, MatchesPredicate
    <2>4. \A r \in todo'[p] :
            /\ mode[p] = "exact" => r[1] = gen[p]
            /\ mode[p] = "generation" /\ captured[p] # None => r[1] = captured[p]
      BY <2>2 DEF Matching, ReadsLiveClaim, MayRemove
    <2>5. InPhase(p)'
      BY <1>a, <2>1 DEF InPhase, TeardownPC, SweepPC, DeletePC, CreatePC, HoldsRunner
    <2>6. Entitled(p)'
      BY <2>1, <2>3, <2>4 DEF Entitled, OwnershipInv, NoncesDrawn
    <2> QED
      BY <2>1, <2>5, <2>6, QuietStep
  <1>d. ASSUME NEW r, RemoveResource(p, r), pc[p] \in TeardownPC \ {"capture"}, OthersKeep(p),
               pc'[p] \in {"containers", "volumes", "networks"}
        PROVE  OwnershipInv'
    <2>1. /\ live' \subseteq live /\ UNCHANGED <<used, gen, mode, captured>>
          /\ hand'[p] = None /\ todo'[p] \subseteq todo[p]
      BY <1>d DEF RemoveResource, Removed, Hold, TypeOK, ProcTypeOK
    <2>2. InPhase(p)'
      BY <1>a, <1>d, <2>1 DEF InPhase, TeardownPC, SweepPC, DeletePC, CreatePC, HoldsRunner
    <2>3. Entitled(p)'
      BY <1>a, <1>d, <2>1 DEF Entitled
    <2> QED
      BY <1>d, <2>1, <2>2, <2>3, QuietStep
  <1>1. CASE CaptureGeneration(p)
    <2>1. CASE TeardownReturns(p)
      BY <1>1, <2>1, <1>b DEF CaptureGeneration
    <2>2. CASE ~TeardownReturns(p)
      <3>1. /\ OthersKeep(p) /\ live' = live
            /\ UNCHANGED <<used, gen, hand, mode, todo>>
            /\ pc[p] = "capture" /\ pc'[p] = "teardown"
        BY <1>1, <2>2 DEF CaptureGeneration, Goto, OthersKeep, TypeOK, ProcTypeOK
      <3>2. todo[p] = {} /\ hand[p] = None /\ mode[p] = "generation"
        BY <1>a, <3>1 DEF InPhase
      <3>3. InPhase(p)' /\ Entitled(p)'
        BY <3>1, <3>2, AllocationAssumption
           DEF InPhase, Entitled, TeardownPC, SweepPC, DeletePC, CreatePC, HoldsRunner, Mode
      <3> QED
        BY <3>1, <3>3, QuietStep
    <2> QED
      BY <2>1, <2>2
  <1>2. CASE ListContainers(p) \/ ListVolumes(p) \/ ListNetworks(p)
    BY <1>2, <1>c DEF ListContainers, ListVolumes, ListNetworks, TeardownPC
  <1>3. CASE CheckLeftover(p)
    <2>1. PICK r \in First(p) :
            /\ todo' = [todo EXCEPT ![p] = @ \ {r}]
            /\ \/ MayRemove(p, r) /\ hand' = [hand EXCEPT ![p] = r]
               \/ hand' = [hand EXCEPT ![p] = None]
               \/ hand' = hand
      BY <1>3 DEF CheckLeftover, Hold
    <2>2. /\ pc[p] \in {"containers", "volumes", "networks"}
          /\ ReadsLiveClaim(p) /\ hand[p] = None
          /\ UNCHANGED <<live, pc, used, gen, mode, captured>>
      BY <1>3 DEF CheckLeftover
    <2>3. OthersKeep(p) /\ r \in todo[p] /\ r \in Resource
      BY <2>1, <2>2 DEF OthersKeep, First, TypeOK, ProcTypeOK
    <2>4. \/ hand'[p] = None
          \/ hand'[p] = r /\ Claim(r[1]) \notin live
      BY <2>1, <2>2, <2>3, LeftoverUnclaimed DEF OwnershipInv, TypeOK, ProcTypeOK
    <2>5. InPhase(p)'
      BY <1>a, <2>2 DEF InPhase, TeardownPC, SweepPC, DeletePC, CreatePC, HoldsRunner
    <2>6. todo'[p] \subseteq todo[p]
      BY <2>1 DEF TypeOK, ProcTypeOK
    <2>7. Entitled(p)'
      BY <1>a, <2>2, <2>3, <2>4, <2>6 DEF Entitled, TeardownPC
    <2> QED
      BY <2>2, <2>3, <2>5, <2>7, QuietStep
  <1>4. CASE StopContainer(p)
    <2>1. PICK r \in Ready(p) :
            hand' = [hand EXCEPT ![p] = r] /\ todo' = [todo EXCEPT ![p] = @ \ {r}]
      BY <1>4 DEF StopContainer, Hold
    <2>2. /\ pc[p] = "containers" /\ pc'[p] = "remove"
          /\ UNCHANGED <<live, used, gen, mode, captured>>
      BY <1>4 DEF StopContainer, ContainerExited, Goto, TypeOK, ProcTypeOK
    <2>3. /\ r \in todo[p] \cup ({hand[p]} \ {None})
          /\ ReadsLiveClaim(p) => r = hand[p] /\ hand[p] # None
          /\ r \in Resource
      BY <2>1 DEF Ready, First, TypeOK, ProcTypeOK
    <2>4. /\ OthersKeep(p) /\ hand'[p] = r /\ todo'[p] \subseteq todo[p]
      BY <1>4, <2>1, <2>2 DEF StopContainer, Goto, OthersKeep, TypeOK, ProcTypeOK
    <2>5. InPhase(p)'
      BY <1>a, <2>2, <2>3, <2>4, AllocationAssumption
         DEF InPhase, TeardownPC, SweepPC, DeletePC, CreatePC, HoldsRunner
    <2>6. Entitled(p)'
      BY <1>a, <2>2, <2>3, <2>4 DEF Entitled, ReadsLiveClaim, TeardownPC
    <2> QED
      BY <2>2, <2>4, <2>5, <2>6, QuietStep
  <1>5. CASE RemoveContainer(p)
    <2>1. OthersKeep(p) /\ pc[p] = "remove" /\ pc'[p] = "containers"
      BY <1>5 DEF RemoveContainer, RemoveResource, Goto, Hold, OthersKeep, TypeOK, ProcTypeOK
    <2> QED
      BY <1>5, <1>d, <2>1 DEF RemoveContainer, TeardownPC
  <1>6. CASE RemoveVolumeOrNetwork(p)
    <2>1. PICK r \in Ready(p) : RemoveResource(p, r)
      BY <1>6 DEF RemoveVolumeOrNetwork
    <2>2. OthersKeep(p) /\ pc[p] \in {"volumes", "networks"} /\ pc' = pc
      BY <1>6, <2>1
         DEF RemoveVolumeOrNetwork, RemoveResource, Hold, OthersKeep, TypeOK, ProcTypeOK
    <2> QED
      BY <2>1, <2>2, <1>d DEF TeardownPC
  <1>7. CASE TeardownDone(p)
    BY <1>7, <1>b DEF TeardownDone
  <1> QED
    BY <1>1, <1>2, <1>3, <1>4, <1>5, <1>6, <1>7 DEF TeardownStep

\* A step of a create that may add one of its own resources, but no claim.
LEMMA AddStep ==
  ASSUME TypeOK, OwnershipInv, NEW p \in Proc, OthersKeep(p), gen[p] # None,
         NEW k \in Kind \ {"network"}, live' \subseteq live \cup {<<gen[p], k>>},
         used' = used, gen'[p] = gen[p], InPhase(p)', Entitled(p)'
  PROVE  OwnershipInv'
  <1>1. \A g \in Gen : Claim(g) \in live' => Claim(g) \in live
    BY DEF Claim
  <1>2. \A q \in Proc : InPhase(q)' /\ Entitled(q)'
    BY <1>1, OthersEntitled DEF ClaimsFresh
  <1>3. NoncesDrawn'
    BY DEF OwnershipInv, NoncesDrawn, OthersKeep
  <1>4. OneClaim'
    BY <1>1 DEF OwnershipInv, OneClaim, Claim
  <1> QED
    BY <1>2, <1>3, <1>4 DEF OwnershipInv

\* A create step keeps the ownership invariant: the claim it makes is the only one
\* of its name and carries a nonce nobody holds.
LEMMA CreateOwns ==
  ASSUME TypeOK, OwnershipInv, NEW p \in Proc, CreateStep(p)
  PROVE  OwnershipInv'
  <1> USE DEF Goto, Hold
  <1>a. InPhase(p)
    BY DEF OwnershipInv
  <1>b. pc[p] \in CreatePC => mode[p] = None /\ captured[p] = None /\ todo[p] = {}
    BY <1>a DEF InPhase, CreatePC, TeardownPC
  <1>c. pc[p] \in CreatePC \ {"claim"} => gen[p] # None
    BY <1>a DEF InPhase
  <1>d. pc[p] \in HoldsRunner => /\ pc[p] \in CreatePC \ {"claim"}
                                /\ hand[p] \in Runners /\ hand[p][1] = gen[p]
    BY <1>a DEF InPhase, HoldsRunner, CreatePC
  <1>e. ASSUME Guarded(p), pc[p] \in CreatePC \ {"claim"},
               NEW k \in Kind \ {"network"}, live' \subseteq live \cup {<<gen[p], k>>}
        PROVE  OwnershipInv'
    <2>1. /\ OthersKeep(p) /\ used' = used /\ gen' = gen
          /\ pc'[p] = "teardown" /\ mode'[p] = "exact" /\ hand'[p] = None
          /\ captured' = captured /\ todo' = todo
      BY <1>e DEF Guarded, OthersKeep, TypeOK, ProcTypeOK
    <2>2. InPhase(p)' /\ Entitled(p)'
      BY <1>b, <1>c, <1>e, <2>1, AllocationAssumption
         DEF InPhase, Entitled, ReadsLiveClaim, TeardownPC, SweepPC, DeletePC, CreatePC,
             HoldsRunner, Mode
    <2> QED
      BY <1>c, <1>e, <2>1, <2>2, AddStep
  <1>f. ASSUME NEW l \in CreatePC \ {"claim"}, Goto(p, l), UNCHANGED createFrame,
               pc[p] \in CreatePC \ {"claim"},
               \A q \in Proc \ {p} : hand'[q] = hand[q],
               l \in HoldsRunner => hand'[p] \in Runners /\ hand'[p][1] = gen[p],
               NEW k \in Kind \ {"network"}, live' \subseteq live \cup {<<gen[p], k>>}
        PROVE  OwnershipInv'
    <2>1. OthersKeep(p) /\ pc'[p] = l
      BY <1>f DEF OthersKeep, TypeOK, ProcTypeOK
    <2>2. InPhase(p)' /\ Entitled(p)'
      BY <1>b, <1>c, <1>f, <2>1, AllocationAssumption
         DEF InPhase, Entitled, TeardownPC, SweepPC, DeletePC, CreatePC, Mode
    <2> QED
      BY <1>c, <1>f, <2>1, <2>2, AddStep
  <1>g. \A r \in Runners : r[2] \in Kind \ {"network"} /\ r = <<r[1], r[2]>>
    BY DEF Runners, RunnerKind, ContainerKind, VolumeKind, Kind
  <1>h. /\ "dind" \in Kind \ {"network"} /\ "runner" \in Kind \ {"network"}
        /\ VolumeKind \subseteq Kind \ {"network"}
    BY DEF RunnerKind, ContainerKind, VolumeKind, Kind
  <1>1. CASE CreateClaimNetwork(p)
    <2>1. PICK g \in Gen \ used :
            /\ InstanceName[g] = target[p] /\ ControllerID[g] = ControllerOf[p]
            /\ used' = used \cup {g}
            /\ gen' = [gen EXCEPT ![p] = g]
            /\ \/ live' = live \cup {Claim(g)} /\ ~NetworkNameTaken(target[p])
               \/ live' = live
            /\ \E l \in {"workspace", "unclaim", "classify"} : Goto(p, l)
      BY <1>1 DEF CreateClaimNetwork, NetworkCreated
    <2>2. pc[p] = "claim" /\ UNCHANGED <<hand, mode, captured, todo>>
      BY <1>1 DEF CreateClaimNetwork
    <2>3. OthersKeep(p) /\ gen'[p] = g /\ pc'[p] \in {"workspace", "unclaim", "classify"}
      BY <2>1, <2>2 DEF OthersKeep, TypeOK, ProcTypeOK
    <2>4. ClaimsFresh
      BY <2>1 DEF ClaimsFresh, Claim
    <2>5. InPhase(p)' /\ Entitled(p)'
      BY <1>b, <2>2, <2>3, AllocationAssumption
         DEF InPhase, Entitled, TeardownPC, SweepPC, DeletePC, CreatePC, HoldsRunner, Mode
    <2>6. NoncesDrawn'
      BY <2>1, <2>3 DEF OwnershipInv, NoncesDrawn, OthersKeep, Claim
    <2>7. OneClaim'
      <3>1. CASE live' = live
        BY <3>1 DEF OwnershipInv, OneClaim, Claim
      <3>2. CASE live' = live \cup {Claim(g)} /\ ~NetworkNameTaken(target[p])
        <4>1. \A h \in Gen : Claim(h) \in live => InstanceName[h] # InstanceName[g]
          BY <2>1, <3>2 DEF NetworkNameTaken, Networks, Claim
        <4> QED
          BY <3>2, <4>1 DEF OwnershipInv, OneClaim, Claim
      <3> QED
        BY <2>1, <3>1, <3>2
    <2> QED
      BY <2>3, <2>4, <2>5, <2>6, <2>7, OthersEntitled DEF OwnershipInv
  <1>2. CASE ClassifyConflict(p) \/ RemoveOwnNetwork(p)
    BY <1>2, ReturnOwns DEF ClassifyConflict, RemoveOwnNetwork, Removed
  <1>3. CASE CreateVolume(p)
    <2>1. /\ pc[p] \in VolumeKind
          /\ AfterVolume(gen[p], pc[p]) \in CreatePC \ ({"claim"} \cup HoldsRunner)
      BY <1>3 DEF CreateVolume, AfterVolume, VolumeKind, CreatePC, HoldsRunner
    <2>2. pc[p] \in CreatePC \ {"claim"}
      BY <2>1 DEF VolumeKind, CreatePC
    <2> QED
      BY <1>3, <1>f, <1>h, <2>1, <2>2 DEF CreateVolume, VolumeCreated
  <1>4. CASE Prepare(p)
    <2>1. pc[p] \in CreatePC \ {"claim"} /\ "runner" \in CreatePC \ {"claim"}
      BY <1>4 DEF Prepare, CreatePC
    <2>2. hand'[p] = <<gen[p], "runner">> /\ \A q \in Proc \ {p} : hand'[q] = hand[q]
      BY <1>4 DEF Prepare, TypeOK, ProcTypeOK
    <2>3. hand'[p] \in Runners /\ hand'[p][1] = gen[p]
      BY <1>c, <2>1, <2>2 DEF Runners, RunnerKind, TypeOK, ProcTypeOK
    <2>4. /\ Goto(p, "runner") /\ UNCHANGED createFrame
          /\ live' \subseteq live \cup {<<gen[p], "runner">>}
      BY <1>4 DEF Prepare
    <2> QED
      BY <1>d, <1>f, <1>h, <2>1, <2>2, <2>3, <2>4
  <1>5. CASE CreateRunner(p)
    <2>1. pc[p] \in HoldsRunner /\ "start" \in CreatePC \ {"claim"}
      BY <1>5 DEF CreateRunner, HoldsRunner, CreatePC
    <2>2. hand[p] = <<gen[p], hand[p][2]>> /\ hand[p][2] \in Kind \ {"network"}
      BY <1>d, <1>g, <2>1
    <2>3. live' \subseteq live \cup {<<gen[p], hand[p][2]>>}
      BY <1>5, <2>2 DEF CreateRunner, ContainerCreated
    <2> QED
      BY <1>5, <1>d, <1>e, <1>f, <2>1, <2>2, <2>3 DEF CreateRunner
  <1>6. CASE StartRunner(p)
    <2>1. pc[p] \in HoldsRunner /\ {"dind", "deliver", "drop"} \subseteq CreatePC \ {"claim"}
      BY <1>6 DEF StartRunner, HoldsRunner, CreatePC
    <2>2. live' = live
      BY <1>6 DEF StartRunner, ContainerStarted
    <2> QED
      BY <1>6, <1>d, <1>e, <1>f, <1>h, <2>1, <2>2 DEF StartRunner
  <1>7. CASE DropRejectedRunner(p)
    <2>1. pc[p] \in HoldsRunner /\ "runner" \in CreatePC \ {"claim"}
      BY <1>7 DEF DropRejectedRunner, HoldsRunner, CreatePC
    <2>2. hand'[p] = <<gen[p], "retried">> /\ \A q \in Proc \ {p} : hand'[q] = hand[q]
      BY <1>7 DEF DropRejectedRunner, TypeOK, ProcTypeOK
    <2>3. hand'[p] \in Runners /\ hand'[p][1] = gen[p]
      BY <1>c, <1>d, <2>1, <2>2 DEF Runners, RunnerKind, TypeOK, ProcTypeOK
    <2>4. /\ Goto(p, "runner") /\ UNCHANGED createFrame
          /\ live' \subseteq live \cup {<<gen[p], "runner">>}
      BY <1>7 DEF DropRejectedRunner, Removed
    <2> QED
      BY <1>d, <1>f, <1>h, <2>1, <2>2, <2>3, <2>4
  <1>8. CASE CreateDind(p)
    <2>1. pc[p] \in HoldsRunner /\ "startDind" \in CreatePC \ {"claim"}
      BY <1>8 DEF CreateDind, HoldsRunner, CreatePC
    <2>2. live' \subseteq live \cup {<<gen[p], "dind">>}
      BY <1>8 DEF CreateDind, ContainerCreated
    <2> QED
      BY <1>8, <1>d, <1>e, <1>f, <1>h, <2>1, <2>2 DEF CreateDind
  <1>9. CASE StartDind(p)
    <2>1. pc[p] \in HoldsRunner /\ "deliver" \in CreatePC \ {"claim"}
      BY <1>9 DEF StartDind, HoldsRunner, CreatePC
    <2>2. live' = live
      BY <1>9 DEF StartDind, ContainerStarted
    <2> QED
      BY <1>9, <1>d, <1>e, <1>f, <1>h, <2>1, <2>2 DEF StartDind
  <1>10. CASE DeliverCredentials(p) \/ VerifyRunner(p) \/ VerifyDind(p)
    <2>1. pc[p] \in HoldsRunner /\ {"verify", "verifyDind"} \subseteq CreatePC \ {"claim"}
      BY <1>10 DEF DeliverCredentials, VerifyRunner, VerifyDind, HoldsRunner, CreatePC
    <2>2. live' = live
      BY <1>10 DEF DeliverCredentials, VerifyRunner, VerifyDind
    <2> QED
      BY <1>10, <1>d, <1>e, <1>f, <1>h, <2>1, <2>2, ReturnOwns
         DEF DeliverCredentials, VerifyRunner, VerifyDind
  <1>11. CASE CreateFails(p)
    <2>1. pc[p] \in CreatePC \ {"claim"}
      BY <1>11 DEF CreateFails, GuardedPC, VolumeKind, HoldsRunner, CreatePC
    <2> QED
      BY <1>11, <1>e, <1>h, <2>1 DEF CreateFails
  <1> QED
    BY <1>1, <1>2, <1>3, <1>4, <1>5, <1>6, <1>7, <1>8, <1>9, <1>10, <1>11 DEF CreateStep

-----------------------------------------------------------------------------
(* The theorems. *)

\* The initial states satisfy the inductive invariant.
LEMMA InitInv == Init => TypeOK /\ OwnershipInv
  <1> SUFFICES ASSUME Init
               PROVE  TypeOK /\ OwnershipInv
    OBVIOUS
  <1>1. DaemonTypeOK
    BY DaemonAssumption DEF Init, DaemonInit, DaemonTypeOK, CState
  <1>2. ProcTypeOK
    BY AllocationAssumption DEF Init, ProcTypeOK, PC
  <1>3. OwnershipInv
    BY AllocationAssumption
       DEF Init, DaemonInit, OwnershipInv, NoncesDrawn, OneClaim, InPhase, Entitled, TeardownPC,
           CreatePC, HoldsRunner, Mode
  <1> QED
    BY <1>1, <1>2, <1>3 DEF TypeOK

\* Every step keeps the ownership invariant.
LEMMA NextOwns ==
  ASSUME TypeOK, OwnershipInv, [Next]_vars
  PROVE  OwnershipInv'
  <1>1. CASE Host \/ UNCHANGED vars
    <2>1. UNCHANGED <<live, used, pc, gen, hand, mode, captured, todo>>
      BY <1>1 DEF Host, ContainerExits, ContainerExited, Tick
    <2> QED
      BY <2>1 DEF OwnershipInv, NoncesDrawn, OneClaim, InPhase, Entitled, ReadsLiveClaim
  <1>2. ASSUME NEW p \in Proc, GarmCalls(p) \/ ProcStep(p) \/ Killed(p)
        PROVE  OwnershipInv'
    <2>1. CASE Killed(p)
      BY <2>1, ReturnOwns DEF Killed
    <2> QED
      BY <1>2, <2>1, CallOwns, SweepOwns, TeardownOwns, DeleteOwns, CreateOwns DEF ProcStep
  <1> QED
    BY <1>1, <1>2 DEF Next

\* Every variable keeps its type in every reachable state of the specification.
THEOREM TypeCorrect == Spec => []TypeOK
  <1>1. TypeOK /\ OwnershipInv /\ [Next]_vars => (TypeOK /\ OwnershipInv)'
    BY NextTypes, NextOwns
  <1> QED
    BY <1>1, InitInv, PTL DEF Spec

\* The ownership invariant holds: one claim per name, and every removal a teardown
\* still has to make is one its mode entitles it to.
THEOREM OwnershipHolds == Spec => []OwnershipInv
  <1>1. TypeOK /\ OwnershipInv /\ [Next]_vars => (TypeOK /\ OwnershipInv)'
    BY NextTypes, NextOwns
  <1> QED
    BY <1>1, InitInv, PTL DEF Spec

\* The steps that remove something.
RemovalStep(p) ==
    \/ RemoveContainer(p) \/ RemoveVolumeOrNetwork(p)
    \/ RemoveOwnNetwork(p) \/ DropRejectedRunner(p)

\* Nothing else removes a resource.
LEMMA OnlyRemovalsRemove ==
  ASSUME TypeOK, NEW p \in Proc, GarmCalls(p) \/ ProcStep(p) \/ Killed(p), ~RemovalStep(p)
  PROVE  live \subseteq live'
  <1>1. CASE GarmCalls(p) \/ Killed(p) \/ DeleteStep(p)
    BY <1>1 DEF GarmCalls, CreateInstance, DeleteInstance, ListInstances, RemoveAllInstances,
                StartCall, Killed, DeleteStep, ResolveContainers, ResolveNetworks,
                ResolveVolumes, ResolveStep
  <1>2. CASE SweepStep(p)
    BY <1>2 DEF SweepStep, EnumerateInstanceNames, SweepContainers, SweepNetworks,
                SweepVolumes, InspectRunner, SweepDone
  <1>3. CASE TeardownStep(p)
    BY <1>3 DEF RemovalStep, TeardownStep, CaptureGeneration, ListContainers, ListVolumes,
                ListNetworks, ListPhase, CheckLeftover, StopContainer, ContainerExited,
                TeardownDone
  <1>4. CASE CreateStep(p)
    BY <1>4 DEF RemovalStep, CreateStep, CreateClaimNetwork, NetworkCreated, ClassifyConflict,
                CreateVolume, VolumeCreated, Prepare, CreateRunner, ContainerCreated,
                StartRunner, ContainerStarted, CreateDind, StartDind, DeliverCredentials,
                VerifyRunner, VerifyDind, CreateFails
  <1> QED
    BY <1>1, <1>2, <1>3, <1>4 DEF ProcStep

\* Whoever removes a resource is entitled to it.
LEMMA RemovalEntitled ==
  ASSUME TypeOK, OwnershipInv, [Next]_vars, NEW p \in Proc, Acts(p), NEW r \in live \ live'
  PROVE  /\ ControllerID[r[1]] = ControllerOf[p]
         /\ mode[p] = "generation" => captured[p] = r[1] \/ Claim(r[1]) \notin live
         /\ mode[p] \notin {"generation", "all"} => r[1] = gen[p]
  <1>1. PICK q \in Proc : RemovalStep(q)
    BY OnlyRemovalsRemove DEF Next, Host, ContainerExits, ContainerExited, Tick
  <1>2. /\ \A s \in Proc \ {q} : pc'[s] = pc[s] /\ hand'[s] = hand[s] /\ todo'[s] = todo[s]
    BY <1>1 DEF RemovalStep, RemoveContainer, RemoveVolumeOrNetwork, RemoveResource,
                RemoveOwnNetwork, DropRejectedRunner, Return, Goto, Hold, TypeOK, ProcTypeOK
  <1>3. p = q
    BY <1>2 DEF Acts
  <1>4. InPhase(p) /\ Entitled(p) /\ NoncesDrawn
    BY DEF OwnershipInv
  <1>5. CASE RemoveContainer(p) \/ RemoveVolumeOrNetwork(p)
    <2>1. PICK s : /\ RemoveResource(p, s)
                   /\ s \in todo[p] \cup ({hand[p]} \ {None})
                   /\ ReadsLiveClaim(p) => s = hand[p] /\ hand[p] # None
                   /\ pc[p] \in TeardownPC
      <3>1. CASE RemoveContainer(p)
        BY <1>4, <3>1 DEF RemoveContainer, InPhase, TeardownPC
      <3>2. CASE RemoveVolumeOrNetwork(p)
        BY <3>2 DEF RemoveVolumeOrNetwork, Ready, First, TeardownPC
      <3> QED
        BY <1>5, <3>1, <3>2
    <2>2. r = s
      BY <2>1 DEF RemoveResource, Removed
    <2>3. mode[p] \in Mode
      BY <1>4, <2>1 DEF InPhase, TypeOK, ProcTypeOK
    <2> QED
      BY <1>4, <2>1, <2>2, <2>3 DEF Entitled, ReadsLiveClaim, Mode
  <1>6. CASE RemoveOwnNetwork(p)
    <2>1. r[1] = gen[p]
      BY <1>6 DEF RemoveOwnNetwork, Removed, Claim
    <2>2. mode[p] = None /\ gen[p] # None
      BY <1>4, <1>6 DEF RemoveOwnNetwork, InPhase, TeardownPC, CreatePC
    <2> QED
      BY <1>4, <2>1, <2>2, AllocationAssumption DEF NoncesDrawn, Mode
  <1>7. CASE DropRejectedRunner(p)
    <2>1. r = hand[p]
      BY <1>7 DEF DropRejectedRunner, Removed
    <2>2. mode[p] = None /\ gen[p] # None /\ hand[p][1] = gen[p]
      BY <1>4, <1>7 DEF DropRejectedRunner, InPhase, TeardownPC, CreatePC, HoldsRunner
    <2> QED
      BY <1>4, <2>1, <2>2, AllocationAssumption DEF NoncesDrawn, Mode
  <1> QED
    BY <1>1, <1>3, <1>5, <1>6, <1>7 DEF RemovalStep

\* No delete or sweep ever removes anything of a generation whose claim is live,
\* unless that generation held the claim when the teardown began.
THEOREM LaterClaimSpared == Spec => SparesLaterClaim
  <1>1. TypeOK /\ OwnershipInv /\ [Next]_vars =>
          [\A p \in Proc : \A r \in live \ live' :
             Acts(p) /\ mode[p] = "generation" =>
               captured[p] = r[1] \/ Claim(r[1]) \notin live]_vars
    BY RemovalEntitled
  <1> QED
    BY <1>1, TypeCorrect, OwnershipHolds, PTL DEF Spec, SparesLaterClaim

\* No call removes another controller's resources, and a create removes only what
\* carries its own nonce.
THEOREM OnlyOwnTouched == Spec => TouchesOnlyOwn
  <1>1. TypeOK /\ OwnershipInv /\ [Next]_vars =>
          [\A p \in Proc : \A r \in live \ live' :
             Acts(p) => /\ ControllerID[r[1]] = ControllerOf[p]
                        /\ mode[p] \notin {"generation", "all"} => r[1] = gen[p]]_vars
    BY RemovalEntitled
  <1> QED
    BY <1>1, TypeCorrect, OwnershipHolds, PTL DEF Spec, TouchesOnlyOwn
=============================================================================
