---------------------------- MODULE TeardownProofs ----------------------------
(***************************************************************************)
(* What a teardown of Allocation leaves behind, for any number of          *)
(* processes, controllers, names, generations and failures: a teardown     *)
(* that met no error leaves nothing of a generation whose create was over, *)
(* and the claim is the last thing it takes.                               *)
(*                                                                         *)
(* The argument: once nobody holds the nonce of a generation, nothing of   *)
(* it appears any more.  So what one list showed is all there is of that   *)
(* kind, and each resource is on the list until it is gone or its removal  *)
(* has failed, whoever else removes it meanwhile.                          *)
(***************************************************************************)
EXTENDS AllocationProofs

USE DEF vars, daemonVars, procVars, callVars, createVars, sweepVars, scopeVars,
        teardownVars, createFrame

-----------------------------------------------------------------------------
(* The inductive invariant. *)

\* Process p is in a teardown of one generation whose create was over when it began.
Keyed(p) == pc[p] \in TeardownPC \ {"capture"} /\ settled[p] /\ Subject(p) # None

\* What there is of a generation among some resources.
Left(g, rs) == {r \in live \cap rs : r[1] = g}

\* A process has a nonce only in its create, from the claim to the end of the guard.
Holds(p) ==
    /\ gen[p] # None => /\ pc[p] \in CreatePC \ {"claim"} \/ mode[p] = "exact"
                        /\ InstanceName[gen[p]] = target[p]
    /\ mode[p] = "all" => captured[p] = None
    /\ captured[p] # None => captured[p] \in used

\* The filter of the lists selects all of the generation.
Aimed(p) ==
    /\ InstanceName[Subject(p)] = cur[p]
    /\ ControllerID[Subject(p)] = ControllerOf[p]

\* Each phase has one kind of resource on its list.
OneKind(p) ==
    /\ pc[p] \in {"containers", "remove"} => todo[p] \subseteq Containers
    /\ pc[p] = "remove" => hand[p] \in Containers
    /\ pc[p] = "volumes" => todo[p] \subseteq Volumes
    /\ pc[p] = "networks" => todo[p] \subseteq Networks

\* What is left of the generation is on the list or still has its list to come.
Scheduled(p) ==
    LET g == Subject(p) IN
    /\ pc[p] = "containers" => Left(g, Containers) \subseteq todo[p]
    /\ pc[p] = "remove" => Left(g, Containers) \subseteq todo[p] \cup {hand[p]}
    /\ pc[p] \in {"volumes", "networks"} => Left(g, Containers) = {}
    /\ pc[p] = "volumes" => Left(g, Volumes) \subseteq todo[p]
    /\ pc[p] = "networks" => Left(g, Volumes) = {} /\ Left(g, Networks) \subseteq todo[p]

Settled(p) ==
    Keyed(p) =>
      /\ Aimed(p)
      /\ \A q \in Proc \ {p} : gen[q] # Subject(p)
      /\ OneKind(p)
      /\ ~err[p] => Scheduled(p)

OneHolder == \A p, q \in Proc : gen[p] # None /\ gen[p] = gen[q] => p = q

SettledInv == OneHolder /\ \A p \in Proc : Holds(p) /\ Settled(p)

-----------------------------------------------------------------------------
(* Whose state a step changes, and whose resources it adds. *)

\* A step changes the variables of one process.
Local(p) ==
    \A q \in Proc \ {p} :
      /\ pc'[q] = pc[q] /\ target'[q] = target[q] /\ gen'[q] = gen[q] /\ hand'[q] = hand[q]
      /\ cur'[q] = cur[q] /\ mode'[q] = mode[q] /\ captured'[q] = captured[q]
      /\ settled'[q] = settled[q] /\ todo'[q] = todo[q] /\ err'[q] = err[q]
      /\ call'[q] = call[q] /\ noted'[q] = noted[q] /\ names'[q] = names[q]

\* The end of a call, and of the work on one name.
LEMMA ReturnIsLocal ==
  ASSUME TypeOK, NEW p \in Proc,
         Return(p) \/ AfterSweep(p) \/ TeardownReturns(p)
  PROVE  Local(p)
  BY DEF Return, AfterSweep, TeardownReturns, NextName, Goto, Hold, Local, TypeOK, ProcTypeOK

\* A step of a sweep, or of a delete before its teardown.
LEMMA SweepIsLocal ==
  ASSUME TypeOK, NEW p \in Proc, SweepStep(p) \/ DeleteStep(p)
  PROVE  Local(p)
  <1> USE ReturnIsLocal DEF Local, Goto, Hold, NextName, TypeOK, ProcTypeOK
  <1>1. CASE EnumerateInstanceNames(p)
    BY <1>1 DEF EnumerateInstanceNames
  <1>2. CASE SweepDone(p)
    BY <1>2 DEF SweepDone
  <1>3. CASE SweepContainers(p)
    BY <1>3 DEF SweepContainers
  <1>4. CASE SweepNetworks(p)
    BY <1>4 DEF SweepNetworks
  <1>5. CASE SweepVolumes(p)
    BY <1>5 DEF SweepVolumes, Decide
  <1>6. CASE InspectRunner(p)
    BY <1>6 DEF InspectRunner, Decide
  <1>7. ASSUME NEW from, NEW next, NEW kinds, ResolveStep(p, from, next, kinds)
        PROVE  Local(p)
    BY <1>7 DEF ResolveStep
  <1> QED
    BY <1>1, <1>2, <1>3, <1>4, <1>5, <1>6, <1>7
       DEF SweepStep, DeleteStep, ResolveContainers, ResolveNetworks, ResolveVolumes

\* A step of a teardown.
LEMMA TeardownIsLocal ==
  ASSUME TypeOK, NEW p \in Proc, TeardownStep(p)
  PROVE  Local(p)
  <1> USE ReturnIsLocal DEF Local, Goto, Hold, TypeOK, ProcTypeOK
  <1>1. CASE CaptureGeneration(p)
    BY <1>1 DEF CaptureGeneration
  <1>2. ASSUME NEW from, NEW to, NEW kinds, ListPhase(p, from, to, kinds)
        PROVE  Local(p)
    BY <1>2 DEF ListPhase
  <1>3. CASE CheckLeftover(p)
    BY <1>3 DEF CheckLeftover
  <1>4. CASE StopContainer(p)
    BY <1>4 DEF StopContainer
  <1>5. ASSUME NEW r, RemoveResource(p, r), \A q \in Proc \ {p} : pc'[q] = pc[q]
        PROVE  Local(p)
    BY <1>5 DEF RemoveResource
  <1>6. CASE RemoveContainer(p)
    BY <1>5, <1>6 DEF RemoveContainer
  <1>7. CASE RemoveVolumeOrNetwork(p)
    BY <1>5, <1>7 DEF RemoveVolumeOrNetwork
  <1>8. CASE TeardownDone(p)
    BY <1>8 DEF TeardownDone
  <1> QED
    BY <1>1, <1>2, <1>3, <1>4, <1>6, <1>7, <1>8
       DEF TeardownStep, ListContainers, ListVolumes, ListNetworks

\* A step of a create after its sweep.
LEMMA CreateIsLocal ==
  ASSUME TypeOK, NEW p \in Proc, CreateStep(p)
  PROVE  Local(p)
  <1> USE ReturnIsLocal DEF Local, Goto, Hold, Guarded, TypeOK, ProcTypeOK
  <1>1. CASE CreateClaimNetwork(p)
    BY <1>1 DEF CreateClaimNetwork
  <1>2. CASE ClassifyConflict(p) \/ RemoveOwnNetwork(p)
    BY <1>2 DEF ClassifyConflict, RemoveOwnNetwork
  <1>3. CASE CreateVolume(p) \/ Prepare(p) \/ DropRejectedRunner(p)
    BY <1>3 DEF CreateVolume, Prepare, DropRejectedRunner
  <1>4. CASE CreateRunner(p) \/ CreateDind(p)
    BY <1>4 DEF CreateRunner, CreateDind
  <1>5. CASE StartRunner(p) \/ StartDind(p)
    BY <1>5 DEF StartRunner, StartDind
  <1>6. CASE DeliverCredentials(p) \/ VerifyRunner(p) \/ VerifyDind(p) \/ CreateFails(p)
    BY <1>6 DEF DeliverCredentials, VerifyRunner, VerifyDind, CreateFails
  <1> QED
    BY <1>1, <1>2, <1>3, <1>4, <1>5, <1>6 DEF CreateStep

\* Every step of a process is its own.
LEMMA StepIsLocal ==
  ASSUME TypeOK, NEW p \in Proc, GarmCalls(p) \/ ProcStep(p) \/ Killed(p)
  PROVE  Local(p)
  <1>1. CASE GarmCalls(p)
    BY <1>1 DEF GarmCalls, CreateInstance, DeleteInstance, ListInstances, RemoveAllInstances,
                StartCall, Goto, Local, TypeOK, ProcTypeOK
  <1>2. CASE Killed(p)
    BY <1>2, ReturnIsLocal DEF Killed
  <1> QED
    BY <1>1, <1>2, SweepIsLocal, TeardownIsLocal, CreateIsLocal DEF ProcStep

\* What a step adds is of the generation its process holds, and a nonce that is taken up
\* was never drawn before.
AddsOwn(p) ==
    /\ used \subseteq used'
    /\ gen'[p] \in {gen[p], None} \cup (Gen \ used)
    /\ \A r \in live' \ live : r[1] = gen'[p]

\* Only creates add or draw.
LEMMA StepAddsOwn ==
  ASSUME TypeOK, OwnershipInv, NEW p \in Proc, GarmCalls(p) \/ ProcStep(p) \/ Killed(p)
  PROVE  AddsOwn(p)
  <1> USE DEF TypeOK, ProcTypeOK
  <1>1. CASE GarmCalls(p) \/ Killed(p)
    BY <1>1 DEF GarmCalls, CreateInstance, DeleteInstance, ListInstances, RemoveAllInstances,
                StartCall, Killed, Return, AddsOwn
  <1>2. CASE SweepStep(p) \/ DeleteStep(p)
    <2>1. live' = live
      BY <1>2 DEF SweepStep, EnumerateInstanceNames, SweepContainers, SweepNetworks,
                  SweepVolumes, InspectRunner, SweepDone, DeleteStep, ResolveContainers,
                  ResolveNetworks, ResolveVolumes, ResolveStep
    <2>2. used' = used /\ gen'[p] \in {gen[p], None}
      BY <1>2 DEF SweepStep, EnumerateInstanceNames, SweepContainers, SweepNetworks,
                  SweepVolumes, InspectRunner, SweepDone, DeleteStep, ResolveContainers,
                  ResolveNetworks, ResolveVolumes, ResolveStep, AfterSweep, Decide, NextName,
                  Return
    <2> QED
      BY <2>1, <2>2 DEF AddsOwn
  <1>3. CASE TeardownStep(p)
    <2>1. live' \subseteq live
      BY <1>3 DEF TeardownStep, CaptureGeneration, ListContainers, ListVolumes, ListNetworks,
                  ListPhase, CheckLeftover, StopContainer, ContainerExited, RemoveContainer,
                  RemoveVolumeOrNetwork, RemoveResource, Removed, TeardownDone
    <2>2. used' = used /\ gen'[p] \in {gen[p], None}
      BY <1>3 DEF TeardownStep, CaptureGeneration, ListContainers, ListVolumes, ListNetworks,
                  ListPhase, CheckLeftover, StopContainer, RemoveContainer,
                  RemoveVolumeOrNetwork, RemoveResource, TeardownDone, TeardownReturns,
                  NextName, Return
    <2> QED
      BY <2>1, <2>2 DEF AddsOwn
  <1>4. CASE CreateStep(p)
    <2>1. CASE CreateClaimNetwork(p)
      BY <2>1 DEF CreateClaimNetwork, NetworkCreated, Claim, AddsOwn
    <2>2. CASE ClassifyConflict(p) \/ RemoveOwnNetwork(p)
      BY <2>2 DEF ClassifyConflict, RemoveOwnNetwork, Removed, Return, AddsOwn
    <2>3. CASE CreateVolume(p) \/ Prepare(p) \/ DropRejectedRunner(p)
      BY <2>3 DEF CreateVolume, VolumeCreated, Prepare, DropRejectedRunner, Removed, AddsOwn
    <2>4. CASE CreateRunner(p) \/ CreateDind(p)
      <3>1. pc[p] = "runner" => hand[p][1] = gen[p]
        BY DEF OwnershipInv, InPhase, HoldsRunner
      <3> QED
        BY <2>4, <3>1 DEF CreateRunner, CreateDind, ContainerCreated, Guarded, AddsOwn
    <2>5. CASE StartRunner(p) \/ StartDind(p)
      BY <2>5 DEF StartRunner, StartDind, ContainerStarted, Guarded, AddsOwn
    <2>6. CASE DeliverCredentials(p) \/ VerifyRunner(p) \/ VerifyDind(p) \/ CreateFails(p)
      BY <2>6 DEF DeliverCredentials, VerifyRunner, VerifyDind, CreateFails, Guarded, Return,
                  AddsOwn
    <2> QED
      BY <1>4, <2>1, <2>2, <2>3, <2>4, <2>5, <2>6 DEF CreateStep
  <1> QED
    BY <1>1, <1>2, <1>3, <1>4 DEF ProcStep

-----------------------------------------------------------------------------
(* The other processes. *)

\* A step leaves alone what a teardown of another process has settled: it adds nothing to
\* that generation, and whatever it removes was still on the list.
LEMMA OthersSettled ==
  ASSUME TypeOK, OwnershipInv, SettledInv, NEW p \in Proc, Local(p), AddsOwn(p)
  PROVE  OneHolder' /\ \A q \in Proc \ {p} : Holds(q)' /\ Settled(q)'
  <1>1. \A q \in Proc : gen[q] # None => gen[q] \in used
    BY DEF OwnershipInv, NoncesDrawn
  <1>2. OneHolder'
    BY <1>1 DEF SettledInv, OneHolder, Local, AddsOwn
  <1>3. ASSUME NEW q \in Proc \ {p}
        PROVE  Holds(q)' /\ Settled(q)'
    <2>1. Holds(q) /\ Settled(q)
      BY DEF SettledInv
    <2>2. Holds(q)'
      BY <2>1 DEF Holds, Local, AddsOwn
    <2>3. Subject(q)' = Subject(q) /\ (Keyed(q)' <=> Keyed(q))
      BY DEF Subject, Keyed, Local
    <2>4. ASSUME Keyed(q)
          PROVE  Settled(q)'
      <3>1. Subject(q) \in used
        BY <1>1, <2>1, <2>4 DEF Keyed, Subject, Holds
      <3>2. gen'[p] # Subject(q)
        BY <2>1, <2>4, <3>1 DEF Settled, Keyed, AddsOwn
      <3>3. \A s \in Proc \ {q} : gen'[s] # Subject(q)
        BY <2>1, <2>4, <3>2 DEF Settled, Local
      <3>4. \A rs : {r \in live' \cap rs : r[1] = Subject(q)} \subseteq Left(Subject(q), rs)
        BY <3>2 DEF AddsOwn, Left
      <3>5. Aimed(q)' /\ OneKind(q)'
        BY <2>1, <2>3, <2>4 DEF Settled, Aimed, OneKind, Local
      <3>6. ~err'[q] => Scheduled(q)'
        <4>1. ~err'[q] => Scheduled(q)
          BY <2>1, <2>4 DEF Settled, Local
        <4>2. \A rs : Left(Subject(q), rs)' \subseteq Left(Subject(q), rs)
          BY <2>3, <3>4 DEF Left
        <4> QED
          BY <2>3, <3>4, <4>1 DEF Scheduled, Left, Local
      <3> QED
        BY <2>3, <3>3, <3>5, <3>6 DEF Settled
    <2> QED
      BY <2>2, <2>3, <2>4 DEF Settled
  <1> QED
    BY <1>2, <1>3

-----------------------------------------------------------------------------
(* The process itself. *)

\* Outside teardowns, and in those of RemoveAllInstances, no generation is meant.
LEMMA Unkeyed ==
  ASSUME NEW p \in Proc,
         \/ pc'[p] \notin TeardownPC \ {"capture"}
         \/ mode'[p] = "all" /\ captured'[p] = None
  PROVE  Settled(p)'
  BY DEF Settled, Keyed, Subject

\* A process that is not in its create holds no nonce.
LEMMA NoNonce ==
  ASSUME OwnershipInv, SettledInv, NEW p \in Proc,
         pc[p] \in {"idle", "claim", "capture"} \cup SweepPC \cup DeletePC
  PROVE  /\ gen[p] = None /\ captured[p] = None
         /\ pc[p] # "capture" => mode[p] = None
  BY AllocationAssumption
     DEF OwnershipInv, InPhase, SettledInv, Holds, SweepPC, DeletePC, CreatePC, TeardownPC, Mode

\* The end of a call.
LEMMA ReturnSettles ==
  ASSUME TypeOK, NEW p \in Proc, Return(p)
  PROVE  Holds(p)' /\ Settled(p)'
  <1>1. pc'[p] = "idle" /\ gen'[p] = None /\ captured'[p] = None /\ mode'[p] = None
    BY DEF Return, Goto, TypeOK, ProcTypeOK
  <1> QED
    BY <1>1, Unkeyed, AllocationAssumption DEF Holds, TeardownPC, Mode

\* A step outside teardowns that takes no nonce.
LEMMA WaitingSettles ==
  ASSUME NEW p \in Proc, gen'[p] = None, captured'[p] = None,
         \/ pc'[p] \notin TeardownPC \ {"capture"}
         \/ mode'[p] = "all"
  PROVE  Holds(p)' /\ Settled(p)'
  BY Unkeyed DEF Holds

\* A GARM call that starts, a sweep, and a delete before its teardown.
LEMMA CallSettles ==
  ASSUME TypeOK, OwnershipInv, SettledInv, NEW p \in Proc,
         GarmCalls(p) \/ SweepStep(p) \/ DeleteStep(p)
  PROVE  Holds(p)' /\ Settled(p)'
  <1>1. CASE Return(p)
    BY <1>1, ReturnSettles
  <1>2. CASE ~Return(p)
    <2>1. pc[p] \in {"idle"} \cup SweepPC \cup DeletePC
      BY DEF GarmCalls, CreateInstance, DeleteInstance, ListInstances, RemoveAllInstances,
             StartCall, SweepStep, EnumerateInstanceNames, SweepContainers, SweepNetworks,
             SweepVolumes, InspectRunner, SweepDone, DeleteStep, ResolveContainers,
             ResolveNetworks, ResolveVolumes, ResolveStep, SweepPC, DeletePC
    <2>2. gen' = gen /\ captured' = captured
      BY <1>2 DEF GarmCalls, CreateInstance, DeleteInstance, ListInstances, RemoveAllInstances,
             StartCall, SweepStep, EnumerateInstanceNames, SweepContainers, SweepNetworks,
             SweepVolumes, InspectRunner, SweepDone, DeleteStep, ResolveContainers,
             ResolveNetworks, ResolveVolumes, ResolveStep, AfterSweep
    <2>3. CASE GarmCalls(p)
      <3>1. pc'[p] \in {"enumerate", "resolve"} \/ mode'[p] = "all"
        BY <2>3 DEF GarmCalls, CreateInstance, DeleteInstance, ListInstances,
                    RemoveAllInstances, StartCall, Goto, TypeOK, ProcTypeOK
      <3> QED
        BY <2>1, <2>2, <3>1, NoNonce, WaitingSettles DEF TeardownPC
    <2>4. CASE SweepStep(p)
      <3>1. pc'[p] \in SweepPC \cup {"claim", "capture"}
        BY <1>2, <2>4
           DEF SweepStep, EnumerateInstanceNames, SweepContainers, SweepNetworks, SweepVolumes,
               InspectRunner, SweepDone, AfterSweep, Decide, NextName, Goto, SweepPC, TypeOK,
               ProcTypeOK
      <3> QED
        BY <2>1, <2>2, <3>1, NoNonce, WaitingSettles DEF TeardownPC, SweepPC
    <2>5. CASE DeleteStep(p)
      <3>1. pc'[p] \in DeletePC \cup {"capture"}
        BY <1>2, <2>5
           DEF DeleteStep, ResolveContainers, ResolveNetworks, ResolveVolumes, ResolveStep,
               Goto, DeletePC, TypeOK, ProcTypeOK
      <3> QED
        BY <2>1, <2>2, <3>1, NoNonce, WaitingSettles DEF TeardownPC, DeletePC
    <2> QED
      BY <2>3, <2>4, <2>5
  <1> QED
    BY <1>1, <1>2

\* The guard keys the rollback to the nonce of the attempt.
LEMMA GuardSettles ==
  ASSUME TypeOK, OwnershipInv, SettledInv, NEW p \in Proc, Guarded(p), gen[p] # None
  PROVE  Holds(p)' /\ Settled(p)'
  <1>1. /\ pc'[p] = "teardown" /\ mode'[p] = "exact" /\ cur'[p] = target[p]
        /\ UNCHANGED <<gen, target, captured, used>>
    BY DEF Guarded, Goto, TypeOK, ProcTypeOK
  <1>2. /\ InstanceName[gen[p]] = target[p] /\ ControllerID[gen[p]] = ControllerOf[p]
        /\ captured[p] # None => captured[p] \in used
    BY DEF SettledInv, Holds, OwnershipInv, NoncesDrawn
  <1>3. \A q \in Proc \ {p} : gen[q] # gen[p]
    BY DEF SettledInv, OneHolder
  <1>4. Holds(p)'
    BY <1>1, <1>2 DEF Holds
  <1>5. Settled(p)'
    BY <1>1, <1>2, <1>3 DEF Settled, Subject, Aimed, OneKind, Scheduled
  <1> QED
    BY <1>4, <1>5

\* A step of a create after its sweep.
LEMMA CreateSettles ==
  ASSUME TypeOK, OwnershipInv, SettledInv, NEW p \in Proc, CreateStep(p)
  PROVE  Holds(p)' /\ Settled(p)'
  <1>1. CASE Return(p)
    BY <1>1, ReturnSettles
  <1>2. CASE Guarded(p)
    <2>1. pc[p] \in CreatePC \ {"claim"}
      BY <1>2 DEF CreateStep, CreateClaimNetwork, ClassifyConflict, RemoveOwnNetwork,
                  CreateVolume, Prepare, CreateRunner, StartRunner, DropRejectedRunner,
                  CreateDind, StartDind, DeliverCredentials, VerifyRunner, VerifyDind,
                  CreateFails, GuardedPC, VolumeKind, HoldsRunner, CreatePC, Guarded, Goto,
                  TypeOK, ProcTypeOK
    <2> QED
      BY <1>2, <2>1, GuardSettles DEF OwnershipInv, InPhase
  <1>3. CASE CreateClaimNetwork(p)
    <2>1. PICK g \in Gen \ used :
            /\ InstanceName[g] = target[p]
            /\ gen'[p] = g
            /\ pc'[p] \in {"workspace", "unclaim", "classify"}
            /\ UNCHANGED <<target, mode, captured>>
      BY <1>3 DEF CreateClaimNetwork, Goto, TypeOK, ProcTypeOK
    <2>2. captured[p] = None /\ mode[p] = None
      BY <1>3, NoNonce DEF CreateClaimNetwork
    <2> QED
      BY <2>1, <2>2, Unkeyed DEF Holds, CreatePC, TeardownPC
  <1>4. CASE ~Return(p) /\ ~Guarded(p) /\ ~CreateClaimNetwork(p)
    <2>1. /\ pc[p] \in CreatePC \ {"claim"} /\ pc'[p] \in CreatePC \ {"claim"}
          /\ UNCHANGED <<gen, target, mode, captured, used>>
      <3>1. CASE CreateVolume(p) \/ Prepare(p) \/ DropRejectedRunner(p)
        BY <3>1 DEF CreateVolume, AfterVolume, Prepare, DropRejectedRunner, VolumeKind, CreatePC,
                    Goto, TypeOK, ProcTypeOK
      <3>2. CASE CreateRunner(p) \/ CreateDind(p) \/ StartRunner(p) \/ StartDind(p)
        BY <1>4, <3>2 DEF CreateRunner, CreateDind, StartRunner, StartDind, CreatePC,
                          Goto, TypeOK, ProcTypeOK
      <3>3. CASE DeliverCredentials(p) \/ VerifyRunner(p) \/ VerifyDind(p) \/ CreateFails(p)
        BY <1>4, <3>3 DEF DeliverCredentials, VerifyRunner, VerifyDind, CreateFails, CreatePC,
                          Goto, TypeOK, ProcTypeOK
      <3> QED
        BY <1>4, <3>1, <3>2, <3>3 DEF CreateStep, ClassifyConflict, RemoveOwnNetwork
    <2>2. pc'[p] \notin TeardownPC
      BY <2>1 DEF CreatePC, TeardownPC
    <2>3. Holds(p)'
      BY <2>1 DEF SettledInv, Holds
    <2> QED
      BY <2>2, <2>3, Unkeyed
  <1> QED
    BY <1>1, <1>2, <1>3, <1>4

\* A list that did not fail has all that is left of the generation of that kind.
LEMMA ListedAll ==
  ASSUME TypeOK, SettledInv, NEW p \in Proc, Keyed(p), NEW rs, NEW r \in Left(Subject(p), rs)
  PROVE  r \in Matching(p) \cap rs /\ MayRemove(p, r)
  <1>1. r \in live \cap rs /\ r[1] = Subject(p) /\ Subject(p) # None
    BY DEF Keyed, Left
  <1>2. Aimed(p) /\ (mode[p] = "all" => captured[p] = None)
    BY DEF SettledInv, Settled, Holds
  <1>3. MatchesPredicate(r, ControllerOf[p]) /\ InstanceName[r[1]] = cur[p]
    BY <1>1, <1>2 DEF Aimed, MatchesPredicate
  <1>4. r \in InstanceScoped(cur[p], ControllerOf[p])
    BY <1>1, <1>3 DEF InstanceScoped
  <1> QED
    BY <1>1, <1>3, <1>4 DEF Matching, MayRemove, Subject

\* Everything a teardown holds on to while it goes through a phase.
Unmoved(p) ==
    UNCHANGED <<gen[p], mode[p], captured[p], settled[p], cur[p], target[p], used>>

\* A phase that goes on, or the next one, with the generation as it was.
LEMMA StillSettled ==
  ASSUME SettledInv, NEW p \in Proc, Local(p), Unmoved(p),
         pc[p] \in TeardownPC \ {"capture"}, pc'[p] \in TeardownPC \ {"capture"},
         Keyed(p) => OneKind(p)' /\ (~err'[p] => Scheduled(p)')
  PROVE  Holds(p)' /\ Settled(p)'
  <1>1. Holds(p) /\ Settled(p)
    BY DEF SettledInv
  <1>2. Holds(p)'
    BY <1>1 DEF Holds, Unmoved, CreatePC, TeardownPC
  <1>3. Subject(p)' = Subject(p) /\ (Keyed(p)' <=> Keyed(p))
    BY DEF Subject, Keyed, Unmoved
  <1>4. Keyed(p) => Aimed(p)' /\ \A q \in Proc \ {p} : gen'[q] # Subject(p)
    BY <1>1, <1>3 DEF Settled, Aimed, Local, Unmoved
  <1> QED
    BY <1>2, <1>3, <1>4 DEF Settled

\* The three lists.
LEMMA ListSettles ==
  ASSUME TypeOK, SettledInv, NEW p \in Proc,
         ListContainers(p) \/ ListVolumes(p) \/ ListNetworks(p)
  PROVE  Holds(p)' /\ Settled(p)'
  <1>1. ASSUME NEW from \in TeardownPC \ {"capture"},
               NEW to \in {"containers", "volumes", "networks"},
               NEW rs, ListPhase(p, from, to, rs), Keyed(p)
        PROVE  /\ todo'[p] \subseteq rs
               /\ ~err'[p] => ~err[p] /\ Left(Subject(p), rs) \subseteq todo'[p]
    <2> DEFINE listed == {r \in Matching(p) \cap rs : ReadsLiveClaim(p) \/ MayRemove(p, r)}
    <2>1. todo[p] = {}
      BY <1>1 DEF ListPhase
    <2>2. \/ todo'[p] = listed /\ err'[p] = err[p]
          \/ todo'[p] = todo[p] /\ err'[p]
      BY <1>1 DEF ListPhase, TypeOK, ProcTypeOK
    <2>3. Left(Subject(p), rs) \subseteq listed
      BY <1>1, ListedAll
    <2> QED
      BY <2>1, <2>2, <2>3
  <1>2. /\ Local(p) /\ Unmoved(p) /\ live' = live /\ todo[p] = {}
        /\ pc[p] \in {"teardown", "containers", "volumes"}
        /\ pc'[p] \in {"containers", "volumes", "networks"}
    BY TeardownIsLocal
       DEF TeardownStep, ListContainers, ListVolumes, ListNetworks, ListPhase, Goto, Unmoved,
           TypeOK, ProcTypeOK
  <1>3. \A rs : Left(Subject(p), rs)' = Left(Subject(p), rs)
    BY <1>2 DEF Left, Subject, Unmoved
  <1>4. Keyed(p) /\ ~err[p] => Scheduled(p)
    BY DEF SettledInv, Settled
  <1>5. Keyed(p) => OneKind(p)' /\ (~err'[p] => Scheduled(p)')
    <2> SUFFICES ASSUME Keyed(p)
                 PROVE  OneKind(p)' /\ (~err'[p] => Scheduled(p)')
      OBVIOUS
    <2>1. CASE ListContainers(p)
      <3>1. pc'[p] = "containers"
        BY <2>1 DEF ListContainers, ListPhase, Goto, TypeOK, ProcTypeOK
      <3>2. /\ todo'[p] \subseteq Containers
            /\ ~err'[p] => Left(Subject(p), Containers) \subseteq todo'[p]
        BY <1>1, <2>1 DEF ListContainers, TeardownPC
      <3> QED
        BY <1>3, <3>1, <3>2 DEF OneKind, Scheduled
    <2>2. CASE ListVolumes(p)
      <3>1. pc[p] = "containers" /\ pc'[p] = "volumes"
        BY <2>2 DEF ListVolumes, ListPhase, Goto, TypeOK, ProcTypeOK
      <3>2. /\ todo'[p] \subseteq Volumes
            /\ ~err'[p] => ~err[p] /\ Left(Subject(p), Volumes) \subseteq todo'[p]
        BY <1>1, <2>2 DEF ListVolumes, TeardownPC
      <3>3. ~err'[p] => Left(Subject(p), Containers) = {}
        BY <1>2, <1>4, <3>1, <3>2 DEF Scheduled
      <3> QED
        BY <1>3, <3>1, <3>2, <3>3 DEF OneKind, Scheduled
    <2>3. CASE ListNetworks(p)
      <3>1. pc[p] = "volumes" /\ pc'[p] = "networks"
        BY <2>3 DEF ListNetworks, ListPhase, Goto, TypeOK, ProcTypeOK
      <3>2. /\ todo'[p] \subseteq Networks
            /\ ~err'[p] => ~err[p] /\ Left(Subject(p), Networks) \subseteq todo'[p]
        BY <1>1, <2>3 DEF ListNetworks, TeardownPC
      <3>3. ~err'[p] => Left(Subject(p), Containers) = {} /\ Left(Subject(p), Volumes) = {}
        BY <1>2, <1>4, <3>1, <3>2 DEF Scheduled
      <3> QED
        BY <1>3, <3>1, <3>2, <3>3 DEF OneKind, Scheduled
    <2> QED
      BY <2>1, <2>2, <2>3
  <1> QED
    BY <1>2, <1>5, StillSettled DEF TeardownPC

\* The capture: whoever still held the nonce would have kept the teardown from being
\* settled.
LEMMA CaptureSettles ==
  ASSUME TypeOK, OwnershipInv, SettledInv, NEW p \in Proc, CaptureGeneration(p),
         ~TeardownReturns(p)
  PROVE  Holds(p)' /\ Settled(p)'
  <1> DEFINE g == ClaimHolder(cur[p], ControllerOf[p])
             gs == {h \in Gen : Claim(h) \in InstanceScoped(cur[p], ControllerOf[p])}
  <1>1. /\ pc[p] = "capture" /\ pc'[p] = "teardown" /\ captured'[p] = g
        /\ settled'[p] = (g # None /\ ~Creating(g))
        /\ UNCHANGED <<gen, target, cur, mode, used>>
    BY DEF CaptureGeneration, Goto, TypeOK, ProcTypeOK
  <1>2. gen[p] = None /\ mode[p] = "generation"
    BY <1>1, NoNonce DEF OwnershipInv, InPhase
  <1>3. ASSUME g # None
        PROVE  g \in used /\ InstanceName[g] = cur[p] /\ ControllerID[g] = ControllerOf[p]
    <2>1. g \in gs
      <3>1. gs # {} /\ g = CHOOSE h \in gs : TRUE
        BY <1>3 DEF ClaimHolder
      <3> QED
        BY <3>1
    <2> QED
      BY <2>1 DEF InstanceScoped, MatchesPredicate, Claim, OwnershipInv, NoncesDrawn
  <1> HIDE DEF g
  <1>4. Holds(p)'
    BY <1>1, <1>2, <1>3 DEF Holds
  <1>5. Settled(p)'
    BY <1>1, <1>2, <1>3
       DEF Settled, Keyed, Subject, Aimed, OneKind, Scheduled, Creating
  <1> QED
    BY <1>4, <1>5

\* The graceful stop takes a container off the list and in hand.
LEMMA StopSettles ==
  ASSUME TypeOK, SettledInv, NEW p \in Proc, StopContainer(p)
  PROVE  Holds(p)' /\ Settled(p)'
  <1>1. PICK r \in Ready(p) : hand'[p] = r /\ todo'[p] = todo[p] \ {r}
    BY DEF StopContainer, Hold, TypeOK, ProcTypeOK
  <1>2. /\ Local(p) /\ Unmoved(p) /\ live' = live /\ err' = err
        /\ pc[p] = "containers" /\ pc'[p] = "remove"
    BY TeardownIsLocal
       DEF TeardownStep, StopContainer, ContainerExited, Goto, Unmoved, TypeOK, ProcTypeOK
  <1>3. \A rs : Left(Subject(p), rs)' = Left(Subject(p), rs)
    BY <1>2 DEF Left, Subject, Unmoved
  <1>4. Keyed(p) => OneKind(p)' /\ (~err'[p] => Scheduled(p)')
    <2> SUFFICES ASSUME Keyed(p)
                 PROVE  OneKind(p)' /\ (~err'[p] => Scheduled(p)')
      OBVIOUS
    <2>1. OneKind(p) /\ (~err[p] => Scheduled(p))
      BY DEF SettledInv, Settled
    <2>2. r \in todo[p]
      BY DEF Ready, First, ReadsLiveClaim, Keyed, Subject
    <2>3. OneKind(p)'
      BY <1>1, <1>2, <2>1, <2>2 DEF OneKind
    <2>4. ~err'[p] => Scheduled(p)'
      BY <1>1, <1>2, <1>3, <2>1, <2>2 DEF Scheduled
    <2> QED
      BY <2>3, <2>4
  <1> QED
    BY <1>2, <1>4, StillSettled DEF TeardownPC

\* A removal that was refused or failed is an error; any other leaves the list shorter by
\* what it removed.
LEMMA RemoveSettles ==
  ASSUME TypeOK, SettledInv, NEW p \in Proc,
         RemoveContainer(p) \/ RemoveVolumeOrNetwork(p)
  PROVE  Holds(p)' /\ Settled(p)'
  <1>1. PICK r : /\ RemoveResource(p, r)
                 /\ \/ RemoveContainer(p) /\ r = hand[p]
                    \/ RemoveVolumeOrNetwork(p) /\ r \in Ready(p)
    BY DEF RemoveContainer, RemoveVolumeOrNetwork
  <1>2. /\ Local(p) /\ Unmoved(p)
        /\ pc[p] \in {"remove", "volumes", "networks"}
        /\ pc'[p] = IF pc[p] = "remove" THEN "containers" ELSE pc[p]
    BY <1>1, TeardownIsLocal
       DEF TeardownStep, RemoveContainer, RemoveVolumeOrNetwork, RemoveResource, Goto, Unmoved,
           TypeOK, ProcTypeOK
  <1>3. /\ todo'[p] = todo[p] \ {r}
        /\ err'[p] \/ (live' = live \ {r} /\ err'[p] = err[p])
    BY <1>1 DEF RemoveResource, Removed, TypeOK, ProcTypeOK
  <1>4. Subject(p)' = Subject(p)
    BY <1>2 DEF Subject, Unmoved
  <1>5. Keyed(p) => OneKind(p)' /\ (~err'[p] => Scheduled(p)')
    <2> SUFFICES ASSUME Keyed(p)
                 PROVE  OneKind(p)' /\ (~err'[p] => Scheduled(p)')
      OBVIOUS
    <2>1. OneKind(p) /\ (~err[p] => Scheduled(p))
      BY DEF SettledInv, Settled
    <2>2. OneKind(p)'
      BY <1>2, <1>3, <2>1 DEF OneKind
    <2>3. ASSUME ~err'[p]
          PROVE  Scheduled(p)'
      <3>1. \A rs : Left(Subject(p), rs)' = Left(Subject(p), rs) \ {r}
        BY <1>3, <1>4, <2>3 DEF Left
      <3>2. Scheduled(p)
        BY <1>3, <2>1, <2>3
      <3>3. pc[p] = "remove" => r = hand[p]
        BY <1>1 DEF RemoveVolumeOrNetwork
      <3> QED
        BY <1>2, <1>3, <1>4, <3>1, <3>2, <3>3 DEF Scheduled
    <2> QED
      BY <2>2, <2>3
  <1> QED
    BY <1>2, <1>5, StillSettled DEF TeardownPC

\* A step of a teardown.
LEMMA TeardownSettles ==
  ASSUME TypeOK, OwnershipInv, SettledInv, NEW p \in Proc, TeardownStep(p)
  PROVE  Holds(p)' /\ Settled(p)'
  <1>1. CASE TeardownReturns(p) /\ (CaptureGeneration(p) \/ TeardownDone(p))
    <2>1. CASE Return(p)
      BY <2>1, ReturnSettles
    <2>2. CASE ~Return(p)
      <3>1. /\ pc'[p] = "sweep" /\ captured'[p] = None /\ gen' = gen
            /\ mode[p] = "generation" /\ pc[p] \in TeardownPC
        BY <1>1, <2>2 DEF TeardownReturns, NextName, CaptureGeneration, TeardownDone, Goto,
                          TeardownPC, TypeOK, ProcTypeOK
      <3>2. gen[p] = None
        BY <3>1 DEF SettledInv, Holds, CreatePC, TeardownPC
      <3> QED
        BY <3>1, <3>2, WaitingSettles DEF TeardownPC
    <2> QED
      BY <2>1, <2>2
  <1>2. CASE CaptureGeneration(p) /\ ~TeardownReturns(p)
    BY <1>2, CaptureSettles
  <1>3. CASE CheckLeftover(p)
    <2>1. /\ Local(p) /\ Unmoved(p) /\ pc' = pc
          /\ pc[p] \in {"containers", "volumes", "networks"}
      BY <1>3, TeardownIsLocal DEF CheckLeftover, Unmoved
    <2>2. ~Keyed(p)
      BY <1>3 DEF CheckLeftover, ReadsLiveClaim, Keyed, Subject
    <2> QED
      BY <2>1, <2>2, StillSettled DEF TeardownPC
  <1> QED
    BY <1>1, <1>2, <1>3, ListSettles, StopSettles, RemoveSettles DEF TeardownStep, TeardownDone

\* Every step keeps the invariant.
LEMMA NextSettled ==
  ASSUME TypeOK, OwnershipInv, SettledInv, [Next]_vars
  PROVE  SettledInv'
  <1>1. CASE Host \/ UNCHANGED vars
    <2>1. UNCHANGED <<live, procVars, used, gen>>
      BY <1>1 DEF Host, ContainerExits, ContainerExited, Tick
    <2> QED
      BY <2>1 DEF SettledInv, OneHolder, Holds, Settled, Keyed, Subject, Aimed, OneKind,
                  Scheduled, Left
  <1>2. ASSUME NEW p \in Proc, GarmCalls(p) \/ ProcStep(p) \/ Killed(p)
        PROVE  SettledInv'
    <2>1. OneHolder' /\ \A q \in Proc \ {p} : Holds(q)' /\ Settled(q)'
      BY <1>2, StepIsLocal, StepAddsOwn, OthersSettled
    <2>2. Holds(p)' /\ Settled(p)'
      <3>1. CASE Killed(p)
        BY <3>1, ReturnSettles DEF Killed
      <3> QED
        BY <1>2, <3>1, CallSettles, TeardownSettles, CreateSettles DEF ProcStep
    <2> QED
      BY <2>1, <2>2 DEF SettledInv
  <1> QED
    BY <1>1, <1>2 DEF Next

-----------------------------------------------------------------------------
(* The theorems. *)

\* Whatever is left of a generation that is being torn down is still to be removed, and
\* nothing of it comes back (runTeardown).
THEOREM SettledHolds == Spec => []SettledInv
  <1>1. Init => SettledInv
    BY AllocationAssumption
       DEF Init, SettledInv, OneHolder, Holds, Settled, Keyed, TeardownPC, Mode
  <1>2. TypeOK /\ OwnershipInv /\ SettledInv /\ [Next]_vars => SettledInv'
    BY NextSettled
  <1> QED
    BY <1>1, <1>2, TypeCorrect, OwnershipHolds, PTL DEF Spec

\* A teardown without errors that was settled leaves nothing of its generation, whatever
\* overlapping teardowns, kills and creates do (runTeardown, teardownScope).
THEOREM NothingLeft == Spec => TeardownLeavesNothing
  <1>1. ASSUME TypeOK, OwnershipInv, SettledInv, NEW p \in Proc,
               pc[p] = "networks", todo[p] = {}, settled[p], ~err[p], NEW r \in live
        PROVE  r[1] # Subject(p)
    <2> SUFFICES ASSUME r[1] = Subject(p)
                 PROVE  FALSE
      OBVIOUS
    <2>1. r \in Containers \cup Volumes \cup Networks /\ r[1] \in Gen
      <3>1. r \in Resource
        BY <1>1 DEF TypeOK, DaemonTypeOK
      <3> QED
        BY <3>1 DEF Resource, Kind, Containers, Volumes, Networks
    <2>2. Keyed(p)
      BY <1>1, <2>1, AllocationAssumption DEF Keyed, TeardownPC
    <2>3. Scheduled(p)
      BY <1>1, <2>2 DEF SettledInv, Settled
    <2> QED
      BY <1>1, <2>1, <2>3 DEF Scheduled, Left
  <1>2. TypeOK /\ OwnershipInv /\ SettledInv /\ [Next]_vars =>
          [\A p \in Proc :
             /\ pc[p] = "networks" /\ todo[p] = {} /\ hand[p] = None /\ pc'[p] # pc[p]
             /\ settled[p] /\ ~err[p]
             => \A r \in live : r[1] # Subject(p)]_vars
    BY <1>1
  <1> QED
    BY <1>2, TypeCorrect, OwnershipHolds, SettledHolds, PTL DEF Spec, TeardownLeavesNothing

\* A settled teardown without errors takes the claim last: with it the generation is gone
\* (removeNetworks after removeVolumes after removeContainers).
THEOREM ClaimIsLast == Spec => ClaimGoesLast
  <1>1. ASSUME TypeOK, OwnershipInv, SettledInv, [Next]_vars, NEW p \in Proc,
               Acts(p), settled[p], ~err[p], Claim(Subject(p)) \in live \ live',
               NEW r \in live'
        PROVE  r[1] # Subject(p)
    <2> DEFINE claim == Claim(Subject(p))
    <2>1. Subject(p) \in Gen /\ Subject(p) # None /\ claim[1] = Subject(p)
      BY <1>1, AllocationAssumption DEF TypeOK, DaemonTypeOK, Resource, Claim
    <2>2. PICK q \in Proc : RemovalStep(q)
      BY <1>1, OnlyRemovalsRemove DEF Next, Host, ContainerExits, ContainerExited, Tick
    <2>3. p = q
      BY <1>1, <2>2, StepIsLocal
         DEF RemovalStep, ProcStep, TeardownStep, CreateStep, Local, Acts
    <2>4. InPhase(p)
      BY <1>1 DEF OwnershipInv
    <2>5. CASE RemoveOwnNetwork(p) \/ DropRejectedRunner(p)
      BY <2>1, <2>4, <2>5, AllocationAssumption
         DEF RemoveOwnNetwork, DropRejectedRunner, InPhase, TeardownPC, Subject, Mode
    <2>6. CASE RemoveContainer(p) \/ RemoveVolumeOrNetwork(p)
      <3>1. Keyed(p)
        BY <1>1, <2>1, <2>6
           DEF RemoveContainer, RemoveVolumeOrNetwork, Keyed, TeardownPC
      <3>2. OneKind(p) /\ Scheduled(p)
        BY <1>1, <3>1 DEF SettledInv, Settled
      <3>3. live' = live \ {claim}
        BY <1>1, <2>6 DEF RemoveContainer, RemoveVolumeOrNetwork, RemoveResource, Removed
      <3>4. claim \in Networks /\ claim \notin Containers /\ claim \notin Volumes
        BY <2>1 DEF Claim, Networks, Containers, Volumes, ContainerKind, RunnerKind, VolumeKind
      <3>5. pc[p] = "networks"
        <4>1. CASE RemoveContainer(p)
          <5>1. claim = hand[p] /\ pc[p] = "remove"
            BY <1>1, <4>1 DEF RemoveContainer, RemoveResource, Removed
          <5> QED
            BY <3>2, <3>4, <5>1 DEF OneKind
        <4>2. CASE RemoveVolumeOrNetwork(p)
          <5>1. claim \in Ready(p) /\ pc[p] \in {"volumes", "networks"}
            BY <1>1, <4>2 DEF RemoveVolumeOrNetwork, RemoveResource, Removed
          <5>2. claim \in todo[p]
            BY <3>1, <5>1 DEF Ready, First, ReadsLiveClaim, Keyed, Subject
          <5> QED
            BY <3>2, <3>4, <5>1, <5>2 DEF OneKind
        <4> QED
          BY <2>6, <4>1, <4>2
      <3>6. r \in live /\ r # claim
        BY <3>3
      <3>7. r \in Containers \cup Volumes \/ r = Claim(r[1])
        <4>1. r \in Resource
          BY <1>1, <3>6 DEF TypeOK, DaemonTypeOK
        <4>2. r[1] \in Gen /\ r[2] \in Kind /\ r = <<r[1], r[2]>>
          BY <4>1 DEF Resource
        <4> QED
          BY <4>2 DEF Kind, Containers, Volumes, Claim
      <3> QED
        BY <3>2, <3>5, <3>6, <3>7 DEF Scheduled, Left
    <2> QED
      BY <2>2, <2>3, <2>5, <2>6 DEF RemovalStep
  <1>2. TypeOK /\ OwnershipInv /\ SettledInv /\ [Next]_vars =>
          [\A p \in Proc :
             /\ Acts(p) /\ settled[p] /\ ~err[p]
             /\ Claim(Subject(p)) \in live \ live'
             => \A r \in live' : r[1] # Subject(p)]_vars
    BY <1>1
  <1> QED
    BY <1>2, TypeCorrect, OwnershipHolds, SettledHolds, PTL DEF Spec, ClaimGoesLast

-----------------------------------------------------------------------------
(* The claim is a lock. *)

\* The create of p has drawn its nonce and has not come to its guard.
Drawn(p) == pc[p] \in CreatePC \ {"claim"}

\* What one step does to resources, nonces and the creates at work: nothing or the end of
\* a create, one removal, one addition to a generation by the create that has it, or the
\* draw of a nonce, with its claim or without.
OneEffect ==
    \/ /\ live' = live /\ used' = used
       /\ openOf' = openOf \/ \E g \in Gen : Names!MayEnd(g)
    \/ \E r \in Resource :
         /\ live' = live \ {r} /\ used' = used
         /\ openOf' = openOf \/ (r[2] = "network" /\ Names!MayEnd(r[1]))
    \/ \E g \in openOf, k \in Kind \ {"network"} :
         live' = live \cup {<<g, k>>} /\ used' = used /\ Names!MayEnd(g)
    \/ \E g \in Gen \ used :
         /\ used' = used \cup {g} /\ openOf' = openOf \cup {g}
         /\ \/ live' = live
            \/ live' = live \cup {Claim(g)} /\ ~NetworkNameTaken(InstanceName[g])

\* A step opens or ends no create but its own.
LEMMA OwnCreateOpen ==
  ASSUME NEW p \in Proc, Local(p)
  PROVE  /\ ~Drawn(p) /\ ~Drawn(p)' => openOf' = openOf
         /\ Drawn(p) /\ Drawn(p)' /\ gen'[p] = gen[p] => openOf' = openOf
         /\ Drawn(p) /\ gen[p] \in Gen => gen[p] \in openOf
         /\ Drawn(p) /\ ~Drawn(p)' => Names!MayEnd(gen[p])
         /\ ~Drawn(p) /\ Drawn(p)' /\ gen'[p] \in Gen => openOf' = openOf \cup {gen'[p]}
  <1> DEFINE Other == {g \in Gen : \E q \in Proc \ {p} : gen[q] = g /\ Drawn(q)}
  <1>1. openOf = Other \cup {g \in Gen : gen[p] = g /\ Drawn(p)}
    BY DEF openOf, Drawn
  <1>2. openOf' = Other \cup {g \in Gen : gen'[p] = g /\ Drawn(p)'}
    BY DEF openOf, Drawn, Local
  <1> HIDE DEF Other
  <1> QED
    BY <1>1, <1>2 DEF Names!MayEnd

\* A create draws with its claim, goes on with the nonce it has, or ends.
LEMMA CreateOpens ==
  ASSUME TypeOK, OwnershipInv, NEW p \in Proc, CreateStep(p)
  PROVE  /\ ~CreateClaimNetwork(p) => Drawn(p) /\ gen[p] \in openOf /\ gen[p] \in Gen
                                      /\ Names!MayEnd(gen[p])
         /\ CreateClaimNetwork(p) => gen'[p] \in Gen /\ openOf' = openOf \cup {gen'[p]}
         /\ DropRejectedRunner(p) => openOf' = openOf
  <1> USE DEF TypeOK, ProcTypeOK, Goto, Drawn, CreatePC
  <1>1. Local(p)
    BY StepIsLocal DEF ProcStep
  <1>2. CASE CreateClaimNetwork(p)
    <2>1. ~Drawn(p) /\ Drawn(p)' /\ gen'[p] \in Gen
      BY <1>2 DEF CreateClaimNetwork
    <2>2. ~DropRejectedRunner(p)
      BY <1>2 DEF CreateClaimNetwork, DropRejectedRunner
    <2> QED
      BY <1>1, <1>2, <2>1, <2>2, OwnCreateOpen
  <1>3. CASE ~CreateClaimNetwork(p)
    <2>1. Drawn(p)
      BY <1>3 DEF CreateStep, ClassifyConflict, RemoveOwnNetwork, CreateVolume, VolumeKind, Prepare,
                  CreateRunner, StartRunner, DropRejectedRunner, CreateDind, StartDind,
                  DeliverCredentials, VerifyRunner, VerifyDind, CreateFails, GuardedPC, HoldsRunner
    <2>2. gen[p] \in Gen
      BY <2>1 DEF OwnershipInv, InPhase
    <2>3. gen'[p] = gen[p] \/ pc'[p] = "idle"
      BY <1>3 DEF CreateStep, ClassifyConflict, RemoveOwnNetwork, CreateVolume, Prepare,
                  CreateRunner, StartRunner, DropRejectedRunner, CreateDind, StartDind,
                  DeliverCredentials, VerifyRunner, VerifyDind, CreateFails, Guarded, Return
    <2>4. openOf' = openOf => Names!MayEnd(gen[p])
      BY DEF Names!MayEnd
    <2>5. Names!MayEnd(gen[p])
      BY <1>1, <2>1, <2>3, <2>4, OwnCreateOpen
    <2>6. CASE DropRejectedRunner(p)
      <3>1. gen'[p] = gen[p] /\ Drawn(p)'
        BY <2>6 DEF DropRejectedRunner
      <3> QED
        BY <1>1, <1>3, <2>1, <2>2, <2>5, <3>1, OwnCreateOpen
    <2> QED
      BY <1>1, <1>3, <2>1, <2>2, <2>5, <2>6, OwnCreateOpen
  <1> QED
    BY <1>2, <1>3

\* A create step has one effect.
LEMMA CreateHasOneEffect ==
  ASSUME TypeOK, OwnershipInv, NEW p \in Proc, CreateStep(p)
  PROVE  OneEffect
  <1>1. InPhase(p)
    BY DEF OwnershipInv
  <1>2. CASE CreateClaimNetwork(p)
    <2>1. gen'[p] \in Gen \ used /\ used' = used \cup {gen'[p]}
      BY <1>2 DEF CreateClaimNetwork, TypeOK, ProcTypeOK
    <2>2. \/ live' = live
          \/ live' = live \cup {Claim(gen'[p])} /\ ~NetworkNameTaken(InstanceName[gen'[p]])
      BY <1>2 DEF CreateClaimNetwork, NetworkCreated, TypeOK, ProcTypeOK
    <2>3. openOf' = openOf \cup {gen'[p]}
      BY <1>2, CreateOpens
    <2> QED
      BY <2>1, <2>2, <2>3 DEF OneEffect
  <1>3. CASE ~CreateClaimNetwork(p)
    <2>0. gen[p] \in openOf /\ gen[p] \in Gen /\ Names!MayEnd(gen[p])
      BY <1>3, CreateOpens
    <2> DEFINE end == Names!MayEnd(gen[p])
    <2>a. used' = used /\ live' = live => OneEffect
      BY <2>0 DEF OneEffect
    <2>b. ASSUME NEW k \in Kind \ {"network"}, used' = used, live' = live \cup {<<gen[p], k>>}
          PROVE  OneEffect
      BY <2>0, <2>b DEF OneEffect
    <2>1. CASE RemoveOwnNetwork(p)
      <3>1. Claim(gen[p]) \in Resource /\ Claim(gen[p])[1] = gen[p] /\ Claim(gen[p])[2] = "network"
        BY <2>0 DEF Claim, Resource, Kind
      <3>2. used' = used /\ (live' = live \/ live' = live \ {Claim(gen[p])})
        BY <2>1 DEF RemoveOwnNetwork, Removed, Return
      <3> QED
        BY <2>0, <2>a, <3>1, <3>2 DEF OneEffect
    <2>2. CASE CreateVolume(p)
      <3>1. pc[p] \in Kind \ {"network"}
        BY <2>2 DEF CreateVolume, VolumeKind, Kind
      <3>2. used' = used /\ live' = live \cup {<<gen[p], pc[p]>>}
        BY <2>2 DEF CreateVolume, VolumeCreated
      <3> QED
        BY <2>b, <3>1, <3>2
    <2>3. CASE CreateRunner(p) \/ CreateDind(p)
      <3>1. pc[p] \in HoldsRunner
        BY <2>3 DEF CreateRunner, CreateDind, HoldsRunner
      <3>2. /\ hand[p] = <<gen[p], hand[p][2]>> /\ hand[p][2] \in Kind \ {"network"}
            /\ "dind" \in Kind \ {"network"}
        BY <1>1, <3>1 DEF InPhase, Runners, RunnerKind, ContainerKind, VolumeKind, Kind
      <3>3. used' = used
        BY <2>3 DEF CreateRunner, CreateDind, Guarded
      <3>4. \/ live' = live
            \/ live' = live \cup {hand[p]}
            \/ live' = live \cup {<<gen[p], "dind">>}
        BY <2>3 DEF CreateRunner, CreateDind, ContainerCreated
      <3> QED
        BY <2>a, <2>b, <3>2, <3>3, <3>4
    <2>4. CASE DropRejectedRunner(p)
      <3>1. hand[p] \in Resource
        BY <1>1, <2>4
           DEF DropRejectedRunner, InPhase, HoldsRunner, Runners, RunnerKind, ContainerKind, Resource, Kind
      <3>2. live' = live \ {hand[p]} /\ used' = used
        BY <2>4 DEF DropRejectedRunner, Removed
      <3>3. openOf' = openOf
        BY <2>4, CreateOpens
      <3> QED
        BY <3>1, <3>2, <3>3 DEF OneEffect
    <2>5. CASE \/ ClassifyConflict(p) \/ Prepare(p) \/ StartRunner(p) \/ StartDind(p)
               \/ DeliverCredentials(p) \/ VerifyRunner(p) \/ VerifyDind(p) \/ CreateFails(p)
      BY <2>5, <2>a DEF ClassifyConflict, Prepare, StartRunner, StartDind, DeliverCredentials,
                        VerifyRunner, VerifyDind, CreateFails, ContainerStarted, Return, Guarded
    <2> QED
      BY <1>3, <2>1, <2>2, <2>3, <2>4, <2>5 DEF CreateStep
  <1> QED
    BY <1>2, <1>3

\* Outside creates nothing opens or ends.
LEMMA ElsewhereNoneOpen ==
  ASSUME TypeOK, NEW p \in Proc, GarmCalls(p) \/ SweepStep(p) \/ DeleteStep(p) \/ TeardownStep(p)
  PROVE  openOf' = openOf
  <1> USE DEF Drawn, CreatePC, Goto, TypeOK, ProcTypeOK
  <1>1. Local(p)
    BY StepIsLocal DEF ProcStep
  <1>2. ~Drawn(p) /\ ~Drawn(p)'
    <2>1. CASE GarmCalls(p)
      BY <2>1 DEF GarmCalls, CreateInstance, DeleteInstance, ListInstances, RemoveAllInstances,
                  StartCall
    <2>2. CASE SweepStep(p) \/ DeleteStep(p)
      BY <2>2 DEF SweepStep, EnumerateInstanceNames, SweepContainers, SweepNetworks, SweepVolumes,
                  InspectRunner, SweepDone, DeleteStep, ResolveContainers, ResolveNetworks,
                  ResolveVolumes, ResolveStep, AfterSweep, Decide, NextName, Return
    <2>3. CASE TeardownStep(p)
      BY <2>3 DEF TeardownStep, CaptureGeneration, ListContainers, ListVolumes, ListNetworks,
                  ListPhase, CheckLeftover, StopContainer, RemoveContainer, RemoveVolumeOrNetwork,
                  TeardownDone, TeardownReturns, NextName, Return
    <2> QED
      BY <2>1, <2>2, <2>3
  <1> QED
    BY <1>1, <1>2, OwnCreateOpen

\* A teardown step has one effect: at most one removal.
LEMMA TeardownHasOneEffect ==
  ASSUME TypeOK, OwnershipInv, NEW p \in Proc, TeardownStep(p)
  PROVE  OneEffect
  <1>0. openOf' = openOf
    BY ElsewhereNoneOpen
  <1>1. InPhase(p)
    BY DEF OwnershipInv
  <1>2. ASSUME NEW r \in Resource, RemoveResource(p, r)
        PROVE  OneEffect
    BY <1>0, <1>2 DEF RemoveResource, Removed, OneEffect
  <1>3. CASE RemoveContainer(p)
    <2>1. hand[p] \in Resource
      BY <1>1, <1>3 DEF RemoveContainer, InPhase, TypeOK, ProcTypeOK
    <2> QED
      BY <1>2, <1>3, <2>1 DEF RemoveContainer
  <1>4. CASE RemoveVolumeOrNetwork(p)
    <2>1. Ready(p) \subseteq Resource
      BY DEF Ready, First, TypeOK, ProcTypeOK
    <2> QED
      BY <1>2, <1>4, <2>1 DEF RemoveVolumeOrNetwork
  <1>5. CASE \/ CaptureGeneration(p) \/ ListContainers(p) \/ ListVolumes(p)
             \/ ListNetworks(p) \/ CheckLeftover(p) \/ StopContainer(p) \/ TeardownDone(p)
    BY <1>0, <1>5
       DEF CaptureGeneration, ListContainers, ListVolumes, ListNetworks, ListPhase,
           CheckLeftover, StopContainer, ContainerExited, TeardownDone, TeardownReturns,
           NextName, Return, OneEffect
  <1> QED
    BY <1>3, <1>4, <1>5 DEF TeardownStep

\* So has every step.
LEMMA NextHasOneEffect ==
  ASSUME TypeOK, OwnershipInv, [Next]_vars
  PROVE  OneEffect
  <1>1. CASE Host \/ UNCHANGED vars
    <2>1. UNCHANGED <<live, used, gen, pc>>
      BY <1>1 DEF Host, ContainerExits, ContainerExited, Tick
    <2> QED
      BY <2>1 DEF OneEffect, openOf
  <1>2. ASSUME NEW p \in Proc, GarmCalls(p) \/ Killed(p) \/ DeleteStep(p) \/ SweepStep(p)
        PROVE  OneEffect
    <2>1. live' = live
      BY <1>2 DEF GarmCalls, CreateInstance, DeleteInstance, ListInstances, RemoveAllInstances,
                  StartCall, Killed, DeleteStep, ResolveContainers, ResolveNetworks,
                  ResolveVolumes, ResolveStep, SweepStep, EnumerateInstanceNames,
                  SweepContainers, SweepNetworks, SweepVolumes, InspectRunner, SweepDone
    <2>2. used' = used
      BY <1>2 DEF GarmCalls, CreateInstance, DeleteInstance, ListInstances, RemoveAllInstances,
                  StartCall, Killed, DeleteStep, ResolveContainers, ResolveNetworks,
                  ResolveVolumes, ResolveStep, SweepStep, EnumerateInstanceNames,
                  SweepContainers, SweepNetworks, SweepVolumes, InspectRunner, SweepDone,
                  AfterSweep, Decide, NextName, Return
    <2>3. CASE Killed(p)
      <3>1. Local(p)
        BY <2>3, StepIsLocal
      <3>2. ~Drawn(p)'
        BY <2>3 DEF Killed, Return, Goto, Drawn, CreatePC, TypeOK, ProcTypeOK
      <3>3. Drawn(p) => gen[p] \in Gen
        BY DEF Drawn, OwnershipInv, InPhase, TypeOK, ProcTypeOK
      <3> QED
        BY <2>1, <2>2, <3>1, <3>2, <3>3, OwnCreateOpen DEF OneEffect
    <2>4. CASE ~Killed(p)
      BY <1>2, <2>1, <2>2, <2>4, ElsewhereNoneOpen DEF OneEffect
    <2> QED
      BY <2>3, <2>4
  <1> QED
    BY <1>1, <1>2, CreateHasOneEffect, TeardownHasOneEffect DEF Next, ProcStep

\* Each effect is a step of the lock, or none: an end ends, adding equips, removing a claim
\* releases it, removing anything else strips or leaves, a draw acquires or is wasted.
LEMMA EffectsAreLockSteps ==
  ASSUME TypeOK, OwnershipInv, OneEffect
  PROVE  [Names!Next]_<<phaseOf, openOf, equippedOf>>
  <1> USE DEF Claim, Kind
  <1>0. ASSUME NEW g \in Gen, Names!MayEnd(g), UNCHANGED <<phaseOf, equippedOf>>
        PROVE  [Names!Next]_<<phaseOf, openOf, equippedOf>>
    BY <1>0 DEF Names!MayEnd, Names!Next, Names!End
  <1>1. CASE live' = live /\ used' = used /\ (openOf' = openOf \/ \E g \in Gen : Names!MayEnd(g))
    <2>1. UNCHANGED <<phaseOf, equippedOf>>
      BY <1>1 DEF phaseOf, equippedOf
    <2> QED
      BY <1>0, <1>1, <2>1
  <1>2. ASSUME NEW r \in Resource, live' = live \ {r}, used' = used,
               openOf' = openOf \/ (r[2] = "network" /\ Names!MayEnd(r[1]))
        PROVE  [Names!Next]_<<phaseOf, openOf, equippedOf>>
    <2>1. r[1] \in Gen /\ r = <<r[1], r[2]>>
      BY DEF Resource
    <2>2. CASE r \notin live
      <3>1. live' = live /\ (openOf' = openOf \/ Names!MayEnd(r[1]))
        BY <1>2, <2>2
      <3>2. UNCHANGED <<phaseOf, equippedOf>>
        BY <1>2, <3>1 DEF phaseOf, equippedOf
      <3>3. CASE openOf' = openOf
        BY <3>2, <3>3
      <3>4. CASE Names!MayEnd(r[1])
        BY <2>1, <3>2, <3>4 DEF Names!MayEnd, Names!Next, Names!End
      <3> QED
        BY <3>1, <3>3, <3>4
    <2>3. CASE r \in live /\ r[2] = "network"
      <3>1. equippedOf' = equippedOf
        <4>1. ASSUME NEW g \in Gen, NEW k \in Kind \ {"network"}
              PROVE  <<g, k>> \in live' <=> <<g, k>> \in live
          BY <1>2, <2>1, <2>3
        <4> QED
          BY <4>1 DEF equippedOf
      <3>2. r[1] \in used /\ Claim(r[1]) = r
        BY <2>1, <2>3 DEF OwnershipInv, NoncesDrawn
      <3>3. phaseOf[r[1]] = "held"
        BY <2>1, <2>3, <3>2 DEF phaseOf
      <3>4. phaseOf' = [phaseOf EXCEPT ![r[1]] = "spent"]
        <4>1. \A h \in Gen : Claim(h) \in live' <=> Claim(h) \in live /\ h # r[1]
          BY <1>2, <2>1, <2>3
        <4> QED
          BY <1>2, <2>1, <3>2, <4>1 DEF phaseOf
      <3>5. Names!Release(r[1])
        BY <1>2, <3>1, <3>3, <3>4 DEF Names!Release, Names!MayEnd
      <3> QED
        BY <2>1, <3>5 DEF Names!Next
    <2>4. CASE r \in live /\ r[2] # "network"
      <3>1. phaseOf' = phaseOf
        <4>1. \A h \in Gen : Claim(h) \in live' <=> Claim(h) \in live
          BY <1>2, <2>1, <2>4
        <4> QED
          BY <1>2, <4>1 DEF phaseOf
      <3>2. \A g \in Gen \ {r[1]} : g \in equippedOf' <=> g \in equippedOf
        <4>1. ASSUME NEW g \in Gen \ {r[1]}, NEW k
              PROVE  <<g, k>> \in live' <=> <<g, k>> \in live
          BY <1>2, <2>1
        <4> QED
          BY <4>1 DEF equippedOf
      <3>3. equippedOf' \subseteq equippedOf /\ equippedOf \subseteq Gen
        BY <1>2 DEF equippedOf
      <3>4. equippedOf' = equippedOf \/ equippedOf' = equippedOf \ {r[1]}
        BY <3>2, <3>3
      <3> QED
        BY <1>2, <2>1, <2>4, <3>1, <3>4 DEF Names!Next, Names!Strip
    <2> QED
      BY <2>2, <2>3, <2>4
  <1>3. ASSUME NEW g \in openOf, NEW k \in Kind \ {"network"},
               live' = live \cup {<<g, k>>}, used' = used, Names!MayEnd(g)
        PROVE  [Names!Next]_<<phaseOf, openOf, equippedOf>>
    <2>1. g \in Gen
      BY DEF openOf
    <2>2. phaseOf' = phaseOf
      BY <1>3 DEF phaseOf
    <2>3. equippedOf' = equippedOf \cup {g}
      BY <1>3, <2>1 DEF equippedOf
    <2> QED
      BY <1>3, <2>1, <2>2, <2>3 DEF Names!Next, Names!Equip
  <1>4. ASSUME NEW g \in Gen \ used, used' = used \cup {g}, openOf' = openOf \cup {g},
               \/ live' = live
               \/ live' = live \cup {Claim(g)} /\ ~NetworkNameTaken(InstanceName[g])
        PROVE  [Names!Next]_<<phaseOf, openOf, equippedOf>>
    <2>1. Claim(g) \notin live
      BY DEF OwnershipInv, NoncesDrawn
    <2>2. phaseOf[g] = "fresh"
      BY <2>1 DEF phaseOf
    <2>3. equippedOf' = equippedOf
      BY <1>4 DEF equippedOf
    <2>4. CASE live' = live
      <3>1. phaseOf' = [phaseOf EXCEPT ![g] = "spent"]
        BY <1>4, <2>1, <2>4 DEF phaseOf
      <3> QED
        BY <1>4, <2>2, <2>3, <3>1 DEF Names!Next, Names!Waste, Names!Draw
    <2>5. CASE live' = live \cup {Claim(g)} /\ ~NetworkNameTaken(InstanceName[g])
      <3>1. phaseOf' = [phaseOf EXCEPT ![g] = "held"]
        BY <1>4, <2>5 DEF phaseOf
      <3>2. \A h \in Gen : phaseOf[h] = "held" => Claim(h) \in live
        BY DEF phaseOf
      <3>3. \A h \in Gen : Claim(h) \in live => InstanceName[h] # InstanceName[g]
        BY <2>5 DEF NetworkNameTaken, Networks
      <3> QED
        BY <1>4, <2>2, <2>3, <3>1, <3>2, <3>3 DEF Names!Next, Names!Acquire, Names!Draw
    <2> QED
      BY <1>4, <2>4, <2>5
  <1> QED
    BY <1>1, <1>2, <1>3, <1>4 DEF OneEffect

\* The networks and nonces implement the abstract lock per instance name, and nothing is
\* added to a generation but by the create that drew it and is still at work, for any
\* number of generations, names, controllers and processes.
THEOREM ClaimsLock == Spec => ClaimIsLock
  <1>1. Init => Names!Init
    BY DEF Init, DaemonInit, Names!Init, phaseOf, openOf, CreatePC, equippedOf
  <1>2. TypeOK /\ OwnershipInv /\ [Next]_vars => [Names!Next]_<<phaseOf, openOf, equippedOf>>
    BY NextHasOneEffect, EffectsAreLockSteps
  <1> QED
    BY <1>1, <1>2, TypeCorrect, OwnershipHolds, PTL DEF Spec, ClaimIsLock, Names!Spec
===============================================================================
