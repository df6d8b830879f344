------------------------------ MODULE BootProofs ------------------------------
(***************************************************************************)
(* What holds of Entrypoint and StatusWatch for every set of credential    *)
(* files and every number of retries: the types, and the invariants that   *)
(* follow from BootInv and WatchInv.  Then that the reports of ExitReport  *)
(* add nothing to the runner and its watcher, so all of it holds beside    *)
(* them too, and that they are true, for a tail of any length.             *)
(***************************************************************************)
EXTENDS ExitReport, TLAPS, WellFoundedInduction

-----------------------------------------------------------------------------
(* Types. *)

\* The steps of delivery, entrypoint and runner keep the types.
LEMMA BootTypes ==
  ASSUME BootTypeOK, BootNext
  PROVE  BootTypeOK'
  <1>1. CASE Deliver
    <2>1. ASSUME NEW f \in Archive, BeginFile(f) \/ EndFile(f)
          PROVE  BootTypeOK'
      <3>1. f \in Cred \cup {Token}
        BY DEF Archive
      <3>2. tmpfs' \in [Cred \cup {Token} -> {"absent", "part", "whole"}]
        BY <2>1, <3>1 DEF BeginFile, EndFile, BootTypeOK
      <3> QED
        BY <2>1, <3>2 DEF BeginFile, EndFile, BootTypeOK
    <2>2. CASE WriteReadyMarker \/ DeliveryFails \/ VerifyRunning
      BY <2>2 DEF WriteReadyMarker, DeliveryFails, VerifyRunning, BootTypeOK, CreatePC
    <2> QED
      BY <1>1, <2>1, <2>2 DEF Deliver
  <1>2. CASE RemoveContainer
    BY <1>2 DEF RemoveContainer, BootTypeOK, CreatePC, PC
  <1>7. CASE DockerAnswers \/ SeedAppears
    BY <1>7 DEF DockerAnswers, SeedAppears, BootTypeOK
  <1>3. ASSUME NEW j \in Wait, WaitEnds(j)
        PROVE  BootTypeOK'
    BY <1>3 DEF WaitEnds, BootTypeOK, Goto, PC, CreatePC, RunnerPC, Wait
  <1>4. CASE Script
    <2>1. CASE FirstWait \/ SecondWait \/ Setup \/ InstallJit
      BY <2>1 DEF FirstWait, SecondWait, Setup, InstallJit, BootTypeOK, Goto, PC, CreatePC, RunnerPC, Wait
    <2>2. CASE StartConfig \/ WaitConfig
      BY <2>2 DEF StartConfig, WaitConfig, BootTypeOK, Goto, PC, CreatePC, RunnerPC, Wait
    <2>3. ASSUME NEW f \in Cred, MoveFile(f) \/ LinkFile(f) \/ SkipFile(f) \/ ScrubFile(f)
          PROVE  BootTypeOK'
      BY <2>3 DEF MoveFile, LinkFile, SkipFile, ScrubFile, BootTypeOK, Goto, PC, CreatePC, RunnerPC, Wait
    <2>4. CASE MoveDone \/ ScrubDone \/ PrepareWorkdir \/ ExternalsGate \/ ExecAsRunner
      BY <2>4 DEF MoveDone, ScrubDone, PrepareWorkdir, ExternalsGate, ExecAsRunner, BootTypeOK, Goto, PC, CreatePC, RunnerPC, Wait
    <2>5. CASE RunnerProceeds
      BY <2>5 DEF RunnerProceeds, BootTypeOK, Goto, PC, CreatePC, RunnerPC, Wait
    <2> QED
      BY <1>4, <2>1, <2>2, <2>3, <2>4, <2>5 DEF Script
  <1>5. CASE Configure
    <2>1. ASSUME NEW f \in Cred, ConfigWrites(f)
          PROVE  BootTypeOK'
      BY <2>1 DEF ConfigWrites, BootTypeOK, Goto, PC, CreatePC, RunnerPC, Wait
    <2>2. CASE ConfigEnds
      BY <2>2 DEF ConfigEnds, BootTypeOK, Goto, PC, CreatePC, RunnerPC, Wait
    <2> QED
      BY <1>5, <2>1, <2>2 DEF Configure
  <1>6. CASE StepFails \/ Signal \/ MoveFails \/ RunnerEnds \/ EntrypointKilled
    BY <1>6 DEF StepFails, Signal, MoveFails, RunnerEnds, EntrypointKilled, BootTypeOK, Goto, PC, CreatePC, RunnerPC, Wait
  <1> QED
    BY <1>1, <1>2, <1>3, <1>4, <1>5, <1>6, <1>7 DEF BootNext

\* The steps of the watcher and of GARM keep the types.
LEMMA WatchTypes ==
  ASSUME TypeOK, WatchNext
  PROVE  TypeOK'
  <1>b. UNCHANGED bootVars => BootTypeOK'
    BY DEF TypeOK, BootTypeOK, bootVars
  <1>1. CASE ReportRunnerStatus
    <2>1. BootTypeOK'
      BY <1>1 DEF ReportRunnerStatus, TypeOK, BootTypeOK, CreatePC
    <2> QED
      BY <1>1, <2>1 DEF ReportRunnerStatus, TypeOK, WatchPC
  <1>2. CASE CreateReturns
    <2>1. BootTypeOK'
      BY <1>2 DEF CreateReturns, TypeOK, BootTypeOK, CreatePC
    <2> QED
      BY <1>2, <2>1 DEF CreateReturns, TypeOK, watchVars
  <1>3. CASE CreateKilled
    <2>1. BootTypeOK'
      BY <1>3 DEF CreateKilled, TypeOK, BootTypeOK, CreatePC
    <2> QED
      BY <1>3, <2>1 DEF CreateKilled, TypeOK, WatchPC
  <1>r. ASSUME NEW s \in Status, Recorded(s)
        PROVE  row' \in {"pending"} \cup Status
    BY <1>r DEF Recorded, TypeOK
  <1>4. ASSUME NEW s \in Status, LateReport(s)
        PROVE  TypeOK'
    BY <1>4, <1>b, <1>r DEF LateReport, TypeOK
  <1>5. Report \in Status
    BY DEF Report, TypeOK, Status
  <1>6. CASE PostAccepted
    BY <1>6, <1>5, <1>b, <1>r, RetryAssumption DEF PostAccepted, TypeOK, WatchPC, WaitPC
  <1>7. CASE PostRetried
    <2>1. late' \subseteq Status /\ row' \in {"pending"} \cup Status
      BY <1>7, <1>5, <1>r DEF PostRetried, TypeOK
    <2> QED
      BY <1>7, <2>1, <1>b, RetryAssumption DEF PostRetried, TypeOK, WatchPC
  <1>8. CASE PostGivenUp
    BY <1>8, <1>b DEF PostGivenUp, TypeOK, WatchPC
  <1>c. ASSUME NEW v \in Status, Conclude(v)
        PROVE  wpc' \in WatchPC /\ verdict' \in Status
    BY <1>c DEF Conclude, WatchPC
  <1>v. "installing" \in Status /\ IdleVerdict \in Status
    BY DEF Status, Idle, IdleVerdict
  <1>9. CASE OpenLogs
    BY <1>9, <1>b DEF OpenLogs, TypeOK, WatchPC, WaitPC
  <1>10. CASE FollowLogs
    BY <1>10, <1>b, <1>c, <1>v DEF FollowLogs, TypeOK, WatchPC, WaitPC, Confirming
  <1>11. CASE PollListener
    BY <1>11, <1>b, <1>c, <1>v DEF PollListener, TypeOK, WatchPC, WaitPC, Confirming
  <1>12. CASE ConfirmRunning
    BY <1>12, <1>b, <1>c, <1>v DEF ConfirmRunning, TypeOK
  <1>13. CASE WaitTimesOut
    BY <1>13, <1>b, <1>c, <1>v DEF WaitTimesOut, TypeOK
  <1>14. CASE TimePasses
    BY <1>14, <1>b DEF TimePasses, TypeOK
  <1>15. CASE HardStop
    BY <1>15, <1>b DEF HardStop, TypeOK, WatchPC
  <1> QED
    BY <1>1, <1>2, <1>3, <1>4, <1>6, <1>7, <1>8, <1>9, <1>10, <1>11, <1>12, <1>13, <1>14, <1>15
    DEF WatchNext, Watch

\* StatusWatch keeps its types, for every Cred, Token and MaxRetries.
THEOREM BootTypeCorrect == Spec => []TypeOK
  <1>1. Init => TypeOK
    <2>1. BootInit => BootTypeOK
      BY DEF BootInit, BootTypeOK, CreatePC, PC
    <2> QED
      BY <2>1, RetryAssumption DEF Init, TypeOK, WatchPC, Status
  <1>2. TypeOK /\ [Next]_vars => TypeOK'
    <2> SUFFICES ASSUME TypeOK, [Next]_vars
                 PROVE  TypeOK'
      OBVIOUS
    <2>1. CASE BootNext /\ UNCHANGED watchVars
      BY <2>1, BootTypes DEF TypeOK, watchVars
    <2>2. CASE WatchNext
      BY <2>2, WatchTypes
    <2>3. CASE UNCHANGED vars
      BY <2>3 DEF vars, bootVars, watchVars, TypeOK, BootTypeOK
    <2> QED
      BY <2>1, <2>2, <2>3 DEF Next
  <1> QED
    BY <1>1, <1>2, PTL DEF Spec

-----------------------------------------------------------------------------
(* The entrypoint. *)

\* Whatever delivery, entrypoint, config.sh and runner do, BootInv stands.
LEMMA BootStep ==
  ASSUME BootTypeOK, BootInv, BootNext
  PROVE  BootInv'
  <1> USE DEF BootInv, WaitInv, DiskInv, LinkInv, ReachInv, Up, Waiting, BeforeInstall, Installed, RunnerPC, Goto
  <1>0. ~mode.jit => Archive = {Token} /\ Token \notin Cred
    BY EntrypointAssumption DEF Archive
  <1>1. ASSUME NEW f \in Archive, BeginFile(f)
        PROVE  BootInv'
    <2>1. ~marker /\ Waiting
      BY <1>1 DEF BeginFile, Wait
    <2>2. \A g \in Cred : ~mode.jit => tmpfs'[g] = tmpfs[g]
      BY <1>0, <1>1 DEF BeginFile, BootTypeOK
    <2> QED
      BY <1>1, <2>1, <2>2 DEF BeginFile
  <1>2. ASSUME NEW f \in Archive, EndFile(f)
        PROVE  BootInv'
    BY <1>2 DEF EndFile, BootTypeOK, Archive, Wait
  <1>3. ASSUME NEW j \in Wait, WaitEnds(j)
        PROVE  BootInv'
    <2>1. /\ job'["cred"] = "ok" => job["cred"] = "ok" \/ marker
          /\ job'["docker"] = "ok" => job["docker"] = "ok" \/ (mode.dind => docker)
      BY <1>3 DEF WaitEnds, WaitOver, Wait, BootTypeOK
    <2>2. Waiting /\ UNCHANGED <<mode, tmpfs, marker, docker, seeded, pc, todo, disk, link, config, reached>>
      BY <1>3 DEF WaitEnds
    <2>3. WaitInv'
      BY <2>1, <2>2 DEF Archive
    <2>4. (DiskInv /\ LinkInv /\ ReachInv)'
      BY <2>2
    <2> QED
      BY <2>3, <2>4
  <1>4. CASE WriteReadyMarker
    BY <1>4 DEF WriteReadyMarker, BootTypeOK, Archive, Wait
  <1>5. CASE DeliveryFails
    BY <1>5 DEF DeliveryFails, BootTypeOK, Archive, Wait
  <1>6. CASE VerifyRunning
    BY <1>6 DEF VerifyRunning, BootTypeOK, Archive, Wait
  <1>7. CASE RemoveContainer
    BY <1>7 DEF RemoveContainer, BootTypeOK, Archive, Wait
  <1>8. CASE DockerAnswers
    BY <1>8 DEF DockerAnswers, BootTypeOK, Archive, Wait
  <1>9. CASE SeedAppears
    BY <1>9 DEF SeedAppears, BootTypeOK, Archive, Wait
  <1>10. CASE FirstWait
    BY <1>10 DEF FirstWait, BootTypeOK, Archive, Wait
  <1>11. CASE SecondWait
    BY <1>11 DEF SecondWait, BootTypeOK, Archive, Wait
  <1>12. CASE StepFails
    BY <1>12 DEF StepFails, BootTypeOK, Archive, Wait
  <1>13. CASE Setup
    BY <1>13 DEF Setup, BootTypeOK, Archive, Wait
  <1>14. CASE InstallJit
    BY <1>14 DEF InstallJit, BootTypeOK, Archive, Wait
  <1>15. CASE StartConfig
    BY <1>15 DEF StartConfig, BootTypeOK, Archive, Wait
  <1>16. ASSUME NEW f \in Cred, ConfigWrites(f)
        PROVE  BootInv'
    BY <1>16 DEF ConfigWrites, BootTypeOK, Archive, Wait
  <1>17. CASE ConfigEnds
    BY <1>17 DEF ConfigEnds, BootTypeOK, Archive, Wait
  <1>18. CASE WaitConfig
    BY <1>18 DEF WaitConfig, BootTypeOK, Archive, Wait
  <1>19. CASE Signal
    BY <1>19 DEF Signal, BootTypeOK, Archive, Wait
  <1>20. ASSUME NEW f \in Cred, MoveFile(f)
        PROVE  BootInv'
    BY <1>20 DEF MoveFile, BootTypeOK, Archive, Wait
  <1>21. ASSUME NEW f \in Cred, LinkFile(f)
        PROVE  BootInv'
    BY <1>21 DEF LinkFile, BootTypeOK, Archive, Wait
  <1>22. ASSUME NEW f \in Cred, SkipFile(f)
        PROVE  BootInv'
    BY <1>22 DEF SkipFile, BootTypeOK, Archive, Wait
  <1>23. ASSUME NEW f \in Cred, ScrubFile(f)
        PROVE  BootInv'
    <2>1. \A g \in Archive : tmpfs'[g] = tmpfs[g]
      BY <1>0, <1>23 DEF ScrubFile, BootTypeOK
    <2>2. WaitInv'
      BY <1>23, <2>1 DEF ScrubFile, Archive
    <2>3. (DiskInv /\ LinkInv /\ ReachInv)'
      BY <1>23 DEF ScrubFile, BootTypeOK
    <2> QED
      BY <2>2, <2>3
  <1>24. CASE MoveFails
    BY <1>24 DEF MoveFails, BootTypeOK, Archive, Wait
  <1>25. CASE MoveDone
    BY <1>25 DEF MoveDone, BootTypeOK, Archive, Wait
  <1>26. CASE ScrubDone
    BY <1>26 DEF ScrubDone, BootTypeOK, Archive, Wait
  <1>27. CASE PrepareWorkdir
    BY <1>27 DEF PrepareWorkdir, BootTypeOK, Archive, Wait
  <1>28. CASE ExternalsGate
    BY <1>28 DEF ExternalsGate, BootTypeOK, Archive, Wait
  <1>29. CASE ExecAsRunner
    BY <1>29 DEF ExecAsRunner, BootTypeOK, Archive, Wait
  <1>30. CASE RunnerProceeds
    BY <1>30 DEF RunnerProceeds, BootTypeOK, Archive, Wait
  <1>31. CASE RunnerEnds
    BY <1>31 DEF RunnerEnds, BootTypeOK, Archive, Wait
  <1>32. CASE EntrypointKilled
    BY <1>32 DEF EntrypointKilled, BootTypeOK, Archive, Wait
  <1> QED
    BY <1>1, <1>2, <1>3, <1>4, <1>5, <1>6, <1>7, <1>8, <1>9, <1>10, <1>11, <1>12, <1>13, <1>14, <1>15, <1>16,
       <1>17, <1>18, <1>19, <1>20, <1>21, <1>22, <1>23, <1>24, <1>25, <1>26, <1>27, <1>28, <1>29, <1>30, <1>31,
       <1>32
    DEF BootNext, Deliver, Script, Configure

\* The watcher and GARM change nothing of the container but where its create is.
LEMMA BootInvFrame ==
  ASSUME BootInv, UNCHANGED <<mode, tmpfs, marker, docker, seeded, job, pc, todo, disk, link, config, reached>>
  PROVE  BootInv'
  BY DEF BootInv, WaitInv, DiskInv, LinkInv, ReachInv, Up, Waiting, BeforeInstall, Installed, Archive

\* How far the runner got is never taken back.
LEMMA ReachedGrows ==
  ASSUME BootInv, BootNext
  PROVE  /\ reached = "listening" => reached' = "listening"
         /\ reached # "no" => reached' # "no"
  <1>1. UNCHANGED reached \/ RunnerProceeds
    BY DEF BootNext, Deliver, Script, Configure, BeginFile, EndFile, WriteReadyMarker, DeliveryFails,
       VerifyRunning, RemoveContainer, DockerAnswers, SeedAppears, WaitEnds, FirstWait, SecondWait, Setup,
       InstallJit, StartConfig, WaitConfig, MoveFile, LinkFile, SkipFile, ScrubFile, MoveDone, ScrubDone,
       PrepareWorkdir, ExternalsGate, ExecAsRunner, StepFails, ConfigEnds, ConfigWrites, Signal, MoveFails, RunnerEnds,
       EntrypointKilled
  <1>2. CASE RunnerProceeds
    BY <1>2 DEF RunnerProceeds, Goto, BootInv, ReachInv, Up
  <1> QED
    BY <1>1, <1>2

-----------------------------------------------------------------------------
(* The watcher. *)

\* Whatever watcher, create and GARM do, WatchInv stands.
LEMMA WatchStep ==
  ASSUME TypeOK, WatchInv, WatchNext
  PROVE  WatchInv'
  <1>1. BootInv' /\ UNCHANGED <<pc, reached>>
    <2>1. UNCHANGED <<mode, tmpfs, marker, docker, seeded, job, pc, todo, disk, link, config, reached>>
      BY DEF WatchNext, Watch, ReportRunnerStatus, CreateReturns, CreateKilled, LateReport, PostAccepted,
         PostRetried, PostGivenUp, OpenLogs, FollowLogs, PollListener, ConfirmRunning, WaitTimesOut,
         TimePasses, HardStop, bootVars
    <2> QED
      BY <2>1, BootInvFrame DEF WatchInv
  <1> DEFINE Evident(s) == (s = "idle" => reached = "listening") /\ (s = "idleViaProcess" => reached # "no")
  <1>0. \A s : Evident(s)' <=> Evident(s)
    BY <1>1
  <1>2. \A s \in {verdict, row, "installing"} \cup late : Evident(s)
    BY DEF WatchInv
  <1>3. ASSUME verdict' \in {verdict, row, "installing"} \cup late,
               row' \in {verdict, row, "installing"} \cup late,
               late' \subseteq {verdict, row, "installing"} \cup late,
               wpc' \in Confirming \cup {"settle"} => wpc' = wpc
        PROVE  WatchInv'
    BY <1>0, <1>1, <1>2, <1>3 DEF WatchInv, Confirming
  <1>r. ASSUME NEW s, Recorded(s)
        PROVE  row' \in {row, s}
    BY <1>r DEF Recorded
  <1>4. CASE ReportRunnerStatus \/ CreateReturns \/ CreateKilled
    BY <1>3, <1>4 DEF ReportRunnerStatus, CreateReturns, CreateKilled, Confirming, watchVars
  <1>5. ASSUME NEW s \in Status, LateReport(s)
        PROVE  WatchInv'
    BY <1>3, <1>5, <1>r DEF LateReport
  <1>6. Report \in {verdict, "installing"}
    BY DEF Report
  <1>7. CASE PostAccepted
    BY <1>3, <1>6, <1>7, <1>r DEF PostAccepted, Confirming
  <1>8. CASE PostRetried \/ PostGivenUp
    BY <1>3, <1>6, <1>8, <1>r DEF PostRetried, PostGivenUp, Confirming
  <1>9. CASE OpenLogs \/ WaitTimesOut \/ TimePasses \/ HardStop
    BY <1>3, <1>9 DEF OpenLogs, WaitTimesOut, Conclude, TimePasses, HardStop, Confirming
  <1>10. CASE FollowLogs
    BY <1>0, <1>1, <1>2, <1>10 DEF FollowLogs, Conclude, WatchInv
  <1>11. CASE PollListener
    <2>1. ListenerUp => reached # "no"
      BY DEF ListenerUp, WatchInv, BootInv, ReachInv
    <2> QED
      BY <1>0, <1>1, <1>2, <1>11, <2>1 DEF PollListener, Conclude, WatchInv
  <1>12. CASE ConfirmRunning
    <2>1. wpc \in Confirming => Evident(IdleVerdict)
      BY DEF IdleVerdict, WatchInv, Confirming
    <2> QED
      BY <1>0, <1>1, <1>2, <1>12, <2>1 DEF ConfirmRunning, Conclude, WatchInv
  <1> QED
    BY <1>4, <1>5, <1>7, <1>8, <1>9, <1>10, <1>11, <1>12 DEF WatchNext, Watch

\* The inductive invariant of StatusWatch, from which the four below follow.
THEOREM WatchHolds == Spec => []WatchInv
  <1>1. Init => WatchInv
    BY DEF Init, BootInit, WatchInv, BootInv, WaitInv, DiskInv, LinkInv, ReachInv, BeforeInstall, Installed,
       Waiting, Up, RunnerPC, Wait, Archive
  <1>2. TypeOK /\ WatchInv /\ [Next]_vars => WatchInv'
    <2> SUFFICES ASSUME TypeOK, WatchInv, [Next]_vars
                 PROVE  WatchInv'
      OBVIOUS
    <2>1. CASE BootNext /\ UNCHANGED watchVars
      <3>1. BootInv'
        BY <2>1, BootStep DEF TypeOK, WatchInv
      <3> QED
        BY <2>1, <3>1, ReachedGrows DEF WatchInv, watchVars
    <2>2. CASE WatchNext
      BY <2>2, WatchStep
    <2>3. CASE UNCHANGED vars
      BY <2>3, BootInvFrame DEF vars, bootVars, watchVars, WatchInv
    <2> QED
      BY <2>1, <2>2, <2>3 DEF Next
  <1> QED
    BY <1>1, <1>2, BootTypeCorrect, PTL DEF Spec

\* Past its waits the entrypoint has the whole delivery.
THEOREM PartialSetUnused == Spec => []NoPartialSet
  <1>1. WatchInv => NoPartialSet
    BY DEF WatchInv, BootInv, WaitInv, NoPartialSet, Wait
  <1> QED
    BY <1>1, WatchHolds, PTL

\* run.sh has its credentials on the tmpfs, none on disk, its daemon and its externals.
THEOREM RunnerIsEquipped == Spec => []RunnerEquipped
  <1>1. TypeOK /\ WatchInv => RunnerEquipped
    <2> SUFFICES ASSUME TypeOK, WatchInv, pc \in RunnerPC
                 PROVE  /\ disk = {} /\ link = {f \in Cred : tmpfs[f] = "whole"}
                        /\ mode.jit => link = Cred
                        /\ mode.dind => docker
                        /\ seeded
      BY DEF RunnerEquipped
    <2>1. disk = {} /\ link = {f \in Cred : tmpfs[f] = "whole"} /\ seeded
      BY DEF WatchInv, BootInv, DiskInv, LinkInv, ReachInv, Installed
    <2>2. job["cred"] = "ok" /\ job["docker"] = "ok"
      BY DEF WatchInv, BootInv, WaitInv, Up, Waiting, RunnerPC, Wait
    <2>3. mode.jit => link = Cred
      BY <2>1, <2>2 DEF WatchInv, BootInv, WaitInv, Archive
    <2> QED
      BY <2>1, <2>2, <2>3 DEF WatchInv, BootInv, WaitInv
  <1> QED
    BY <1>1, WatchHolds, BootTypeCorrect, PTL

\* An entrypoint that ends, but for a signal during config.sh or SIGKILL, leaves no
\* credentials.
THEOREM EndLeavesNone == Spec => []EndsClean
  <1>1. WatchInv => EndsClean
    BY DEF WatchInv, BootInv, DiskInv, EndsClean
  <1> QED
    BY <1>1, WatchHolds, PTL

\* GARM never has a runner idle that had not listened, or shown its listener.
THEOREM IdleNeverEarly == Spec => []IdleOnlyWhenReady
  <1>1. WatchInv => IdleOnlyWhenReady
    BY DEF WatchInv, IdleOnlyWhenReady
  <1> QED
    BY <1>1, WatchHolds, PTL

-----------------------------------------------------------------------------
(* The way to idle, while nothing fails. *)

\* No wait fails, the script has no reason to end, the create none to roll back; GARM
\* records each report as it is sent, and the watcher concludes one thing only.
GoesWell ==
    /\ Up /\ pc # "scrub"
    /\ create \notin {"rollback", "ended"}
    /\ \A j \in Wait : job[j] # "failed"
    /\ config \notin {"failed", "orphan"}
    /\ time = 0 /\ late = {}
    /\ wpc \in {"none", "post1"} => row = "pending"
    /\ wpc \in WaitPC \cup {"post2"} => row = "installing"
    /\ wpc = "post2" => verdict \in Idle
    /\ wpc = "ended" => row \in Idle

\* That is how it is without trouble.
HealthyInv == mode.healthy => GoesWell

\* Delivery, entrypoint and runner of a healthy behaviour do not go wrong.
LEMMA BootStaysHealthy ==
  ASSUME BootTypeOK, HealthyInv, BootNext, UNCHANGED watchVars
  PROVE  HealthyInv'
  <1> SUFFICES ASSUME mode'.healthy PROVE HealthyInv'
    BY DEF HealthyInv
  <1>0. mode' = mode
    BY DEF BootNext, Deliver, Script, Configure, BeginFile, EndFile, WriteReadyMarker, DeliveryFails,
       VerifyRunning, RemoveContainer, DockerAnswers, SeedAppears, WaitEnds, FirstWait, SecondWait, Setup,
       InstallJit, StartConfig, WaitConfig, MoveFile, LinkFile, SkipFile, ScrubFile, MoveDone, ScrubDone,
       PrepareWorkdir, ExternalsGate, ExecAsRunner, RunnerProceeds, StepFails, ConfigEnds, ConfigWrites,
       Signal, MoveFails, RunnerEnds, EntrypointKilled
  <1> DEFINE Fine == /\ Up /\ pc # "scrub"
                     /\ create \notin {"rollback", "ended"}
                     /\ \A j \in Wait : job[j] # "failed"
                     /\ config \notin {"failed", "orphan"}
  <1>1. Fine /\ ~Trouble
    BY <1>0 DEF HealthyInv, GoesWell, Trouble
  <1>2. Fine' => HealthyInv'
    BY <1>0 DEF HealthyInv, GoesWell, watchVars
  <1>3. CASE Deliver \/ RemoveContainer \/ DockerAnswers \/ SeedAppears
    <2>1. Fine'
      BY <1>1, <1>3 DEF Deliver, BeginFile, EndFile, WriteReadyMarker, DeliveryFails, VerifyRunning,
                        RemoveContainer, DockerAnswers, SeedAppears, Up
    <2> QED
      BY <1>2, <2>1
  <1>4. ASSUME NEW j \in Wait, WaitEnds(j)
        PROVE  HealthyInv'
    <2>1. job' = [job EXCEPT ![j] = "ok"] /\ UNCHANGED <<pc, create, config>>
      BY <1>1, <1>4 DEF WaitEnds
    <2>2. \A i \in Wait : job'[i] # "failed"
      BY <1>1, <2>1 DEF BootTypeOK
    <2>3. Fine'
      BY <1>1, <2>1, <2>2 DEF Up
    <2> QED
      BY <1>2, <2>3
  <1>5. CASE FirstWait \/ SecondWait
    <2>1. \A j \in Wait : job[j] # "waiting" => job[j] = "ok"
      BY <1>1 DEF BootTypeOK
    <2>2. Fine'
      BY <1>1, <1>5, <2>1 DEF FirstWait, SecondWait, Goto, Up
    <2> QED
      BY <1>2, <2>2
  <1>6. CASE Script /\ ~FirstWait /\ ~SecondWait
    <2>1. Fine'
      BY <1>1, <1>6 DEF Script, Setup, InstallJit, StartConfig, WaitConfig, MoveFile, LinkFile, SkipFile,
                        ScrubFile, MoveDone, ScrubDone, PrepareWorkdir, ExternalsGate, ExecAsRunner,
                        RunnerProceeds, Goto, Up
    <2> QED
      BY <1>2, <2>1
  <1>7. CASE StepFails \/ Configure \/ Signal \/ MoveFails \/ RunnerEnds \/ EntrypointKilled
    <2>1. Fine'
      BY <1>1, <1>7 DEF StepFails, Configure, ConfigWrites, ConfigEnds, Signal, MoveFails, RunnerEnds,
                        EntrypointKilled, Up
    <2> QED
      BY <1>2, <2>1
  <1> QED
    BY <1>3, <1>4, <1>5, <1>6, <1>7 DEF BootNext

\* Nor do its watcher and GARM.
LEMMA WatchStaysHealthy ==
  ASSUME HealthyInv, WatchNext
  PROVE  HealthyInv'
  <1> SUFFICES ASSUME mode'.healthy PROVE HealthyInv'
    BY DEF HealthyInv
  <1>0. UNCHANGED <<mode, pc, job, config>>
    BY DEF WatchNext, Watch, ReportRunnerStatus, CreateReturns, CreateKilled, LateReport, PostAccepted,
       PostRetried, PostGivenUp, OpenLogs, FollowLogs, PollListener, ConfirmRunning, WaitTimesOut,
       TimePasses, HardStop, bootVars
  <1>1. GoesWell /\ ~Trouble
    BY <1>0 DEF HealthyInv, Trouble
  <1>2. create' \notin {"rollback", "ended"} /\ time' = 0 /\ late' = {}
        /\ (wpc' \in {"none", "post1"} => row' = "pending")
        /\ (wpc' \in WaitPC \cup {"post2"} => row' = "installing")
        /\ (wpc' = "post2" => verdict' \in Idle)
        /\ (wpc' = "ended" => row' \in Idle)
        => HealthyInv'
    BY <1>0, <1>1 DEF HealthyInv, GoesWell, Up
  <1> USE DEF GoesWell, WaitPC, Confirming
  <1>3. CASE ReportRunnerStatus \/ CreateReturns \/ CreateKilled
    BY <1>1, <1>2, <1>3 DEF ReportRunnerStatus, CreateReturns, CreateKilled, watchVars
  <1>4. ~ \E s \in Status : LateReport(s)
    BY <1>1 DEF LateReport
  <1>5. CASE PostAccepted
    <2>1. CASE wpc = "post1"
      <3>1. row = "pending" /\ Recorded("installing") /\ wpc' = "open"
        BY <1>1, <1>5, <2>1 DEF PostAccepted, Report
      <3>2. row' = "installing"
        BY <3>1 DEF Recorded, Idle
      <3> QED
        BY <1>1, <1>2, <1>5, <3>1, <3>2 DEF PostAccepted, bootVars
    <2>2. CASE wpc = "post2"
      <3>1. row = "installing" /\ verdict \in Idle /\ Recorded(verdict) /\ wpc' = "ended"
        BY <1>1, <1>5, <2>2 DEF PostAccepted, Report
      <3>2. row' = verdict
        BY <3>1 DEF Recorded, Idle
      <3> QED
        BY <1>1, <1>2, <1>5, <3>1, <3>2 DEF PostAccepted, bootVars
    <2> QED
      BY <1>5, <2>1, <2>2 DEF PostAccepted, Posting
  <1>6. ~PostRetried /\ ~PostGivenUp /\ ~WaitTimesOut /\ ~TimePasses /\ ~HardStop
    BY <1>1 DEF PostRetried, PostGivenUp, WaitTimesOut, TimePasses, HardStop
  <1>7. CASE OpenLogs \/ FollowLogs \/ PollListener
    BY <1>1, <1>2, <1>7 DEF OpenLogs, FollowLogs, PollListener, bootVars
  <1>8. CASE ConfirmRunning
    BY <1>1, <1>2, <1>8 DEF ConfirmRunning, Conclude, IdleVerdict, Idle, bootVars
  <1> QED
    BY <1>3, <1>4, <1>5, <1>6, <1>7, <1>8 DEF WatchNext, Watch

\* Without trouble the runner stays up and its create is not undone, and the watcher is
\* over only when GARM has the runner idle: what BecomesIdle adds is that it gets there.
THEOREM HealthyEndsIdle ==
  Spec => [](mode.healthy => Up /\ create \notin {"rollback", "ended"} /\ (wpc = "ended" => row \in Idle))
  <1>1. Init => HealthyInv
    BY DEF Init, BootInit, HealthyInv, GoesWell, Up, WaitPC, Confirming
  <1>2. TypeOK /\ HealthyInv /\ [Next]_vars => HealthyInv'
    <2> SUFFICES ASSUME TypeOK, HealthyInv, [Next]_vars
                 PROVE  HealthyInv'
      OBVIOUS
    <2>1. CASE BootNext /\ UNCHANGED watchVars
      BY <2>1, BootStaysHealthy DEF TypeOK
    <2>2. CASE WatchNext
      BY <2>2, WatchStaysHealthy
    <2>3. CASE UNCHANGED vars
      BY <2>3 DEF vars, bootVars, watchVars, HealthyInv, GoesWell, Up
    <2> QED
      BY <2>1, <2>2, <2>3 DEF Next
  <1>3. HealthyInv =>
          (mode.healthy => Up /\ create \notin {"rollback", "ended"} /\ (wpc = "ended" => row \in Idle))
    BY DEF HealthyInv, GoesWell
  <1> QED
    BY <1>1, <1>2, <1>3, BootTypeCorrect, PTL DEF Spec

-----------------------------------------------------------------------------
(* Beside the reports of ExitReport. *)

\* A teardown comes when the create is over, in an unhealthy behaviour.
LaterInv ==
    /\ at \in [Teardown -> {"idle", "report", "remove", "done"}]
    /\ \A k \in Teardown : at[k] # "idle" => Trouble /\ create \in {"returned", "ended"}

\* A create that is over stays so, and no behaviour gets healthy again.
LEMMA OverStays ==
  ASSUME Trouble, create \in {"returned", "ended"}, Next
  PROVE  Trouble' /\ create' \in {"returned", "ended"}
  <1>1. CASE Deliver \/ RemoveContainer \/ DockerAnswers \/ SeedAppears
    BY <1>1 DEF Deliver, BeginFile, EndFile, WriteReadyMarker, DeliveryFails, VerifyRunning,
                RemoveContainer, DockerAnswers, SeedAppears, Trouble
  <1>2. CASE \/ Script \/ StepFails \/ Configure \/ Signal \/ MoveFails \/ RunnerEnds
             \/ EntrypointKilled
             \/ \E j \in Wait : WaitEnds(j)
    <2>1. UNCHANGED <<mode, create>>
      BY <1>2 DEF Script, FirstWait, SecondWait, Setup, InstallJit, StartConfig, WaitConfig,
                  MoveFile, LinkFile, SkipFile, ScrubFile, MoveDone, ScrubDone,
                  PrepareWorkdir, ExternalsGate, ExecAsRunner, RunnerProceeds, Configure,
                  ConfigWrites, ConfigEnds, StepFails, Signal, MoveFails, RunnerEnds,
                  EntrypointKilled, WaitEnds
    <2> QED
      BY <2>1 DEF Trouble
  <1>3. CASE WatchNext
    BY <1>3 DEF WatchNext, ReportRunnerStatus, CreateReturns, CreateKilled, LateReport,
                PostAccepted, PostRetried, PostGivenUp, Watch, OpenLogs, FollowLogs,
                PollListener, ConfirmRunning, WaitTimesOut, TimePasses, HardStop, bootVars,
                Trouble
  <1> QED
    BY <1>1, <1>2, <1>3 DEF Next, BootNext

\* Every step is one of StatusWatch, or leaves its variables alone.
LEMMA ReportStep ==
  ASSUME LaterInv, [ReportNext]_allVars
  PROVE  [Next]_vars /\ LaterInv'
  <1>1. CASE Next /\ UNCHANGED at
    BY <1>1, OverStays DEF LaterInv
  <1>2. CASE OtherLine \/ JobProceeds \/ \E m \in Marker : JobPoses(m)
    <2>1. UNCHANGED vars /\ at' = at
      BY <1>2 DEF OtherLine, JobProceeds, JobPoses
    <2> QED
      BY <2>1 DEF LaterInv, Trouble, vars, bootVars
  <1>3. ASSUME NEW k \in Teardown, ListRunner(k) \/ ReportRunner(k)
        PROVE  [Next]_vars /\ LaterInv'
    <2>1. UNCHANGED vars
      BY <1>3 DEF ListRunner, ReportRunner
    <2>2. Trouble /\ create \in {"returned", "ended"}
      BY <1>3 DEF ListRunner, ReportRunner, Later, LaterInv
    <2>3. at' = [at EXCEPT ![k] = "report"] \/ at' = [at EXCEPT ![k] = "remove"]
      BY <1>3 DEF ListRunner, ReportRunner
    <2> QED
      BY <2>1, <2>2, <2>3 DEF LaterInv, Trouble, vars, bootVars
  <1>4. ASSUME NEW k \in Teardown, RemoveRunner(k)
        PROVE  [Next]_vars /\ LaterInv'
    <2>1. Trouble /\ create \in {"returned", "ended"}
      BY <1>4 DEF RemoveRunner, LaterInv
    <2>2. /\ pc' = "removed" /\ at' = [at EXCEPT ![k] = "done"]
          /\ UNCHANGED <<mode, create, tmpfs, marker, docker, seeded, job, todo, disk, link, config, reached>>
          /\ UNCHANGED watchVars
      BY <1>4 DEF RemoveRunner
    <2>3. LaterInv'
      BY <2>1, <2>2 DEF LaterInv, Trouble
    <2>4. CASE pc = "removed"
      BY <2>2, <2>3, <2>4 DEF vars, bootVars
    <2>5. CASE pc # "removed"
      BY <2>1, <2>2, <2>3, <2>5 DEF RemoveContainer, BootNext, Next
    <2> QED
      BY <2>4, <2>5
  <1>5. CASE UNCHANGED allVars
    BY <1>5 DEF allVars, reportVars, vars, bootVars, LaterInv, Trouble
  <1> QED
    BY <1>1, <1>2, <1>3, <1>4, <1>5 DEF ReportNext

\* Reports only read, and a removal they come with is one the runner may always meet
\* (reportExitedRunner: "It is log-only").
THEOREM ReportsOnlyRead == ReportSpec => Spec
  <1>1. ReportInit => Init /\ LaterInv
    BY DEF ReportInit, LaterInv
  <1> QED
    BY <1>1, ReportStep, PTL DEF ReportSpec, Spec

\* So the runner and its watcher are as safe beside them as BootProofs says.
THEOREM SafeBesideReports ==
  ReportSpec => [](TypeOK /\ NoPartialSet /\ RunnerEquipped /\ EndsClean /\ IdleOnlyWhenReady)
  BY ReportsOnlyRead, BootTypeCorrect, PartialSetUnused, RunnerIsEquipped, EndLeavesNone,
     IdleNeverEarly, PTL

-----------------------------------------------------------------------------
(* The last marker of a log. *)

\* The largest element of a finite set of numbers.
LEMMA LargestIndex ==
  ASSUME NEW n \in Nat, NEW I \in SUBSET (1 .. n), I # {}
  PROVE  \E x \in I : \A y \in I : x >= y
  <1> DEFINE J == {k \in Nat : n - k \in I}
  <1>1. J \in SUBSET Nat /\ J # {}
    <2>1. PICK i \in I : TRUE
      OBVIOUS
    <2>2. n - i \in Nat /\ n - (n - i) = i
      OBVIOUS
    <2> QED
      BY <2>1, <2>2
  <1> HIDE DEF J
  <1> DEFINE Less == {ab \in Nat \X Nat : ab[1] < ab[2]}
  <1>0. IsWellFoundedOn(Less, Nat)
    BY NatLessThanWellFounded DEF OpToRel
  <1> HIDE DEF Less
  <1>2. PICK k \in J : \A j \in J : ~ (<<j, k>> \in Less)
    BY <1>0, <1>1, WFMin
  <1>3. \A j \in J : ~ (j < k)
    BY <1>1, <1>2 DEF Less
  <1>4. k \in Nat /\ n - k \in I
    BY <1>2 DEF J
  <1>5. ASSUME NEW y \in I PROVE n - k >= y
    <2>1. y \in Int /\ n - y \in Nat /\ n - (n - y) = y
      OBVIOUS
    <2>2. n - y \in J
      BY <2>1 DEF J
    <2>3. ~ (n - y < k)
      BY <2>2, <1>3
    <2> QED
      BY <2>1, <2>3, <1>4
  <1> QED
    BY <1>4, <1>5

\* What SelectLastInSeq finds.
LEMMA LastMarker ==
  ASSUME NEW s \in Seq(Line), NEW k, k = SelectLastInSeq(s, IsMarker)
  PROVE  \/ k = 0 /\ \A i \in 1 .. Len(s) : s[i] \notin Marker
         \/ /\ k \in 1 .. Len(s) /\ s[k] \in Marker
            /\ \A i \in 1 .. Len(s) : i > k => s[i] \notin Marker
  <1> DEFINE I == {i \in 1 .. Len(s) : IsMarker(s[i])}
  <1>1. k = IF I # {} THEN Max(I) ELSE 0
    BY DEF SelectLastInSeq
  <1>2. I \in SUBSET (1 .. Len(s)) /\ Len(s) \in Nat
    OBVIOUS
  <1>3. CASE I = {}
    BY <1>1, <1>3 DEF IsMarker
  <1>4. CASE I # {}
    <2>1. PICK x \in I : \A y \in I : x >= y
      BY <1>2, <1>4, LargestIndex
    <2>2. k \in I /\ \A y \in I : k >= y
      BY <1>1, <1>4, <2>1 DEF Max
    <2>3. k \in 1 .. Len(s) /\ s[k] \in Marker
      BY <2>2 DEF IsMarker
    <2>4. ASSUME NEW i \in 1 .. Len(s), i > k PROVE s[i] \notin Marker
      <3>1. i \in I => k >= i
        BY <2>2
      <3>2. ~ (k >= i)
        BY <1>2, <2>3, <2>4
      <3> QED
        BY <3>1, <3>2 DEF IsMarker
    <2> QED
      BY <2>3, <2>4
  <1> QED
    BY <1>3, <1>4

-----------------------------------------------------------------------------
(* What the tail of the log says of the phase. *)

\* The last marker in the tail is that of the phase or one the job wrote since, a completed
\* job is told by any copy of its marker that the job did not write, and a tail without a
\* marker is full unless there never was one.
TailInv ==
    /\ phase \in Phase
    /\ posed \subseteq Marker /\ (posed # {} => WithJob)
    /\ tail \in Seq(Line) /\ Len(tail) <= TailLines
    /\ \A i \in 1 .. Len(tail) :
         tail[i] \in Marker /\ (\A j \in 1 .. Len(tail) : j > i => tail[j] \notin Marker)
         => tail[i] \in {phase} \cup posed
    /\ \A i \in 1 .. Len(tail) : tail[i] = "job_completed" => "job_completed" \in {phase} \cup posed
    /\ pc # "removed" /\ phase # "before_listening" /\ Len(tail) < TailLines
       => \E i \in 1 .. Len(tail) : tail[i] \in Marker

Ended == pc \in {"exited", "killed", "removed"}

\* The phase is settled when a report reads the log: the runner has ended.
EndInv ==
    /\ at \in [Teardown -> {"idle", "report", "remove", "done"}]
    /\ phase # "before_listening" => pc = "listening" \/ Ended
    /\ \A k \in Teardown : at[k] = "report" => Ended
    /\ reported # "nothing" => Ended

ReportInv == TailInv /\ EndInv /\ ReportTrue

\* A runner that ended does not run again, and it listens once.
LEMMA RunnerGoesOn ==
  ASSUME Next
  PROVE  /\ Ended => Ended'
         /\ pc = "listening" => pc' = "listening" \/ Ended'
         /\ pc' = "listening" /\ reached' # reached => pc = "listener"
         /\ pc = "removed" => pc' = "removed"
  <1> USE DEF Ended
  <1>1. CASE Deliver \/ RemoveContainer \/ DockerAnswers \/ SeedAppears
    BY <1>1 DEF Deliver, BeginFile, EndFile, WriteReadyMarker, DeliveryFails, VerifyRunning,
                RemoveContainer, DockerAnswers, SeedAppears
  <1>2. CASE Script
    BY <1>2 DEF Script, FirstWait, SecondWait, Setup, InstallJit, StartConfig, WaitConfig,
                MoveFile, LinkFile, SkipFile, ScrubFile, MoveDone, ScrubDone, Goto,
                PrepareWorkdir, ExternalsGate, ExecAsRunner, RunnerProceeds
  <1>3. CASE \/ StepFails \/ Configure \/ Signal \/ MoveFails \/ RunnerEnds
             \/ EntrypointKilled
             \/ \E j \in Wait : WaitEnds(j)
    BY <1>3 DEF StepFails, Configure, ConfigWrites, ConfigEnds, Signal, MoveFails, RunnerEnds,
                EntrypointKilled, Up, WaitEnds, Goto, RunnerPC
  <1>4. CASE WatchNext
    BY <1>4 DEF WatchNext, ReportRunnerStatus, CreateReturns, CreateKilled, LateReport,
                PostAccepted, PostRetried, PostGivenUp, Watch, OpenLogs, FollowLogs,
                PollListener, ConfirmRunning, WaitTimesOut, TimePasses, HardStop, bootVars
  <1> QED
    BY <1>1, <1>2, <1>3, <1>4 DEF Next, BootNext

\* A line that is appended, the oldest making room.
LEMMA PutIntoTail ==
  ASSUME tail \in Seq(Line), Len(tail) <= TailLines, NEW l \in Line, PutLine(l)
  PROVE  /\ tail' \in Seq(Line) /\ Len(tail') <= TailLines /\ Len(tail') >= Len(tail)
         /\ Len(tail') > 0 /\ tail'[Len(tail')] = l
         /\ Len(tail') < TailLines => Len(tail') = Len(tail) + 1
         /\ \E d \in {0, 1} :
              /\ Len(tail') = Len(tail) + 1 - d
              /\ \A i \in 1 .. Len(tail') - 1 : i + d \in 1 .. Len(tail) /\ tail'[i] = tail[i + d]
  <1> USE TailAssumption DEF PutLine
  <1>1. CASE Len(tail) < TailLines
    <2>1. tail' = Append(tail, l)
      BY <1>1
    <2>2. /\ tail' \in Seq(Line) /\ Len(tail') = Len(tail) + 1 /\ tail'[Len(tail')] = l
          /\ \A i \in 1 .. Len(tail) : tail'[i] = tail[i]
      BY <2>1
    <2> QED
      BY <1>1, <2>2
  <1>2. CASE Len(tail) >= TailLines
    <2> DEFINE t == Tail(tail)
    <2>1. /\ t \in Seq(Line) /\ Len(t) = Len(tail) - 1
          /\ \A i \in 1 .. Len(t) : t[i] = tail[i + 1]
      BY <1>2
    <2>2. tail' = Append(t, l)
      BY <1>2
    <2> HIDE DEF t
    <2>3. /\ tail' \in Seq(Line) /\ Len(tail') = Len(t) + 1 /\ tail'[Len(tail')] = l
          /\ \A i \in 1 .. Len(t) : tail'[i] = t[i]
      BY <2>1, <2>2
    <2> QED
      BY <1>2, <2>1, <2>3
  <1> QED
    BY <1>1, <1>2

\* A line that is no marker leaves the last one the last.
LEMMA OtherPut ==
  ASSUME TailInv, PutLine("other"), phase' = phase, posed' = posed, pc' = pc \/ pc # "removed"
  PROVE  TailInv'
  <1> USE DEF TailInv
  <1>1. "other" \in Line /\ "other" \notin Marker
    BY DEF Line, Marker
  <1>2. /\ tail' \in Seq(Line) /\ Len(tail') <= TailLines
        /\ Len(tail') > 0 /\ tail'[Len(tail')] = "other"
        /\ Len(tail') < TailLines => Len(tail') = Len(tail) + 1
    BY <1>1, PutIntoTail
  <1>3. PICK d \in {0, 1} :
          /\ Len(tail') = Len(tail) + 1 - d
          /\ \A i \in 1 .. Len(tail') - 1 : i + d \in 1 .. Len(tail) /\ tail'[i] = tail[i + d]
    BY <1>1, PutIntoTail
  <1>4. Len(tail) \in Nat /\ Len(tail') \in Nat
    BY <1>2
  <1>5. ASSUME NEW i \in 1 .. Len(tail'), tail'[i] \in Marker,
               \A j \in 1 .. Len(tail') : j > i => tail'[j] \notin Marker
        PROVE  tail'[i] \in ({phase} \cup posed)'
    <2>1. i \in 1 .. Len(tail') - 1
      BY <1>1, <1>2, <1>4, <1>5
    <2>2. i + d \in 1 .. Len(tail) /\ tail'[i] = tail[i + d]
      BY <1>3, <2>1
    <2>3. ASSUME NEW j \in 1 .. Len(tail), j > i + d
          PROVE  tail[j] \notin Marker
      <3>1. j - d \in 1 .. Len(tail') - 1 /\ j - d > i /\ j - d + d = j
        BY <1>3, <1>4, <2>1, <2>3
      <3>2. tail'[j - d] = tail[j]
        BY <1>3, <3>1
      <3> QED
        BY <1>4, <1>5, <3>1, <3>2
    <2> QED
      BY <1>5, <2>2, <2>3
  <1>6. ASSUME NEW i \in 1 .. Len(tail'), tail'[i] = "job_completed"
        PROVE  "job_completed" \in ({phase} \cup posed)'
    <2>1. i \in 1 .. Len(tail') - 1
      BY <1>2, <1>4, <1>6
    <2> QED
      BY <1>3, <1>6, <2>1
  <1>7. ASSUME pc' # "removed", phase' # "before_listening", Len(tail') < TailLines
        PROVE  \E i \in 1 .. Len(tail') : tail'[i] \in Marker
    <2>1. d = 0 /\ Len(tail) < TailLines
      BY <1>2, <1>3, <1>4, <1>7, TailAssumption
    <2>2. PICK i \in 1 .. Len(tail) : tail[i] \in Marker
      BY <1>7, <2>1
    <2>3. i \in 1 .. Len(tail') - 1 /\ i + d = i
      BY <1>3, <1>4, <2>1
    <2> QED
      BY <1>3, <1>4, <2>2, <2>3
  <1> QED
    BY <1>2, <1>5, <1>6, <1>7 DEF WithJob

\* A marker is the last one: the runner's, of a new phase, or the job's.
LEMMA MarkerPut ==
  ASSUME TailInv, NEW m \in Marker, PutLine(m), m \in ({phase} \cup posed)',
         "job_completed" \in {phase} \cup posed => "job_completed" \in ({phase} \cup posed)',
         phase' \in Phase, posed' \subseteq Marker, posed' # {} => WithJob'
  PROVE  TailInv'
  <1> USE DEF TailInv
  <1>1. m \in Line
    BY DEF Line
  <1>2. /\ tail' \in Seq(Line) /\ Len(tail') <= TailLines
        /\ Len(tail') > 0 /\ tail'[Len(tail')] = m
    BY <1>1, PutIntoTail
  <1>3. PICK d \in {0, 1} :
          /\ Len(tail') = Len(tail) + 1 - d
          /\ \A i \in 1 .. Len(tail') - 1 : i + d \in 1 .. Len(tail) /\ tail'[i] = tail[i + d]
    BY <1>1, PutIntoTail
  <1>4. Len(tail') \in Nat /\ Len(tail') \in 1 .. Len(tail')
    BY <1>2
  <1>5. ASSUME NEW i \in 1 .. Len(tail'), tail'[i] \in Marker,
               \A j \in 1 .. Len(tail') : j > i => tail'[j] \notin Marker
        PROVE  tail'[i] \in ({phase} \cup posed)'
    <2>1. i = Len(tail')
      BY <1>2, <1>4, <1>5
    <2> QED
      BY <1>2, <2>1
  <1>6. ASSUME NEW i \in 1 .. Len(tail'), tail'[i] = "job_completed"
        PROVE  "job_completed" \in ({phase} \cup posed)'
    <2>1. CASE i = Len(tail')
      BY <1>2, <1>6, <2>1
    <2>2. CASE i # Len(tail')
      <3>1. i \in 1 .. Len(tail') - 1
        BY <1>4, <2>2
      <3> QED
        BY <1>3, <1>6, <3>1
    <2> QED
      BY <2>1, <2>2
  <1> QED
    BY <1>2, <1>4, <1>5, <1>6

-----------------------------------------------------------------------------
(* What a report says. *)

\* Whole or cut, the tail tells the phase, or what the job posed, or nothing
\* (classifyRunnerPhase).
LEMMA ReadsPhase ==
  ASSUME TailInv, pc # "removed", ReadLog
  PROVE  reported' \in {"unknown", phase} \cup posed
  <1> USE DEF TailInv
  <1>1. CASE reported' = Classify(tail, FALSE)
    <2> DEFINE k == SelectLastInSeq(tail, IsMarker)
    <2>1. \/ k = 0 /\ \A i \in 1 .. Len(tail) : tail[i] \notin Marker
          \/ /\ k \in 1 .. Len(tail) /\ tail[k] \in Marker
             /\ \A i \in 1 .. Len(tail) : i > k => tail[i] \notin Marker
      BY LastMarker
    <2>2. reported' = CASE k # 0                           -> tail[k]
                        [] k = 0 /\ Len(tail) < TailLines  -> "before_listening"
                        [] OTHER                           -> "unknown"
      BY <1>1 DEF Classify
    <2> HIDE DEF k
    <2>3. CASE k # 0
      BY <2>1, <2>2, <2>3
    <2>4. CASE k = 0
      BY <2>1, <2>2, <2>4
    <2> QED
      BY <2>3, <2>4
  <1>2. ASSUME NEW n \in 0 .. Len(tail), reported' = Classify(SubSeq(tail, 1, n), TRUE)
        PROVE  reported' \in {"unknown", phase} \cup posed
    <2> DEFINE s == SubSeq(tail, 1, n)
               k == SelectLastInSeq(s, IsMarker)
    <2>1. s \in Seq(Line) /\ Len(s) = n /\ \A i \in 1 .. n : s[i] = tail[i]
      OBVIOUS
    <2>2. k = 0 \/ k \in 1 .. n
      BY <2>1, LastMarker
    <2>3. reported' = IF k # 0 /\ s[k] = "job_completed" THEN s[k] ELSE "unknown"
      BY <1>2 DEF Classify
    <2> HIDE DEF k, s
    <2> QED
      BY <2>1, <2>2, <2>3
  <1> QED
    BY <1>1, <1>2 DEF ReadLog

\* Every step keeps what the tail and the reports say.
LEMMA ReportKeeps ==
  ASSUME ReportInv, [ReportNext]_allVars
  PROVE  ReportInv'
  <1> USE DEF ReportInv, EndInv, Ended, ReportTrue
  <1>1. CASE Next /\ LogFollows /\ UNCHANGED <<posed, at, reported>>
    <2>1. CASE reached' # reached /\ pc' = "listening"
      <3>1. pc = "listener"
        BY <1>1, <2>1, RunnerGoesOn
      <3>2. phase = "before_listening" /\ reported = "nothing"
        BY <3>1
      <3>3. phase' = "listening_no_job" /\ PutLine(phase')
        BY <1>1, <2>1 DEF LogFollows
      <3>4. posed = {} /\ posed' = {}
        BY <1>1, <3>2 DEF TailInv, WithJob
      <3>5. TailInv'
        BY <3>2, <3>3, <3>4, MarkerPut DEF Marker, Phase
      <3> QED
        BY <1>1, <2>1, <3>1, <3>2, <3>4, <3>5
    <2>2. CASE pc' = "removed"
      <3>1. tail' = <<>> /\ phase' = phase /\ posed' = posed
        BY <1>1, <2>2 DEF LogFollows
      <3>2. TailInv'
        BY <2>2, <3>1, TailAssumption DEF TailInv, WithJob
      <3> QED
        BY <1>1, <2>2, <3>1, <3>2 DEF WithJob
    <2>3. CASE pc' # "removed" /\ ~ (reached' # reached /\ pc' = "listening")
      <3>1. tail' = tail /\ phase' = phase /\ posed' = posed
        BY <1>1, <2>3 DEF LogFollows
      <3>2. pc # "removed"
        BY <1>1, <2>3, RunnerGoesOn
      <3>3. TailInv'
        BY <3>1, <3>2 DEF TailInv, WithJob
      <3> QED
        BY <1>1, <3>1, <3>3, RunnerGoesOn DEF WithJob
    <2> QED
      BY <2>1, <2>2, <2>3
  <1>2. CASE OtherLine
    <2>1. phase' = phase /\ pc' = pc /\ PutLine("other") /\ UNCHANGED <<posed, at, reported>>
      BY <1>2 DEF OtherLine, vars, bootVars
    <2> QED
      BY <2>1, OtherPut DEF WithJob
  <1>3. CASE JobProceeds
    <2>1. /\ pc = "listening" /\ pc' = pc /\ PutLine(phase') /\ UNCHANGED <<at, reported>>
          /\ phase' \in Marker /\ WithJob' /\ posed' = {}
      BY <1>3 DEF JobProceeds, vars, bootVars, Marker, WithJob
    <2>2. "job_completed" \in {phase} \cup posed => phase' = "job_completed"
      BY <1>3 DEF JobProceeds, TailInv, WithJob
    <2>3. TailInv'
      BY <2>1, <2>2, MarkerPut DEF Phase
    <2>4. reported = "nothing"
      BY <2>1
    <2> QED
      BY <2>1, <2>3, <2>4
  <1>8. ASSUME NEW m \in Marker, JobPoses(m)
        PROVE  ReportInv'
    <2>1. /\ pc = "listening" /\ pc' = pc /\ PutLine(m) /\ UNCHANGED <<phase, at, reported>>
          /\ WithJob /\ posed' = posed \cup {m}
      BY <1>8 DEF JobPoses, vars, bootVars
    <2>2. TailInv'
      BY <2>1, MarkerPut DEF TailInv, WithJob
    <2> QED
      BY <2>1, <2>2 DEF WithJob
  <1>4. ASSUME NEW k \in Teardown, ListRunner(k)
        PROVE  ReportInv'
    <2>1. /\ pc' = pc /\ UNCHANGED <<phase, tail, posed, reported>>
          /\ \/ at' = [at EXCEPT ![k] = "report"] /\ Ended
             \/ at' = [at EXCEPT ![k] = "remove"]
      BY <1>4 DEF ListRunner, vars, bootVars
    <2> QED
      BY <2>1 DEF TailInv, WithJob
  <1>5. ASSUME NEW k \in Teardown, ReportRunner(k)
        PROVE  ReportInv'
    <2>1. /\ pc' = pc /\ UNCHANGED <<phase, tail, posed>> /\ Ended
          /\ at' = [at EXCEPT ![k] = "remove"]
      BY <1>5 DEF ReportRunner, vars, bootVars
    <2>2. reported' \in {"unknown", phase} \cup posed \/ reported' = reported
      BY <1>5, ReadsPhase DEF ReportRunner
    <2> QED
      BY <2>1, <2>2 DEF TailInv, WithJob
  <1>6. ASSUME NEW k \in Teardown, RemoveRunner(k)
        PROVE  ReportInv'
    <2>1. /\ pc' = "removed" /\ tail' = <<>> /\ UNCHANGED <<phase, posed, reported>>
          /\ at' = [at EXCEPT ![k] = "done"]
      BY <1>6 DEF RemoveRunner
    <2>2. TailInv'
      BY <2>1, TailAssumption DEF TailInv, WithJob
    <2> QED
      BY <2>1, <2>2 DEF WithJob
  <1>7. CASE UNCHANGED allVars
    BY <1>7 DEF allVars, reportVars, vars, bootVars, TailInv, WithJob
  <1> QED
    BY <1>1, <1>2, <1>3, <1>4, <1>5, <1>6, <1>7, <1>8 DEF ReportNext

\* A report names the phase the runner reached or none, or else a marker that its job wrote
\* after the runner's latest (ADR-004), whatever scrolled out of the tail or was cut off it
\* and whoever removes the runner meanwhile.
THEOREM ReportsTrue == ReportSpec => []ReportTrue
  <1>1. ReportInit => ReportInv
    BY TailAssumption DEF ReportInit, Init, BootInit, ReportInv, TailInv, EndInv, Ended,
                          ReportTrue, Phase, WithJob
  <1>2. ReportInv /\ [ReportNext]_allVars => ReportInv'
    BY ReportKeeps
  <1>3. ReportInv => ReportTrue
    BY DEF ReportInv
  <1> QED
    BY <1>1, <1>2, <1>3, PTL DEF ReportSpec

-----------------------------------------------------------------------------
(* A runner that stopped before the inspect of confirmRunning. *)

\* Before the verdict of a wait, nothing idle is on its way to GARM.
NoIdleYet == verdict \notin Idle /\ late \cap Idle = {} /\ row \notin Idle

StillWatching == wpc \in {"none", "post1"} \cup WaitPC

\* What GARM records of a report is that report or what it had.
LEMMA RecordsReport ==
  ASSUME NEW s, Recorded(s)
  PROVE  row' \in {row, s}
  BY DEF Recorded

\* A watch that has come to its verdict waits no more.
LEMMA WaitsOnce ==
  ASSUME [Next]_vars, StillWatching'
  PROVE  StillWatching
  <1> USE DEF StillWatching, WaitPC, Confirming
  <1>1. CASE UNCHANGED watchVars
    BY <1>1 DEF watchVars
  <1>2. CASE ReportRunnerStatus \/ CreateReturns \/ CreateKilled \/ TimePasses \/ HardStop
    BY <1>2 DEF ReportRunnerStatus, CreateReturns, CreateKilled, TimePasses, HardStop, watchVars
  <1>3. CASE PostAccepted \/ PostRetried \/ PostGivenUp
    BY <1>3 DEF PostAccepted, PostRetried, PostGivenUp, Posting
  <1>4. CASE Watch \/ \E s \in Status : LateReport(s)
    BY <1>4 DEF Watch, OpenLogs, FollowLogs, PollListener, ConfirmRunning, WaitTimesOut,
                Conclude, LateReport
  <1>5. UNCHANGED vars => UNCHANGED watchVars
    BY DEF vars
  <1> QED
    BY <1>1, <1>2, <1>3, <1>4, <1>5 DEF Next, WatchNext

\* The watcher comes to an idle verdict by confirmRunning alone, while the runner is up;
\* without one, no report makes the row idle.
LEMMA NeverYet ==
  ASSUME NoIdleYet, [Next]_vars, StillWatching \/ ~Up
  PROVE  /\ NoIdleYet' \/ (Up /\ wpc' = "post2")
         /\ ~Up => ~Up'
  <1> USE DEF NoIdleYet, StillWatching, Idle, WaitPC, Confirming
  <1>1. CASE BootNext /\ UNCHANGED watchVars
    BY <1>1, RunnerGoesOn DEF Next, watchVars, Up, Ended
  <1>2. CASE WatchNext
    <2>1. UNCHANGED pc
      BY <1>2 DEF WatchNext, ReportRunnerStatus, CreateReturns, CreateKilled, LateReport,
                  PostAccepted, PostRetried, PostGivenUp, Watch, OpenLogs, FollowLogs,
                  PollListener, ConfirmRunning, WaitTimesOut, TimePasses, HardStop, bootVars
    <2>2. CASE ReportRunnerStatus \/ CreateReturns \/ CreateKilled \/ TimePasses \/ HardStop \/ PostGivenUp
      BY <2>1, <2>2 DEF ReportRunnerStatus, CreateReturns, CreateKilled, TimePasses, HardStop,
                        PostGivenUp, Posting, watchVars, Up
    <2>3. ASSUME NEW s \in Status, LateReport(s)
          PROVE  NoIdleYet' /\ wpc' = wpc
      BY <2>3, RecordsReport DEF LateReport
    <2>4. CASE PostAccepted \/ PostRetried
      <3>1. Report \notin Idle
        BY DEF Report
      <3>2. row' \in {row, Report} /\ late' \subseteq late \cup {Report} /\ verdict' = verdict
        BY <2>4, RecordsReport DEF PostAccepted, PostRetried
      <3>3. wpc \in {"post1", "post2"} /\ (wpc' = wpc \/ wpc' = "ended" \/ wpc = "post1")
        BY <2>4 DEF PostAccepted, PostRetried, Posting
      <3> QED
        BY <2>1, <3>1, <3>2, <3>3 DEF Up
    <2>5. CASE Watch
      BY <2>1, <2>5 DEF Watch, OpenLogs, FollowLogs, PollListener, ConfirmRunning,
                        WaitTimesOut, Conclude, Up
    <2> QED
      BY <1>2, <2>1, <2>2, <2>3, <2>4, <2>5 DEF WatchNext, Up
  <1>3. CASE UNCHANGED vars
    BY <1>3 DEF vars, watchVars, bootVars, Up
  <1> QED
    BY <1>1, <1>2, <1>3 DEF Next

\* A runner that is gone before the inspect is not recorded idle, then or ever after,
\* by whatever report (confirmRunning).
THEOREM StoppedStaysUnready == Spec => StoppedNeverIdle
  <1>1. Init => (StillWatching => NoIdleYet)
    BY DEF Init, NoIdleYet, Idle
  <1>2. (StillWatching => NoIdleYet) /\ [Next]_vars => (StillWatching => NoIdleYet)'
    <2> SUFFICES ASSUME StillWatching => NoIdleYet, [Next]_vars, StillWatching'
                 PROVE  NoIdleYet'
      OBVIOUS
    <2>1. StillWatching
      BY WaitsOnce
    <2> QED
      BY <2>1, NeverYet DEF StillWatching, WaitPC, Confirming
  <1>3. (NoIdleYet /\ ~Up) /\ [Next]_vars => (NoIdleYet /\ ~Up)'
    BY NeverYet
  <1>4. NoIdleYet => row \notin Idle
    BY DEF NoIdleYet
  <1>5. (~Up /\ wpc \in {"none", "post1"} \cup WaitPC) => ~Up /\ StillWatching
    BY DEF StillWatching
  <1> QED
    BY <1>1, <1>2, <1>3, <1>4, <1>5, PTL DEF Spec, StoppedNeverIdle

\* And so it is beside the reports.
THEOREM StoppedBesideReports == ReportSpec => StoppedNeverIdle
  BY StoppedStaysUnready, ReportsOnlyRead
=============================================================================
