# A verification development for garm-provider-docker

The provider is a GARM external provider: GARM starts one process per call
(`main.go`), the process makes a number of Docker API calls and exits with a
result. Nothing is kept between calls. Which instance exists, who owns it, how
old it is and when housekeeping last ran are all read from Docker: from labels,
from names the daemon keeps unique, from container states. Calls overlap without
any lock, GARM or the host can kill a process between any two Docker calls, and
a delete can race a create, a sweep, another delete and a retry of the create.
The modules here describe that state and those steps in TLA+, TLC checks them on
small instances, and TLAPS proves what matters most for instances of any size.

## The system

| Part | Source | State | Operations |
|---|---|---|---|
| Create | `internal/provider/create.go`, `runner_start.go`, `dind.go`, `internal/topology/create.go` | the nonce of the attempt, the runner's container ID (in the process); claim network, volumes, containers (in Docker) | sweep, claim, volumes, prepare, runner, sidecar, credentials, verify; rollback on any error |
| Delete | `internal/provider/delete.go`, `resolver.go` | none | resolve a name, tear its generation down |
| Orphan sweep | `internal/topology/sweep.go`, called by creates and lists | names, labels and exit times read so far | enumerate, judge each name, tear abandoned ones down |
| Teardown | `internal/topology/teardown.go`, `internal/provider/remove_all.go` | mode, captured claim nonce, current list | containers, volumes, network; a gate before each removal |
| Ownership | `internal/spec/labels.go`, `names.go`, `internal/topology/topology.go` | labels | the match predicate, filters, names |
| Housekeeping throttle | `internal/provider/throttle.go` | a never-started stamp container | claim a round |
| Cache volumes | `internal/topology/cache.go`, `internal/provider/cache.go`, `externals.go`, `internal/spec/cache.go` | labelled volumes shared by allocations and controllers | ensure by identity, revalidate, seed externals |
| Cache GC, helpers | `internal/provider/gc.go`, `internal/topology/gc.go`, `internal/spec/gc.go` | helper containers | report stale volumes, prune logs, reap leaked helpers |
| Status watcher | `internal/provider/status_report.go`, `status_watch*.go`, `internal/metadata/status.go` | a detached process | wait for the runner, report installing and idle to GARM |
| Runner entrypoint | `runner-images/common/entrypoint.sh` | files in the credential tmpfs | concurrent waits, start the runner, scrub |
| Get, Start, Stop | `internal/provider/get.go`, `start.go`, `stop.go`, `status.go` | none | look up, map the state |
| Exit and IO reports | `internal/topology/exitreport.go`, `dindio*.go` | none | say how far a stopped runner got, just before it is removed |
| Configuration | `internal/config`, `internal/extraspecs`, `internal/garmenv` | none | parse and bound |
| Credentials | `internal/metadata` | none | fetch over HTTP, build a tar |
| Docker | `internal/docker` | everything | the daemon (in tests, `fake.go`) |

The parts interact through the daemon only. A create sweeps before it claims, so
every create can take part in the teardown of any abandoned allocation of the
controller, and a cache volume is shared by all creates that need it; the network of an instance is at once the job's network, the mutual
exclusion between two creates of one name, and the age by which a sweep judges
it. The network goes last in a teardown because of that second role.

What is hard, and what must hold all the same:

- *Overlapping calls.* A delete and a sweep of one instance while GARM already
  retries the create under the same name. No teardown may take anything of the
  newer generation, and the teardown must still leave nothing of its own.
- *Kills and failed calls.* An allocation half made, or half removed, with no
  process that knows of it, must be collected in the end, and a teardown that
  failed somewhere must say so.
- *Reads that are old when they are used.* The sweep judges one generation and
  tears down by name; a leftover is checked and then removed; a stamp is
  inspected and then replaced.
- *What the daemon does on its own.* It re-creates a missing named volume
  without labels, refuses to remove what is in use, and resolves a network by
  its name when a container starts.
- *Ages instead of knowledge.* The reaper of helper containers cannot know whether
  the process that made a helper still waits for it. It looks at the state of the
  container and at a label that was stamped before the container was made.
- *Sharing.* Several controllers use one host, and their instances can have the
  same name. Several creates share a cache volume, which one of them seeds while
  the runners of others already mount it.
- *Inside the container.* The credentials arrive file by file while the entrypoint
  polls for them, next to a wait for the DinD daemon; config.sh writes them to
  disk, from where they must vanish on every way out.
- *Reports.* GARM must see a runner as idle only if it is; the report is retried,
  can arrive late, and the runner can stop between the evidence and the report. What
  is logged of a runner that stopped is read from the end of its log, while others
  remove the container.

`PROJECT.json` lists each hazard at its line with the properties that cover it.

## Modules

`Daemon` is Docker as the provider uses it. A *generation* is one attempt of a
create, named by its create-nonce; a resource is a pair of generation and kind
(network, three kinds of volume, runner, the runner of the IPv6 retry, sidecar).
The pair stands for the Docker ID and for the labels. Its effects
(`NetworkCreated`, `ContainerCreated`, `Removed`, `RemoveRefused`, ...) are those
`internal/docker/fake.go` and `client.go` document. Two differences from the fake
are the daemon's own behaviour, which the comments of `fake.go` describe: a
network is in use only while an attached container runs, and a container's ID,
not its name, is what a removal uses. `stray` holds the volumes that the daemon
re-created without labels. Ages and exit ages saturate at the two graces, the
only thresholds the code compares them with.

`Allocation` adds the provider's processes: `pc` is the next daemon call, `gen`
the nonce a create drew, `mode`, `captured`, `todo`, `hand` the scope and lists
of `teardownScope` and `runTeardown`, `names`, `cur`, `noted` the locals of the
sweep. One action is one daemon call with the decisions the code takes on its
answer:

| Action | Code |
|---|---|
| `CreateClaimNetwork`, `ClassifyConflict`, `RemoveOwnNetwork` | `topology/create.go`: claim, classification of a 409, removal after an ambiguous error |
| `CreateVolume`, `Prepare`, `CreateRunner`, `StartRunner`, `DropRejectedRunner`, `CreateDind`, `StartDind`, `DeliverCredentials`, `VerifyRunner`, `VerifyDind` | `CreateInstance` after the claim, in its order |
| `Guarded`, `CreateFails` | the `guarded` closure: rollback by nonce |
| `EnumerateInstanceNames`, `SweepContainers`, `SweepNetworks`, `SweepVolumes`, `InspectRunner`, `SweepDone` | `SweepOrphans`, `sweepInstance` |
| `CaptureGeneration`, `ListContainers`, `ListVolumes`, `ListNetworks`, `CheckLeftover`, `StopContainer`, `RemoveContainer`, `RemoveVolumeOrNetwork`, `TeardownDone` | `teardown.go` |
| `ResolveContainers`, `ResolveNetworks`, `ResolveVolumes` | `resolveInstanceName` |
| `Killed` | the process ends between two calls |
| `ContainerExits`, `Tick` | the host |

`settled` is a history variable: whether no create of the captured generation was
running when the teardown read its nonce. Without it `TeardownLeavesNothing`
would ask a teardown to remove what a running create has not made yet.

`Collect` puts over `Allocation` what a call that cleans up owes. Its history variable
`doomed` remembers, for each process, what was due when its call began: for a delete
the generations of its name, for the sweep of a list or create those past both
deadlines without a running runner (`PastGrace`), for `RemoveAllInstances` all of the
controller, in each case those whose create is over. `CollectsWhatIsDue` says that a
call which met no failure leaves nothing of them. It is about generations that are
`Alone` under their name: the second generation of a name may be captured, judged or
spared in place of the first, which is the first finding seen from the other side.
`doomed` forgets the others, and everything when the call ends or fails; nothing reads it, and
`HistoryOnly` (`CollectProofs`) proves that without it the behaviour is one of `Allocation`.

`NameClaim` is what all this amounts to for a name: the claim is a lock. A
generation takes it once at most, while nobody else of that name holds it, and
only the create that drew a generation adds to it, never after that create came to its
guard or its end (`open`). `Allocation` implements it under the mapping `phaseOf` (fresh
until the nonce is drawn, held while the claim network exists, spent afterwards),
`openOf` (the generations whose create is at work) and `equippedOf` (those with other
resources). The lock does not stop a holder who lost it: a create whose claim a delete
took away goes on adding until a call tells it so, which is why `Equip` asks for an open
generation and not for a held one.

`ThrottleStamp` is the protocol by which the sweep and cache-GC passes are rate
limited: inspect the stamp, remove it by ID, build a label, create by the fixed
name. `lastRound` is a history variable. `RateLimit` is what the protocol promises,
without stamps or processes: a round may begin once `Gap` has passed since the last
one. `Limit` in `ThrottleStamp` is the refinement mapping, where `Gap` is the
interval less the time a create can take.

`CacheVolume` is one cache of the host and the creates that use it. A slot is a
volume name: the preferred one, then the alternates. `vol` is the volume at each
slot (whether it has the labels of the cache, how much of its tree is there,
whether the seed marker is), `lock` the flock inside it, `helper` and `runner`
each create's containers.

| Action | Code |
|---|---|
| `Discover`, `EnsureSlot`, `Alternate`, `GivesUp` | `EnsureCacheVolume` |
| `CreateHelper`, `CheckHelperVolume`, `StartHelper`, `WaitHelper`, `RemoveHelper` | `seedExternals`, `runHelperContainer` |
| `HelperCreateLost` | the helper is created, its ID never arrives, and nobody removes it |
| `TakeLock`, `CopyDone`, `WriteMarker`, `HelperBreaks` | `externalsSeedScript` |
| `ReapHelper` | `reapLeakedHelpers`, for a helper that ended or that nobody waits for |
| `CreateRunner`, `Revalidate`, `DropRunner`, `StartRunner` | `createAndStartRunner`, `revalidateReferencedCaches` |
| `PassGate`, `RunnerExits` | `wait_for_externals_seeded` |
| `OperatorPrunes`, `SquatterComes`, `SquatterLeaves` | everybody else on the host |

`Housekeeping` is the cache GC beside the creates of `CacheVolume`, of which it has
an instance (`Cache`). `ReapHelper` of `CacheVolume` is what a reaper may do: take a
helper that ended or that nobody waits for. `Housekeeping` is what the code does:
helpers have an `age`, contexts end, and several passes list, judge and remove. The
property `CacheSpec` says that this implements `CacheVolume`, the reaping being its
`ReapHelper` and everything else of the GC a stutter.

| Action | Code |
|---|---|
| `ListHelpers`, `Reap`, `ReapingEnds` | `reapLeakedHelpers` with `helperReapable` and `helperReapMax` |
| `ListDiag` | `ListDiagVolumes` and the claim of the round in `pruneDiagVolumes` |
| `CreatePrune`, `CheckPrune`, `StartPrune`, `WaitPrune`, `PruneFails`, `RemovePrune` | `pruneDiagVolume`: `runHelperContainer` with `ValidateDiagPruneTarget` as its hook |
| `PruneWorks` | `find -delete` in the helper |
| `SeedBegins`, `SeedExpires`, `Tick` | label and context of a seed helper; the clock |
| `CacheStep` | the steps of `CacheVolume` other than its reaping |
| `PassDies`, `DiagChanges` | a kill; an operator or an allocation changes the diag volume |

`Entrypoint` is the inside of one runner container and the part of the create that
feeds it. `tmpfs`, `disk` and `link` are the credential files in `/run/garm`, in
the install directory, and the symlinks there; `pc` is the function of
`entrypoint.sh` that runs, `job` its two background waits, `config` the background
`config.sh`. The delivery (`BeginFile`, `EndFile`, `WriteReadyMarker`) is the
extraction of the archive `withReadyMarker` builds, one file after the other.
`FirstWait` and `SecondWait` are the two `wait -n`; `StartConfig` to `ScrubDone`
are `install_non_jit_registration` with its traps.

`StatusWatch` extends `Entrypoint` with the watcher: `wpc` follows
`runStatusWatch`, `OpenLogs`, `FollowLogs`, `PollListener` and `ConfirmRunning`
are `waitRunnerListening` and what it calls, `PostAccepted`, `PostRetried`,
`PostGivenUp` are `postStatus`. `row` is what GARM has recorded and `late` the
reports still under way. `mode` holds what a behaviour does not change: the JIT
path, a DinD daemon, readable logs, a detached watcher, and whether anything fails
(`healthy`).

`ExitReport` extends `StatusWatch` with the end of the runner's life. `OtherLine`,
`JobProceeds`, `JobPoses` and `LogFollows` are what the runner and its job print and the
tail the daemon keeps of it; `ListRunner`, `ReportRunner` and `RemoveRunner` are the steps of a delete
(`reportStoppedRunners`) and of a sweep (`reportExitedRunner`) that race for the
container; `ReadLog` is `runnerLogTail` with its two caps and `Classify` is
`classifyRunnerPhase`. A job can write a line that looks like a marker, and ADR-004 admits
that this "can misclassify the phase": `JobPoses` does so, and `posed` remembers which
markers a job has written since the runner printed its own latest. `ReportTrue` says
that this is the only way a report can be wrong: it names the phase, or none, or such a
marker, and of a runner that had no job it never says anything wrong.

`AllocationProofs`, `TeardownProofs`, `SweepProofs`, `CollectProofs`, `ThrottleProofs`,
`CacheProofs`, `HousekeepingProofs` and `BootProofs` hold the theorems.
`MCAllocation`, `MCCollect`, `MCCache` and `MCBoot` define the finite instances;
the constants of `Housekeeping` and `ThrottleStamp` are given in their `.cfg`.

### What is abstracted

- Cache planning, image pulls, the credential fetch and the externals seed are
  the one step `Prepare`, which can take any time and can fail. A failed
  revalidation of the caches removes the runner and rolls back; rollback alone
  ends in the same state.
- `createFreshVolume` has branches for a volume of that name which is already
  there. The name holds the fresh nonce, so in the model they cannot be reached,
  and they are left out.
- The IPv6 sysctl is refused at the start of the runner. A refusal at its create
  leaves no container and takes the same retry.
- Enumerating the names is one step although the code makes three lists; each
  name is read again before anything is decided. Resolving an instance by its
  runner and by any container is one list. The list and the removal in
  `bestEffortRemoveOwnNetwork` are one step; the nonce makes the list exact.
- In the throttle, an operator who prunes the stamps is left out (every stamp
  removal is then a fresh start), and so is a clock that goes backwards, except
  that the stamp found at the start may carry any time.
- `CacheVolume` has one cache, the externals; the others take the same steps
  without the seed. The order of slots stands for the order of names by which
  the reuse by identity picks one. The daemon copies the image's own content of
  a path into an empty volume that a container mounts there. At the path of the
  seed the image has nothing; at that of the runner it would add, without the
  marker, the tree the seed copies. That is left out. A helper is
  reaped while it may still work only if its provider no longer waits for it, which
  `Housekeeping` shows of the ages the code uses. A squatter may hold anything, a file of the
  marker's name included.
- In `Housekeeping` ages saturate at `RunningMaxAge`, and the age at which a
  helper appears is anything its context allows, since the label is stamped before
  the create call. `Lag` is how much later than its deadline a process
  leaves `runHelperContainer`. A created-at label always parses. One
  diag volume stands for all, each pruner has one prune helper, and the volume changes
  only while a pass is about to list or pin it; after the last prune it is
  forgotten. `Stuck` are old helpers of any origin whose removal always fails. A
  pass that is not in `Unlucky` has no failing call and is not killed. The stale and
  unprovable volumes of the GC are only logged.
- In `Entrypoint` bash is process 1 of its container (the provider sets no init),
  so a signal without a trap is ignored. Setup commands that have no state of
  interest are one step that can fail. Removing the container, by rollback or
  delete, takes its writable layer along, and can happen at any time. `EntrypointKilled` is SIGKILL or the OOM killer: no
  trap runs, and credentials that are on disk by then stay there until the container is
  removed. No property says otherwise (`EndsClean` is about ends by the script itself and by
  trapped signals), and the code does not claim it.
- In `StatusWatch` time is three intervals: before the deadline, within the grace,
  after the hard stop. Which transitions GARM refuses is taken from
  `docs/live-gate-runs.md` and the comments of `runStatusWatch`: no idle from
  pending; whether idle can go back to installing is left open. A
  watcher that cannot be started, or that refuses its request, is one that never
  starts.
- In `ExitReport` the steps it adds begin when the create and its watch are over
  (`Later`), there is one delete and one sweep, lines that are no marker are
  printed while the runner runs, and a job writes markers only while the runner still
  listens. Only runners of a set-up in `Followed` are followed that far, which bounds
  the runs: a DinD daemon, unreadable logs of the watcher and the kind of watcher make no
  difference to what a report reads. The proofs are for any `Followed`. The byte cap leaves
  any prefix of the tail. Exit codes, wording and log levels are left out.

## Runs

| Run | What it checks | Bounds |
|---|---|---|
| `race` | types, `OwnershipInv`, `SparesLaterClaim`, `ClaimGoesLast`, `CollectsWhatIsDue`, `ClaimIsLock` (`NameClaim` implemented) | two generations of one name, two processes, create, delete, list |
| `peers` | `SuccessMeansWhole` | two names, two creates that sweep each other |
| `controllers` | `TouchesOnlyOwn`, `TeardownLeavesNothing` | two controllers with the same instance name, one with `privileged-sidecar`, one with `sysbox-runc`, all four calls, IPv6 retry, one mishap |
| `collected` | `EventuallyCollected`, `SweepSparesYoung`, `CollectsWhatIsDue` under `FairCollectSpec` | one generation, two processes, one mishap, create and list, the in-flight grace longer than the exited one |
| `sweep_reuse` | finding, see below | as `race` |
| `stray_volume` | finding, see below | one generation |
| `cache_faults` | types, `MountInv`, `RunnerMountsOwnCache`, `RunsOnWholeTree`, `SeedsOnlyCaches` | three creates, two slots, failures, kills, prunes and squatters without bound |
| `cache_slots` | `OneCacheVolume`, `FailsOnlyWhenFull`, `GateOpens` under `FairSpec` | two creates, three slots, prunes, squatters that stay, no failures |
| `housekeeping` | types, `PrunesWhatItListed`, `SparesAwaited`, `CacheSpec` (`CacheVolume` implemented), `LeakedHelpersGo` under `FairSpec` | one create, two passes, the pruner one that fails and dies, one helper that cannot be removed, two repositories, a cap of one |
| `boot` | types, `NoPartialSet`, `RunnerEquipped`, `EndsClean`, `IdleOnlyWhenReady`, `StoppedNeverIdle`, `ReportTrue`; `EntrypointSettles`, `BecomesIdle`, `WatcherEnds` under `ReportFairSpec` | two credential files and the token, one retry, a tail of two lines, every mode (the exit reports: without DinD, logs readable, watcher detached) |
| `scrub_race` | finding, see below | as `boot` |
| `throttle` | types, `StampInv`, `RateLimited` (`RateLimit` implemented), `FreshStampKept`, `NoStampBlocks` under `FairSpec` | three processes, interval 3, create delay 1, skew 1, clock to 5 |

A mishap is a failed daemon call or a killed process; `MaxMishaps` bounds both
together, and a failed create or remove may or may not have taken effect where the
daemon leaves that open. Two processes are enough for the races: each hazard listed
is between one teardown and one create, or two teardowns. Two generations of one
name are the old and the new one; a third would only repeat the second. Graces of
one tick distinguish young from old; `collected` takes two and one so that the order
of the two thresholds matters. The clock of `throttle` lets a second
round end an interval after the first and a third one begin (rounds may be two ticks
apart there). In
`cache_faults` a create can be the seeder, the peer that finds a half seeded volume,
and the runner that waits, which is why there are three; in `cache_slots` the third
slot makes the difference between the first alternate and the last. Two credential
files are enough for a set to be partial, and one retry for a report to be sent
twice. In `housekeeping` the limits are the least that obey
`HousekeepingAssumption`: a wedged helper is one tick older than the seed may take.
The unlucky pass leaves its prune helper to the lucky one, each can reap beside the
other, and with a cap of one the helper that cannot be removed would use up every
pass if failures counted. A tail of two lines can hold a marker, lose it to later
lines and be cut between two markers. Deadlock is checked in every run but three:
the creates of `cache_slots` end, and so do the container and the watcher of `boot`
and `scrub_race`.

`GarmCalls` lets GARM issue any call at any time to an idle process. A create
needs an unused nonce (`NoncesLeft`); that is the bound on creates.

`SuccessMeansWhole` is about creates and lists only: a delete, or GARM's own
timeout, may of course take an instance apart while its create is running. It
excepts a runner that passes its last check, exits, and is past the exited grace
before the create has looked at the sidecar: a sweep may remove that one. The
theorem needs the exception; the run, which has no sidecar, does not.
`SweepSparesYoung` runs with one generation; with two of a name it fails, which is
the first finding. `YoungSpared` is about any number of names with one each.

In `controllers` each controller has one process, which keeps the run small. So
teardowns of one controller that overlap, and a late runner on the network of a newer
generation, are in `race` for the other properties, and for `TeardownLeavesNothing` in
the theorem `NothingLeft` only. `cache_slots` has no failures, so that `OneCacheVolume`
with a helper whose create was lost is in the theorem `OneVolume` only.

`CollectsWhatIsDue` runs with deletes and lists of two generations (`race`) and with
failures and different deadlines (`collected`); its clause about `RemoveAllInstances` is
proved (`DueIsCollected`) and no run takes the time for it.

**Fairness.** `FairSpec` assumes that a process which has started goes on to its
end, that GARM keeps issuing lists (it does so on every consolidation pass), that
running jobs end, and that time passes. No fairness on creates or deletes, and none
on kills. `EventuallyCollected` has no deletes at all: a create that was killed, or
that a sweep took apart while it ran, is collected by later sweeps alone. It is over
labelled resources; the nonces run out, so creates end. In `CacheVolume` providers,
seed scripts and the gate's polling go on; an operator and a squatter never have to.
In `Housekeeping` time passes, contexts end (`SeedExpires`), and passes come again,
since GARM lists for ever; `LeakedHelpersGo` needs one pass that is not unlucky,
which stands for the fact that failures do not last. Creates, seeds and prunes need
no fairness: a helper goes although its work never ends. In `ThrottleStamp` GARM keeps
calling, every process ends, and processes may fail at any step but not all at the same
step for ever; time may stop. `NoStampBlocks` also supposes that the runner image stays on
the host from some time on: without it no pass asks for a stamp, they run unthrottled. In `ExitReport` nobody has
to come for a runner. In `StatusWatch` the script goes on, its waits time out, and
clocks run whatever happens. The delivery, the DinD daemon, the seed, Docker's
answers to the watcher and GARM's are only fair in a healthy behaviour, so
`EntrypointSettles` and `WatcherEnds` hold although any of them hangs, and
`BecomesIdle` says what happens if none does. The script has no timeout for
`config.sh`, nor for one `docker info` of `wait_for_docker_ready`, whose timeout is
looked at between two of them: that both return is assumed.

## Findings

1. *A sweep can tear down a young generation* (`sweep_reuse`). `sweepInstance`
   judges an instance name by the resources it listed and then calls
   `TeardownAllocation`, which reads the claim nonce anew. If a delete removed the
   judged generation and a create claimed the name in between, the captured nonce
   is that of the young generation. ADR-004 says the sweep skips every allocation
   whose marker is younger than the deadline.
2. *A delete during a create can leave a volume for ever* (`stray_volume`). The
   delete removes the workspace volume, `ContainerCreate` re-creates it without
   labels, and rollback, delete and sweep select by label. ADR-004 says that all
   of an allocation must be removed.
3. *A signal can leave credentials on disk* (`scrub_race`). The trap of HUP, INT and
   TERM removes the credential files and exits. `config.sh` runs in the background
   and is neither signalled nor waited for, so it can write a file after the
   removal and before the container ends. The comment of
   `install_non_jit_registration` says that no failure path leaves credentials on
   the writable layer. `EndsClean` holds for every other end but SIGKILL, and the layer goes
   when the container is removed.

## Proofs

For every value of the constants that satisfies `DaemonAssumption` and
`AllocationAssumption` (the maps of generations to names and controllers have
their types, the graces are positive, `None` is a value of its own):

- `TypeCorrect`: `Spec => []TypeOK`.
- `OwnershipHolds`: `Spec => []OwnershipInv`. The invariant is inductive together
  with the types and has four parts. `NoncesDrawn`: whatever exists was drawn as a nonce
  by a process of its controller, so a fresh nonce has no resources. `OneClaim`:
  the daemon refuses a second network of a name. `InPhase`: what a process
  holds at each point of its call. `Entitled`: what is on a teardown's list has
  passed the gate of its mode, and a leftover in hand has no claim, and never gets
  one again, since nonces are drawn once. The last part is why a check
  made before the removal is still good at the removal.
- `LaterClaimSpared` and `OnlyOwnTouched`: `SparesLaterClaim` and
  `TouchesOnlyOwn` follow step by step from `OwnershipInv`.
- `ClaimsLock` (`TeardownProofs`): `Allocation` implements `NameClaim`. Each step moves the
  phase of one generation at most, or equips or strips one, or ends one create
  (`OneEffect`). That two of a name are never held is `OneClaim`; that only an open
  generation is equipped follows from what a create adds, which carries its own nonce
  (`CreateOpens`), and that a fresh one has nothing is `NoncesDrawn`.
- `SettledHolds`, `NothingLeft` and `ClaimIsLast` (`TeardownProofs`). A teardown
  works from lists that are old when it uses them, while other teardowns
  remove the same things. `SettledInv` says why that is enough once the create
  is over. `OneHolder`, `Holds`: a nonce is held by one process, in its create; so after that
  nothing of the generation appears, and what one list showed is all there
  is. `Aimed`: the filter of the lists selects the whole generation. `OneKind`,
  `Scheduled`: whatever is left is on the list in hand or of a kind whose list
  is still to come, unless an error has been noted. When the last list is empty,
  nothing is left.
- `SweepInvHolds`, `YoungSpared` and `SuccessIsWhole` (`SweepProofs`). A sweep reads
  ages in several calls and acts on them much later. `SweepInv` says why it is right
  all the same. `ClaimOldest`: the claim is made first and all ages grow alike, so
  when everything a sweep read is past the deadline, the claim is too. `RunnerInv`:
  an exited runner never runs again, and a generation has one running runner at
  most, the IPv6 retry included, so an exit time stays. `Judged`: a sweep's teardown
  works on the name it judged. Hence `SweepSparesYoung`, if no controller
  uses a name for two generations (`OneGeneration`; the first finding is what happens
  otherwise). If besides no call is a delete or a removal of everything (`OnlySweeps`),
  nobody but the create itself takes anything of its generation away before the
  deadlines (`InPlace`), which is `SuccessMeansWhole`.
- `YoungTakenByReuse` and `StraysAreLate` (`SweepProofs`) are the other side of the
  first two findings. Without any condition, a sweep takes apart a young generation only
  if another one of the same name, past its deadlines, was there before it: the
  sequence of `sweep_reuse` is the only one. And under the two conditions of
  `SuccessIsWhole`, a volume without labels (`stray`) belongs to a generation past its
  deadlines: without a delete or a removal of everything, only a sweep of a create that
  outlived its deadline leads to what `stray_volume` shows.

- `NothingSlipsPast`, `DueIsCollected` and `NothingComesBack` (`CollectProofs`). A sweep
  makes four lists at different times, between which other teardowns take things away
  and everything ages; a delete looks for a name that a peer is removing. Once
  its create is over a generation only shrinks and ages (`NothingComesBack`), and so does
  what is due: past its deadlines it stays past them. `CollectInv` says that whatever is
  left of what was due has its list to come, was noted, or is on the list in hand
  (`OnTheWay`), and that the locals of the call still fit it (`Bound`). Hence a sweep
  can judge the name only as abandoned, a delete can miss it only when nothing is left,
  no leftover check fails, since nobody else holds the claim, and the daemon refuses no
  removal, since the containers are gone by then. This is the safety core of
  `EventuallyCollected`, which adds that such a call comes.

For every value that satisfies `ThrottleAssumption`:

- `ThrottleTypeCorrect`, `StampStands`, `StampsLimitRate`, `FreshStampStays`. The
  inductive invariant `StampInv` says that IDs are never reused, that a process
  about to remove by ID inspected a stamp that had expired, and that the stamp of
  the last round is there while its interval lasts. From it, a create can only
  succeed once the interval, less the age a label has when its container
  appears, is over: the protocol implements `RateLimit`, a step that creates a stamp
  being its `Round`.

For every value that satisfies `CacheAssumption`:

- `CacheTypeCorrect`, `MountsHold`, `OwnCacheMounted`, `WholeTreeSeen`,
  `ForeignVolumesUnwritten`. The inductive invariant is `TypeOK /\ MountInv`.
  `MountInv` relates a volume to who uses it: a container pins the volume of its
  slot, so from the check after the pin to the removal it stays the validated
  one; only the holder of its lock copies into a volume, and a marked volume is
  whole and nobody copies into it. `RunsOnWholeTree` alone is not inductive: it
  needs the marker, which needs the lock.
- `OneVolume`: while squatters stay (`~SquattersLeave`), there is never a second
  volume of the cache. `SlotInv` says that every slot below the one an ensure has
  reached is occupied by somebody else, and stays so, and likewise below a
  volume that is the cache: the first free slot is the same for all. A squatter that
  leaves makes room for a second volume, so the condition is needed.
- `FullWhenFailed`: if besides no call fails (`~Faults`), an ensure fails only
  when every slot it may try is occupied.
- `GateHasSeeder`: without failures again, a runner at the gate has the marker in its
  volume, or some create of the same slot whose seed goes on. `SeedInv` says so of
  every volume in use: one without marker has somebody who is about to copy, or to look
  for the lock, and a lock has its copier. This is the safety core of `GateOpens`.

For every value that satisfies `HousekeepingAssumption`, of which the part that
matters is `SeedTimeout + Lag < RunningMaxAge` and `PruneTimeout <= SeedTimeout` (in
the code 10 and 2 minutes, and the running age is the seed timeout plus 5 minutes, so a
process may be almost 5 minutes late):

- `ReapInvariant`, `ImplementsCache`, `AwaitedSpared`, `PrunesListed`. The invariant
  `ReapInv` has, besides types, four parts. `YoungInv`: a helper somebody waits for
  is younger than a wedged one. `OnceInv`: a helper is made once. `ListedInv`: so
  what a pass has listed as reapable stays so, although its list grows old: it has
  ended, or its process will not come back to it. `PinInv`: a prune helper that is to be
  started, or runs, pins the volume that was listed.
- `HousekeepingTypeCorrect`: besides the types `ReapInv` needs (`ReapTypeOK`),
  those of the diag volume and of the counts, which stay below the cap.
- `CachesBesidePasses`: hence what `CacheProofs` proves of runners and their caches
  holds with any number of passes reaping beside them.

For every set of credential files, a token that is none of them
(`EntrypointAssumption`), every number of retries (`RetryAssumption`) and every
length of the tail (`TailAssumption`):

- `BootTypeCorrect`, `WatchHolds`, `PartialSetUnused`, `RunnerIsEquipped`,
  `EndLeavesNone`, `IdleNeverEarly`. The inductive invariant is `WatchInv`, with
  four parts of the entrypoint below it. `WaitInv`: a wait that succeeded means a
  marker, a marker means a whole set. `DiskInv`: a credential on disk is still on
  the list of the move or the scrub. `LinkInv`: a link is made for each file that
  arrived on the tmpfs. `ReachInv`: the runner is past the gate. Above them,
  `WatchInv` says that evidence precedes the verdict and the verdict every copy of
  the report that can still arrive. `EndsClean` alone is not inductive: that the
  scrub empties the disk needs the list, and that the list is complete needs the
  phase in which config.sh can write.
- `StoppedStaysUnready`: `StoppedNeverIdle`, an always within an always. Two
  invariants, one after the other: while the watcher waits, nothing idle is in its
  verdict, on its way or recorded (`NoIdleYet`); and once the runner has stopped that
  stays so for ever, since `ConfirmRunning` is the only step to an idle verdict.
  `StoppedBesideReports` says it of the specification that `boot` checks.
- `HealthyEndsIdle`: while nothing fails, the runner is up, its create is not undone, and
  the watcher is over only when GARM has the runner idle. The invariant `HealthyInv`
  follows the row in GARM from pending over installing to idle; no report is late and
  no wait fails. This is the safety core of `BecomesIdle`.
- `ReportsOnlyRead` and `SafeBesideReports`: runner and watcher with the exit
  reports of `ExitReport` beside them are a behaviour of `StatusWatch` (the removal a
  report precedes is one of those `Entrypoint` allows at any time; the other steps
  stutter), so the theorems above hold of the specification that `boot` checks.
- `ReportsTrue`: `ReportSpec => []ReportTrue`, from the inductive invariant
  `ReportInv`. Its part `TailInv` says what the bounded tail still knows: if it holds
  a marker, the last one is that of the phase reached or one the job wrote since; a
  marker of a completed job is true or the job's; and a tail without a marker is full,
  unless none was ever printed. `EndInv` says that a report reads only after the runner has ended, so
  that the phase is settled. That a sequence with a marker has a last one is
  obtained from the well-foundedness of `<` on the naturals.

Only model-checked: `EventuallyCollected`, `GateOpens`, `LeakedHelpersGo`, `NoStampBlocks`,
`EntrypointSettles`, `BecomesIdle` and `WatcherEnds`, since liveness under fairness is beyond the prover. Of
`EventuallyCollected`, `GateOpens` and `BecomesIdle` the safety part is proved
(`DueIsCollected`, `GateHasSeeder`, `HealthyEndsIdle`): that no wrong end is reached.
What TLC adds is that an end is.

## Two comments that promise more than the code needs

Neither is a finding, since nothing goes wrong.

- `gc.go` says that `helperTerminalGrace` "leaves a just-exited helper to its own
  provider's deferred removal". The age is that of the created-at label, not the time
  since the exit, so a seed that ran for longer than the grace can be reaped the
  moment it ends. `SparesAwaited` is therefore about helpers that may still
  work; the provider's own removal then finds nothing, which is no error.
- `reportStoppedRunners` passes over a runner whose removal is under way because
  "another removal has it and has logged". The other removal can be anybody's, who
  logs nothing. Only a log line is lost.

## Not modelled, and what could come next

1. Decision functions against reference definitions: which caches `listCacheVolumes`
   reports as stale, the mapping of container states to GARM states, the cache scope
   of an allocation, the bounds of memory and CPU. They are pure functions of one
   call, and table tests cover them.
2. `Get`, which reads and maps, and `Start` and `Stop`, which GARM v0.2.1 never
   calls; the reply of a delete (not found, when its lists showed nothing), with what GARM
   makes of it.
3. A create that a delete has taken apart, and whose runner starts on the network
   of a newer generation because Docker resolves the network by name. `Allocation`
   has the step; which of the two instances may then claim to be whole is stated
   by no property beyond `SuccessMeansWhole`.

Left out for good: wording and levels of log lines, IO statistics of the DinD daemon
(counters of one stats call, logged), configuration parsing, HTTP transport, the SDK
adapter, how a process is detached, release tooling and the live-gate script. They
keep no state that two calls share.
