------------------------------ MODULE Entrypoint ------------------------------
(***************************************************************************)
(* The inside of one runner container and the create that feeds it: the    *)
(* delivery of the credentials through an exec, and                        *)
(* runner-images/common/entrypoint.sh from its two concurrent waits to     *)
(* run.sh.                                                                 *)
(*                                                                         *)
(* The entrypoint is process 1 of its container: a signal it has no trap   *)
(* for is ignored, SIGKILL and the OOM killer apart, and when it ends      *)
(* everything in the container ends.                                       *)
(* With a JIT configuration the credential files are delivered.  Without   *)
(* one a registration token is, and config.sh writes the files to the      *)
(* install directory, which is on disk, from where they are moved to the   *)
(* tmpfs.                                                                  *)
(***************************************************************************)
EXTENDS FiniteSets

CONSTANTS
    Cred,   \* runner, credentials, credentials_rsaparams
    Token   \* the registration token

ASSUME EntrypointAssumption == Token \notin Cred

VARIABLES
    mode,    \* how the instance is set up, and whether all goes well
    create,  \* where CreateInstance is
    tmpfs,   \* the files in /run/garm: absent, being written, whole
    marker,  \* .delivered
    docker,  \* the DinD daemon answers
    seeded,  \* the externals marker is in the mount
    job,     \* the two background waits
    pc,      \* where the entrypoint is
    todo,    \* the files a loop has still to go through
    disk,    \* credential files in the install directory
    link,    \* symlinks in the install directory
    config,  \* config.sh
    reached  \* how far the runner ever got

bootVars == <<mode, create, tmpfs, marker, docker, seeded, job, pc, todo, disk, link,
              config, reached>>

Mode == [jit : BOOLEAN, dind : BOOLEAN, logs : BOOLEAN, detached : BOOLEAN, healthy : BOOLEAN]
Wait == {"cred", "docker"}
RunnerPC == {"runner", "listener", "listening"}
PC == {"wait1", "wait2", "setup", "install", "config", "move", "scrub", "workdir", "gate",
       "exec", "exited", "killed", "removed"} \cup RunnerPC
CreatePC == {"deliver", "verify", "report", "returned", "rollback", "ended"}

BootTypeOK ==
    /\ mode \in Mode
    /\ create \in CreatePC
    /\ tmpfs \in [Cred \cup {Token} -> {"absent", "part", "whole"}]
    /\ marker \in BOOLEAN /\ docker \in BOOLEAN /\ seeded \in BOOLEAN
    /\ job \in [Wait -> {"waiting", "ok", "failed"}]
    /\ pc \in PC
    /\ todo \subseteq Cred /\ disk \subseteq Cred /\ link \subseteq Cred
    /\ config \in {"none", "running", "ok", "failed", "orphan"}
    /\ reached \in {"no", "listener", "listening"}

BootInit ==
    /\ mode \in Mode
    /\ create = "deliver"
    /\ tmpfs = [f \in Cred \cup {Token} |-> "absent"]
    /\ marker = FALSE /\ docker = FALSE /\ seeded = FALSE
    /\ job = [j \in Wait |-> "waiting"]
    /\ pc = "wait1"
    /\ todo = {} /\ disk = {} /\ link = {}
    /\ config = "none"
    /\ reached = "no"

Up == pc \notin {"exited", "killed", "removed"}

\* Anything that can go wrong does so only in an unhealthy behaviour.
Trouble == ~mode.healthy

-----------------------------------------------------------------------------
(* The delivery: tar -x in an exec of the running container. *)

\* fetchCredentials: what goes into the archive, before the marker.
Archive == IF mode.jit THEN Cred ELSE {Token}

\* A file appears first and has its contents later; tar takes one after the other.
BeginFile(f) ==
    /\ create = "deliver" /\ Up
    /\ f \in Archive /\ tmpfs[f] = "absent"
    /\ \A g \in Archive : tmpfs[g] # "part"
    /\ tmpfs' = [tmpfs EXCEPT ![f] = "part"]
    /\ UNCHANGED <<mode, create, marker, docker, seeded, job, pc, todo, disk, link, config, reached>>

EndFile(f) ==
    /\ create = "deliver" /\ Up
    /\ f \in Archive /\ tmpfs[f] = "part"
    /\ tmpfs' = [tmpfs EXCEPT ![f] = "whole"]
    /\ UNCHANGED <<mode, create, marker, docker, seeded, job, pc, todo, disk, link, config, reached>>

\* Mutant: the marker can be anywhere in the archive.
WriteMarkerAnywhere ==
    /\ create = "deliver" /\ Up /\ ~marker
    /\ marker' = TRUE
    /\ create' = IF \A f \in Archive : tmpfs[f] = "whole" THEN "verify" ELSE create
    /\ UNCHANGED <<mode, tmpfs, docker, seeded, job, pc, todo, disk, link, config, reached>>

\* withReadyMarker: the last entry.
WriteReadyMarker ==
    /\ create = "deliver" /\ Up
    /\ \A f \in Archive : tmpfs[f] = "whole"
    /\ marker' = TRUE
    /\ create' = "verify"
    /\ UNCHANGED <<mode, tmpfs, docker, seeded, job, pc, todo, disk, link, config, reached>>

\* The exec fails, also because its container has ended.
DeliveryFails ==
    /\ create = "deliver"
    /\ ~Up \/ Trouble
    /\ create' = "rollback"
    /\ UNCHANGED <<mode, tmpfs, marker, docker, seeded, job, pc, todo, disk, link, config, reached>>

\* verifyRunning: a container that ended during the delivery is not reported running, nor
\* one that cannot be inspected or whose DinD sidecar has ended.
VerifyRunning ==
    /\ create = "verify"
    /\ \/ Up /\ create' = "report"
       \/ (~Up \/ Trouble) /\ create' = "rollback"
    /\ UNCHANGED <<mode, tmpfs, marker, docker, seeded, job, pc, todo, disk, link, config, reached>>

\* The rollback of a failed create, or a delete: the container and its layer go.
RemoveContainer ==
    /\ create = "rollback" \/ (Trouble /\ pc # "removed")
    /\ pc' = "removed"
    /\ create' = IF create = "rollback" THEN "ended" ELSE create
    /\ UNCHANGED <<mode, tmpfs, marker, docker, seeded, job, todo, disk, link, config, reached>>

-----------------------------------------------------------------------------
(* run_concurrent_waits. *)

DockerAnswers ==
    /\ ~docker /\ mode.dind
    /\ docker' = TRUE
    /\ UNCHANGED <<mode, create, tmpfs, marker, seeded, job, pc, todo, disk, link, config, reached>>

SeedAppears ==
    /\ ~seeded
    /\ seeded' = TRUE
    /\ UNCHANGED <<mode, create, tmpfs, marker, docker, job, pc, todo, disk, link, config, reached>>

Waiting == pc \in {"wait1", "wait2"}

\* wait_for_credentials and maybe_wait_for_docker.
WaitOver(j) == IF j = "cred" THEN marker ELSE mode.dind => docker

WaitEnds(j) ==
    /\ Waiting /\ job[j] = "waiting"
    /\ \/ WaitOver(j) /\ job' = [job EXCEPT ![j] = "ok"]
       \/ Trouble /\ ~WaitOver(j) /\ job' = [job EXCEPT ![j] = "failed"]
    /\ UNCHANGED <<mode, create, tmpfs, marker, docker, seeded, pc, todo, disk, link, config, reached>>

Goto(l) == pc' = l

\* The first wait -n: one job has ended; if it failed the other is killed.
FirstWait ==
    /\ pc = "wait1"
    /\ \E j \in Wait :
         /\ job[j] # "waiting"
         /\ Goto(IF job[j] = "ok" THEN "wait2" ELSE "exited")
    /\ UNCHANGED <<mode, create, tmpfs, marker, docker, seeded, job, todo, disk, link, config, reached>>

\* Mutant: the status of the second job is not looked at.
SecondWaitAny ==
    /\ pc = "wait2"
    /\ \A j \in Wait : job[j] # "waiting"
    /\ Goto("setup")
    /\ UNCHANGED <<mode, create, tmpfs, marker, docker, seeded, job, todo, disk, link, config, reached>>

\* The second wait -n returns the other job.
SecondWait ==
    /\ pc = "wait2"
    /\ \A j \in Wait : job[j] # "waiting"
    /\ Goto(IF \A j \in Wait : job[j] = "ok" THEN "setup" ELSE "exited")
    /\ UNCHANGED <<mode, create, tmpfs, marker, docker, seeded, job, todo, disk, link, config, reached>>

-----------------------------------------------------------------------------
(* From the waits to run.sh. *)

\* A command fails outside the guarded phase: set -e ends the script.
StepFails ==
    /\ Trouble
    /\ pc \in {"setup", "install", "workdir", "exec"}
    /\ Goto("exited")
    /\ UNCHANGED <<mode, create, tmpfs, marker, docker, seeded, job, todo, disk, link, config, reached>>

\* raise_nofile_soft_limit, ensure_docker_socket_group, prepare_diag, prepare_cache_dirs.
Setup ==
    /\ pc = "setup"
    /\ Goto("install")
    /\ UNCHANGED <<mode, create, tmpfs, marker, docker, seeded, job, todo, disk, link, config, reached>>

InstallJit ==
    /\ pc = "install" /\ mode.jit
    /\ link' = Cred
    /\ Goto("workdir")
    /\ UNCHANGED <<mode, create, tmpfs, marker, docker, seeded, job, todo, disk, config, reached>>

\* install_non_jit_registration up to run_config_sh: the traps are set, config.sh runs in
\* the background.
StartConfig ==
    /\ pc = "install" /\ ~mode.jit
    /\ config' = "running"
    /\ Goto("config")
    /\ UNCHANGED <<mode, create, tmpfs, marker, docker, seeded, job, todo, disk, link, reached>>

\* config.sh writes its files in the install directory, whoever waits for it.
ConfigWrites(f) ==
    /\ config \in {"running", "orphan"} /\ Up
    /\ f \in Cred \ disk
    /\ disk' = disk \cup {f}
    /\ UNCHANGED <<mode, create, tmpfs, marker, docker, seeded, job, pc, todo, link, config, reached>>

ConfigEnds ==
    /\ config = "running" /\ Up
    /\ \/ config' = "ok"
       \/ Trouble /\ config' = "failed"
    /\ UNCHANGED <<mode, create, tmpfs, marker, docker, seeded, job, pc, todo, disk, link, reached>>

\* wait returns the status of config.sh.  A failure ends the script in its EXIT trap.
WaitConfig ==
    /\ pc = "config" /\ config \in {"ok", "failed"}
    /\ Goto(IF config = "ok" THEN "move" ELSE "scrub")
    /\ todo' = Cred
    /\ UNCHANGED <<mode, create, tmpfs, marker, docker, seeded, job, disk, link, config, reached>>

\* HUP, INT or TERM while the traps are set.  wait is interrupted; config.sh is not.
Signal ==
    /\ Trouble
    /\ pc \in {"config", "move"}
    /\ Goto("scrub")
    /\ todo' = Cred
    /\ config' = IF config = "running" THEN "orphan" ELSE config
    /\ UNCHANGED <<mode, create, tmpfs, marker, docker, seeded, job, disk, link, reached>>

\* move_non_jit_credentials_to_tmpfs: mv, then ln, for each file that is there.
MoveFile(f) ==
    /\ pc = "move" /\ f \in todo \cap disk
    /\ disk' = disk \ {f}
    /\ tmpfs' = [tmpfs EXCEPT ![f] = "whole"]
    /\ UNCHANGED <<mode, create, marker, docker, seeded, job, pc, todo, link, config, reached>>

LinkFile(f) ==
    /\ pc = "move" /\ f \in todo \ disk
    /\ tmpfs[f] = "whole"
    /\ link' = link \cup {f}
    /\ todo' = todo \ {f}
    /\ UNCHANGED <<mode, create, tmpfs, marker, docker, seeded, job, pc, disk, config, reached>>

\* A runner of some scope may not have written this one.
SkipFile(f) ==
    /\ pc = "move" /\ f \in todo \ disk
    /\ tmpfs[f] = "absent"
    /\ todo' = todo \ {f}
    /\ UNCHANGED <<mode, create, tmpfs, marker, docker, seeded, job, pc, disk, link, config, reached>>

MoveFails ==
    /\ Trouble
    /\ pc = "move"
    /\ Goto("scrub")
    /\ todo' = Cred
    /\ UNCHANGED <<mode, create, tmpfs, marker, docker, seeded, job, disk, link, config, reached>>

\* The traps are cleared.
MoveDone ==
    /\ pc = "move" /\ todo = {}
    /\ Goto("workdir")
    /\ UNCHANGED <<mode, create, tmpfs, marker, docker, seeded, job, todo, disk, link, config, reached>>

\* Mutant: only the links and the tmpfs files are removed.
ScrubTmpfsOnly(f) ==
    /\ pc = "scrub" /\ f \in todo
    /\ link' = link \ {f}
    /\ tmpfs' = [tmpfs EXCEPT ![f] = "absent"]
    /\ todo' = todo \ {f}
    /\ UNCHANGED <<mode, create, marker, docker, seeded, job, pc, disk, config, reached>>

\* scrub_non_jit_credentials.
ScrubFile(f) ==
    /\ pc = "scrub" /\ f \in todo
    /\ disk' = disk \ {f}
    /\ link' = link \ {f}
    /\ tmpfs' = [tmpfs EXCEPT ![f] = "absent"]
    /\ todo' = todo \ {f}
    /\ UNCHANGED <<mode, create, marker, docker, seeded, job, pc, config, reached>>

\* Either handler ends the script, and with it the container.
ScrubDone ==
    /\ pc = "scrub" /\ todo = {}
    /\ Goto("exited")
    /\ UNCHANGED <<mode, create, tmpfs, marker, docker, seeded, job, todo, disk, link, config, reached>>

PrepareWorkdir ==
    /\ pc = "workdir"
    /\ Goto("gate")
    /\ UNCHANGED <<mode, create, tmpfs, marker, docker, seeded, job, todo, disk, link, config, reached>>

\* Mutant: the gate has no timeout.
GateUnbounded ==
    /\ pc = "gate" /\ seeded
    /\ Goto("exec")
    /\ UNCHANGED <<mode, create, tmpfs, marker, docker, seeded, job, todo, disk, link, config, reached>>

\* wait_for_externals_seeded: bounded, and closed on a timeout.
ExternalsGate ==
    /\ pc = "gate"
    /\ \/ seeded /\ Goto("exec")
       \/ ~seeded /\ Trouble /\ Goto("exited")
    /\ UNCHANGED <<mode, create, tmpfs, marker, docker, seeded, job, todo, disk, link, config, reached>>

ExecAsRunner ==
    /\ pc = "exec"
    /\ Goto("runner")
    /\ UNCHANGED <<mode, create, tmpfs, marker, docker, seeded, job, todo, disk, link, config, reached>>

\* run.sh starts Runner.Listener, which opens its session and says so.
RunnerProceeds ==
    /\ \/ pc = "runner" /\ Goto("listener") /\ reached' = "listener"
       \/ pc = "listener" /\ Goto("listening") /\ reached' = "listening"
    /\ UNCHANGED <<mode, create, tmpfs, marker, docker, seeded, job, todo, disk, link, config>>

RunnerEnds ==
    /\ pc \in RunnerPC
    /\ Trouble
    /\ Goto("exited")
    /\ UNCHANGED <<mode, create, tmpfs, marker, docker, seeded, job, todo, disk, link, config, reached>>

\* SIGKILL or the OOM killer ends the entrypoint, and no trap runs.  What that does to a
\* runner is RunnerEnds.
EntrypointKilled ==
    /\ Trouble
    /\ Up /\ pc \notin RunnerPC
    /\ Goto("killed")
    /\ UNCHANGED <<mode, create, tmpfs, marker, docker, seeded, job, todo, disk, link, config, reached>>

Deliver == (\E f \in Archive : BeginFile(f) \/ EndFile(f)) \/ WriteReadyMarker \/ DeliveryFails \/ VerifyRunning

Script ==
    \/ FirstWait \/ SecondWait \/ Setup \/ InstallJit \/ StartConfig \/ WaitConfig
    \/ \E f \in Cred : MoveFile(f) \/ LinkFile(f) \/ SkipFile(f) \/ ScrubFile(f)
    \/ MoveDone \/ ScrubDone \/ PrepareWorkdir \/ ExternalsGate \/ ExecAsRunner \/ RunnerProceeds

Configure == ConfigEnds \/ \E f \in Cred : ConfigWrites(f)

BootNext ==
    \/ Deliver \/ RemoveContainer \/ DockerAnswers \/ SeedAppears
    \/ \E j \in Wait : WaitEnds(j)
    \/ Script \/ StepFails \/ Configure \/ Signal \/ MoveFails \/ RunnerEnds \/ EntrypointKilled

\* Commands end, polls repeat and their timeouts run out.  Two commands have no timeout in
\* the script, and that they end is assumed: config.sh, and each docker info that a wait
\* polls with (its own timeout only counts the polls).  The exec of the delivery, the
\* DinD daemon and the seed of a peer may hang, except in a healthy behaviour.
BootFairness ==
    /\ WF_bootVars(Script) /\ WF_bootVars(Configure)
    /\ \A j \in Wait : WF_bootVars(WaitEnds(j))
    /\ WF_bootVars(mode.healthy /\ Deliver)
    /\ WF_bootVars(mode.healthy /\ DockerAnswers)
    /\ WF_bootVars(mode.healthy /\ SeedAppears)

-----------------------------------------------------------------------------
(* Properties. *)

\* The entrypoint never works with a partial credential set (withReadyMarker,
\* wait_for_credentials): past the waits all that was to be delivered is whole.
NoPartialSet ==
    Up /\ ~Waiting => \A f \in Archive : tmpfs[f] = "whole"

\* run.sh runs with its credentials on the tmpfs and behind symlinks and none on disk,
\* with an answering Docker daemon if it was promised one, on seeded externals.
RunnerEquipped ==
    pc \in RunnerPC =>
      /\ disk = {}
      /\ link = {f \in Cred : tmpfs[f] = "whole"}
      /\ mode.jit => link = Cred
      /\ mode.dind => docker
      /\ seeded

\* An entrypoint that ends by itself or by a signal it traps leaves no credential file on
\* disk, unless the signal came while config.sh was still running
\* (scrub_non_jit_credentials_on_failure).  One that is killed leaves what is there.
EndsClean == pc = "exited" /\ config # "orphan" => disk = {}

\* The same for every end ("no failure path - including an unhandled signal - leaves
\* credentials on the writable layer").
NoCredentialsLeft == pc = "exited" => disk = {}

\* No wait of the entrypoint is for ever: the runner starts or the container ends.
EntrypointSettles == <>(pc \in RunnerPC \cup {"exited", "killed", "removed"})

\* What the invariants rest on.  Past the waits both jobs have succeeded, and success
\* of the first means a marker, which means a whole set.
WaitInv ==
    /\ job["cred"] = "ok" => marker
    /\ job["docker"] = "ok" => (mode.dind => docker)
    /\ marker => \A f \in Archive : tmpfs[f] = "whole"
    /\ Up /\ ~Waiting => \A j \in Wait : job[j] = "ok"

BeforeInstall == pc \in {"wait1", "wait2", "setup", "install"}
Installed == pc \in {"workdir", "gate", "exec"} \cup RunnerPC

\* Only the token path has a config.sh, and while it runs, and nowhere else, credentials
\* get to the disk; what is there during the move and the scrub is still on the list.
DiskInv ==
    /\ pc \in {"config", "move", "scrub"} => ~mode.jit
    /\ BeforeInstall => config = "none"
    /\ pc = "config" => config \in {"running", "ok", "failed"}
    /\ config = "running" => pc \in {"config", "killed", "removed"}
    /\ config = "orphan" => pc \in {"scrub", "exited", "killed", "removed"}
    /\ BeforeInstall \/ Installed => disk = {}
    /\ pc = "move" => disk \subseteq todo
    /\ pc = "scrub" => disk \subseteq todo \/ config = "orphan"
    /\ pc = "exited" => disk = {} \/ config = "orphan"

\* A link is made for each file that has arrived on the tmpfs.
LinkInv ==
    /\ BeforeInstall \/ pc = "config" => link = {}
    /\ ~mode.jit => \A f \in Cred : tmpfs[f] # "part"
    /\ ~mode.jit /\ (BeforeInstall \/ pc = "config") => \A f \in Cred : tmpfs[f] = "absent"
    /\ pc = "move" => link = {f \in Cred \ todo : tmpfs[f] = "whole"}
    /\ Installed => link = {f \in Cred : tmpfs[f] = "whole"}

\* The runner starts on a seeded tree, and gets as far as it says.
ReachInv ==
    /\ pc \in {"exec"} \cup RunnerPC => seeded
    /\ pc \in {"listener", "listening"} => reached = pc
    /\ Up /\ pc \notin {"listener", "listening"} => reached = "no"

BootInv == WaitInv /\ DiskInv /\ LinkInv /\ ReachInv
=============================================================================
