----------------------------- MODULE StatusWatch -----------------------------
(***************************************************************************)
(* The watcher that tells GARM how the runner of module Entrypoint is      *)
(* doing: installing, then idle once the runner listens for jobs           *)
(* (internal/provider/status_report.go, status_watch.go,                   *)
(* internal/metadata/status.go).                                           *)
(*                                                                         *)
(* It is a process of its own, or part of the create if nobody would reap  *)
(* it.  A report is a POST with retries: it can be lost, its answer can be *)
(* lost, and it can arrive after the watcher has given it up.  GARM is     *)
(* modelled by the status of the runner it records and by the transitions  *)
(* runStatusWatch relies on.                                               *)
(***************************************************************************)
EXTENDS Entrypoint, Integers

CONSTANT MaxRetries   \* of one report

ASSUME RetryAssumption == MaxRetries \in Nat

VARIABLES
    wpc,      \* where the watcher is
    verdict,  \* what it will report
    tries,    \* failed attempts of the current report
    late,     \* reports that may still arrive
    row,      \* the runner's status in GARM
    time      \* 0 before the deadline, 1 in the grace, 2 after the hard stop

watchVars == <<wpc, verdict, tries, late, row, time>>
vars == <<bootVars, watchVars>>

\* GARM keeps the message with the status: idleViaProcess is idle on weaker evidence.
Idle == {"idle", "idleViaProcess"}
Status == Idle \cup {"installing"}

Confirming == {"confirmLine", "confirmProcess"}
WaitPC == {"open", "follow", "poll", "settle"} \cup Confirming
WatchPC == {"none", "post1", "post2", "ended"} \cup WaitPC

TypeOK ==
    /\ BootTypeOK
    /\ wpc \in WatchPC
    /\ verdict \in Status
    /\ tries \in 0 .. MaxRetries
    /\ late \subseteq Status
    /\ row \in {"pending"} \cup Status
    /\ time \in 0 .. 2

Init ==
    /\ BootInit
    /\ wpc = "none" /\ verdict = "installing" /\ tries = 0
    /\ late = {} /\ row = "pending" /\ time = 0

-----------------------------------------------------------------------------
(* The create. *)

\* reportRunnerStatus: only JIT runners are reported.  startStatusWatcher: a detached
\* watcher is handed its request and left alone; failing that is only logged.
ReportRunnerStatus ==
    /\ create = "report" /\ wpc = "none"
    /\ \/ /\ mode.jit
          /\ wpc' = "post1"
          /\ create' = IF mode.detached THEN "returned" ELSE create
       \/ /\ ~mode.jit \/ Trouble
          /\ create' = "returned"
          /\ UNCHANGED wpc
    /\ UNCHANGED <<mode, tmpfs, marker, docker, seeded, job, pc, todo, disk, link, config, reached>>
    /\ UNCHANGED <<verdict, tries, late, row, time>>

\* runInProcessWatcher returns when the watch is over.
CreateReturns ==
    /\ create = "report" /\ wpc = "ended"
    /\ create' = "returned"
    /\ UNCHANGED <<mode, tmpfs, marker, docker, seeded, job, pc, todo, disk, link, config, reached>>
    /\ UNCHANGED watchVars

\* GARM kills a slow create, and with it the watcher it runs itself.
CreateKilled ==
    /\ Trouble
    /\ create \in {"deliver", "verify", "report", "rollback"}
    /\ create' = "ended"
    /\ wpc' = IF create = "report" /\ wpc # "none" THEN "ended" ELSE wpc
    /\ UNCHANGED <<mode, tmpfs, marker, docker, seeded, job, pc, todo, disk, link, config, reached>>
    /\ UNCHANGED <<verdict, tries, late, row, time>>

-----------------------------------------------------------------------------
(* GARM. *)

\* A pending runner cannot become idle; an idle one may or may not go back to installing.
Recorded(s) ==
    row' \in CASE row = "pending" /\ s \in Idle -> {row}
              [] row \in Idle /\ s = "installing" -> {row, s}
              [] OTHER -> {s}

LateReport(s) ==
    /\ s \in late
    /\ late' = late \ {s}
    /\ Recorded(s)
    /\ UNCHANGED <<bootVars, wpc, verdict, tries, time>>

-----------------------------------------------------------------------------
(* postStatus and PostStatus. *)

Posting == wpc \in {"post1", "post2"}
Report == IF wpc = "post1" THEN "installing" ELSE verdict

\* 2xx.  The first report taken, the watcher waits for the runner.
PostAccepted ==
    /\ Posting
    /\ Recorded(Report)
    /\ wpc' = IF wpc = "post1" THEN "open" ELSE "ended"
    /\ tries' = 0
    /\ UNCHANGED <<bootVars, verdict, late, time>>

\* Mutant: one retry too many.
PostRetriedOnceMore ==
    /\ Posting /\ Trouble
    /\ IF tries <= MaxRetries
       THEN tries' = tries + 1 /\ UNCHANGED wpc
       ELSE wpc' = "ended" /\ UNCHANGED tries
    /\ UNCHANGED <<bootVars, verdict, late, row, time>>

\* A transport error or 5xx: the report may have been taken, may be taken later, or be
\* lost.  It is sent again until the retries are used up.
PostRetried ==
    /\ Posting /\ Trouble
    /\ \/ Recorded(Report) /\ UNCHANGED late
       \/ late' = late \cup {Report} /\ UNCHANGED row
       \/ UNCHANGED <<row, late>>
    /\ IF tries < MaxRetries
       THEN tries' = tries + 1 /\ UNCHANGED wpc
       ELSE wpc' = "ended" /\ UNCHANGED tries
    /\ UNCHANGED <<bootVars, verdict, time>>

\* Any other answer, or statusPostTimeout.  Without installing there is nothing to wait
\* for.
PostGivenUp ==
    /\ Posting /\ Trouble
    /\ wpc' = "ended"
    /\ UNCHANGED <<bootVars, verdict, tries, late, row, time>>

-----------------------------------------------------------------------------
(* waitRunnerListening. *)

Conclude(v) == wpc' = "post2" /\ verdict' = v

\* ContainerLogs: any error but the deadline falls back to the process list.
OpenLogs ==
    /\ wpc = "open" /\ time = 0
    /\ \/ mode.logs /\ pc # "removed" /\ wpc' = "follow"
       \/ (~mode.logs \/ pc = "removed" \/ Trouble) /\ wpc' = "poll"
    /\ UNCHANGED <<bootVars, verdict, tries, late, row, time>>

\* The stream has the line, even of a runner that is gone; or it ends without.
FollowLogs ==
    /\ wpc = "follow" /\ time = 0
    /\ \/ reached = "listening" /\ wpc' = "confirmLine" /\ UNCHANGED verdict
       \/ /\ Trouble \/ (~Up /\ reached # "listening")
          /\ Conclude("installing")
    /\ UNCHANGED <<bootVars, tries, late, row, time>>

ListenerUp == pc \in {"listener", "listening"}

\* Mutant: each poll starts the settle time again.
PollListenerRestarts ==
    /\ wpc \in {"poll", "settle"} /\ time = 0
    /\ \/ ~Up /\ Conclude("installing")
       \/ Up /\ wpc' = (IF ListenerUp THEN "settle" ELSE "poll") /\ UNCHANGED verdict
    /\ UNCHANGED <<bootVars, tries, late, row, time>>

\* waitListenerProcess: the listener has to be there for listenerSettle; a poll that fails
\* or does not find it starts that again.
PollListener ==
    /\ wpc \in {"poll", "settle"} /\ time = 0
    /\ \/ ~Up /\ Conclude("installing")
       \/ /\ Up /\ ListenerUp
          /\ wpc' = IF wpc = "poll" THEN "settle" ELSE "confirmProcess"
          /\ UNCHANGED verdict
       \/ /\ (Up /\ ~ListenerUp) \/ Trouble
          /\ wpc' = "poll"
          /\ UNCHANGED verdict
    /\ UNCHANGED <<bootVars, tries, late, row, time>>

IdleVerdict == IF wpc = "confirmLine" THEN "idle" ELSE "idleViaProcess"

\* Mutant: the readiness signal is enough.
ConfirmNothing ==
    /\ wpc \in Confirming
    /\ Conclude(IdleVerdict)
    /\ UNCHANGED <<bootVars, tries, late, row, time>>

\* confirmRunning.  An inspect that fails confirms nothing.
ConfirmRunning ==
    /\ wpc \in Confirming
    /\ \/ Up /\ time = 0 /\ Conclude(IdleVerdict)
       \/ (~Up \/ Trouble) /\ Conclude("installing")
    /\ UNCHANGED <<bootVars, tries, late, row, time>>

\* Mutant: a wait that times out counts as a runner that listens.
WaitTimesOutIdle ==
    /\ wpc \in WaitPC /\ time > 0
    /\ Conclude("idle")
    /\ UNCHANGED <<bootVars, tries, late, row, time>>

\* The context of the wait ends at the deadline.
WaitTimesOut ==
    /\ wpc \in WaitPC /\ time > 0
    /\ Conclude("installing")
    /\ UNCHANGED <<bootVars, tries, late, row, time>>

TimePasses ==
    /\ Trouble /\ wpc # "none" /\ time < 2
    /\ time' = time + 1
    /\ UNCHANGED <<bootVars, wpc, verdict, tries, late, row>>

\* Mutant: the timer is only armed around the wait.
HardStopOfWait ==
    /\ time = 2 /\ wpc \in WaitPC
    /\ wpc' = "ended"
    /\ UNCHANGED <<bootVars, verdict, tries, late, row, time>>

\* The context, and a second later the process, end whatever is in flight.
HardStop ==
    /\ time = 2 /\ wpc \notin {"none", "ended"}
    /\ wpc' = "ended"
    /\ UNCHANGED <<bootVars, verdict, tries, late, row, time>>

Watch == OpenLogs \/ FollowLogs \/ PollListener \/ ConfirmRunning \/ WaitTimesOut

WatchNext ==
    \/ ReportRunnerStatus \/ CreateReturns \/ CreateKilled
    \/ \E s \in Status : LateReport(s)
    \/ PostAccepted \/ PostRetried \/ PostGivenUp
    \/ Watch \/ TimePasses \/ HardStop

Next ==
    \/ BootNext /\ UNCHANGED watchVars
    \/ WatchNext

Spec == Init /\ [][Next]_vars

\* GARM need not answer, and Docker need not answer the watcher, except in a healthy
\* behaviour; clocks go on.
WatchFairness ==
    /\ BootFairness
    /\ WF_vars(ReportRunnerStatus \/ CreateReturns)
    /\ WF_vars(TimePasses) /\ WF_vars(HardStop)
    /\ WF_vars(mode.healthy /\ (PostAccepted \/ Watch))

FairSpec == Spec /\ WatchFairness

-----------------------------------------------------------------------------
(* Properties. *)

\* "idle is never sent early" (ADR-002): GARM has the runner idle only if it listened or,
\* with the message of the process list, if its listener process was up.
IdleOnlyWhenReady ==
    /\ row = "idle" => reached = "listening"
    /\ row = "idleViaProcess" => reached # "no"

\* What IdleOnlyWhenReady rests on: the evidence precedes the verdict, the verdict the
\* report, and a report can only be late after it was sent.
WatchInv ==
    /\ BootInv
    /\ wpc = "confirmLine" => reached = "listening"
    /\ wpc \in {"settle", "confirmProcess"} => reached # "no"
    /\ \A s \in {verdict, row} \cup late :
         (s = "idle" => reached = "listening") /\ (s = "idleViaProcess" => reached # "no")

\* A runner that stopped before the inspect of confirmRunning is never recorded idle,
\* whatever its log says and whatever arrives late: the reaper of GARM would not see it.
StoppedNeverIdle ==
    [](~Up /\ wpc \in {"none", "post1"} \cup WaitPC => [](row \notin Idle))

\* If nothing fails, a JIT runner gets its credentials, starts, listens and is idle in
\* GARM in the end, whatever order deliveries, daemon, seed and reports happen in.
BecomesIdle == mode.healthy /\ mode.jit => <>(row \in Idle)

\* "It exits within about 25 seconds of the deadline whatever happens" (ADR-002): GARM
\* and Docker may hang.
WatcherEnds == wpc = "post1" ~> wpc = "ended"
=============================================================================
