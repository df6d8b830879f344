------------------------------ MODULE ExitReport ------------------------------
(***************************************************************************)
(* What the provider says of a runner that stopped, just before it removes *)
(* the container: how far it got, read from the last lines of its log      *)
(* (internal/topology/exitreport.go, called by the sweep and by            *)
(* DeleteInstance).                                                        *)
(*                                                                         *)
(* The runner is that of module Entrypoint, watched by module StatusWatch. *)
(* Here it goes on to its job, and two teardowns come for it: a delete,    *)
(* which may find it running, and a sweep, which may not.  Each lists it,  *)
(* reports and removes in steps of its own, while the other, or anybody    *)
(* else, may remove it first.                                              *)
(***************************************************************************)
EXTENDS StatusWatch, SequencesExt

CONSTANTS
    TailLines,  \* exitLogTailLines
    Followed    \* a bound: the set-ups whose runners are followed beyond the watch

ASSUME TailAssumption == TailLines \in Nat \ {0}

VARIABLES
    phase,    \* how far the runner got
    tail,     \* the last TailLines lines of its log
    posed,    \* markers the job wrote since the runner's own latest
    at,       \* where each teardown is
    reported  \* runner_phase of the report logged last

reportVars == <<phase, tail, posed, at, reported>>
allVars == <<vars, reportVars>>

Teardown == {"delete", "sweep"}
Marker == {"listening_no_job", "job_started", "job_completed"}
Phase == {"before_listening"} \cup Marker
Line == {"other"} \cup Marker

ReportInit ==
    /\ Init
    /\ phase = "before_listening"
    /\ tail = <<>>
    /\ posed = {}
    /\ at = [k \in Teardown |-> "idle"]
    /\ reported = "nothing"

\* A bound: what this module adds happens once the create and the watch are over, their
\* last report arrived or lost, in an unhealthy behaviour, where a runner can end.
Later ==
    /\ Trouble /\ mode \in Followed
    /\ create \in {"returned", "ended"} /\ wpc \in {"none", "ended"} /\ late = {}

-----------------------------------------------------------------------------
(* The runner's log. *)

\* The daemon keeps every line; a report asks for the last ones.
PutLine(l) ==
    tail' = IF Len(tail) < TailLines THEN Append(tail, l) ELSE Append(Tail(tail), l)

\* A line that is no marker.
OtherLine ==
    /\ Later /\ pc \in {"runner", "listening"}
    /\ PutLine("other")
    /\ UNCHANGED <<vars, phase, posed, at, reported>>

WithJob == phase \in {"job_started", "job_completed"}

\* "A job that writes a marker-shaped line to the listener's stdout can misclassify the
\* phase" (ADR-004): runnerProgressLine takes it for the runner's.
JobPoses(m) ==
    /\ Later /\ pc = "listening" /\ WithJob
    /\ PutLine(m)
    /\ posed' = posed \cup {m}
    /\ UNCHANGED <<vars, phase, at, reported>>

\* The ephemeral runner takes one job and completes it.
JobProceeds ==
    /\ Later /\ pc = "listening"
    /\ \/ phase = "listening_no_job" /\ phase' = "job_started"
       \/ phase = "job_started" /\ phase' = "job_completed"
    /\ PutLine(phase')
    /\ posed' = {}
    /\ UNCHANGED <<vars, at, reported>>

\* "Listening for Jobs" is printed when module Entrypoint says so.  The log goes with its
\* container.
LogFollows ==
    CASE reached' # reached /\ pc' = "listening" -> phase' = "listening_no_job" /\ PutLine(phase')
      [] pc' = "removed"                         -> tail' = <<>> /\ UNCHANGED phase
      [] OTHER                                   -> UNCHANGED <<phase, tail>>

-----------------------------------------------------------------------------
(* The report. *)

IsMarker(l) == l \in Marker

\* Mutant: the byte cap is not thought of.
ClassifyUncut(lines, truncated) ==
    LET last == SelectLastInSeq(lines, IsMarker) IN
    CASE last # 0                             -> lines[last]
      [] last = 0 /\ Len(lines) < TailLines   -> "before_listening"
      [] OTHER                                -> "unknown"

\* classifyRunnerPhase: the latest marker decides, unless the cap may have taken a later
\* one; a job prints nothing after its last.
Classify(lines, truncated) ==
    LET last == SelectLastInSeq(lines, IsMarker) IN
    CASE last # 0 /\ (truncated => lines[last] = "job_completed")   -> lines[last]
      [] last = 0 /\ ~truncated /\ Len(lines) < TailLines           -> "before_listening"
      [] OTHER                                                      -> "unknown"

\* runnerLogTail: the byte cap keeps the oldest of the lines.
ReadLog ==
    \/ reported' = Classify(tail, FALSE)
    \/ \E n \in 0 .. Len(tail) : reported' = Classify(SubSeq(tail, 1, n), TRUE)

\* The list of a delete takes the runner in any state; reportStoppedRunners passes over
\* one that runs.  sweepInstance leaves a runner that runs alone.  A bound: one of each.
ListRunner(k) ==
    /\ Later /\ at[k] = "idle"
    /\ \/ pc \in {"exited", "killed"} /\ at' = [at EXCEPT ![k] = "report"]
       \/ Up /\ k = "delete" /\ at' = [at EXCEPT ![k] = "remove"]
    /\ UNCHANGED <<vars, phase, tail, posed, reported>>

\* reportExitedRunner, reportStoppedRunner.  Whatever is gone by now, or does not answer
\* within exitReportTimeout, leaves the phase unknown; a delete whose inspect finds
\* nothing says nothing.
ReportRunner(k) ==
    /\ at[k] = "report"
    /\ \/ pc # "removed" /\ ReadLog
       \/ reported' = "unknown"
       \/ pc = "removed" /\ k = "delete" /\ UNCHANGED reported
    /\ at' = [at EXCEPT ![k] = "remove"]
    /\ UNCHANGED <<vars, phase, tail, posed>>

\* removeContainers: what is gone already is no error, and a running one is stopped.
RemoveRunner(k) ==
    /\ at[k] = "remove"
    /\ pc' = "removed"
    /\ at' = [at EXCEPT ![k] = "done"]
    /\ UNCHANGED <<mode, create, tmpfs, marker, docker, seeded, job, todo, disk, link, config, reached>>
    /\ tail' = <<>>
    /\ UNCHANGED <<watchVars, phase, posed, reported>>

ReportNext ==
    \/ Next /\ LogFollows /\ UNCHANGED <<posed, at, reported>>
    \/ OtherLine \/ JobProceeds
    \/ \E m \in Marker : JobPoses(m)
    \/ \E k \in Teardown : ListRunner(k) \/ ReportRunner(k) \/ RemoveRunner(k)

ReportSpec == ReportInit /\ [][ReportNext]_allVars

\* Nobody has to come for a runner.
ReportFairSpec == ReportSpec /\ WatchFairness

-----------------------------------------------------------------------------
(* Properties. *)

\* A report names the phase of the runner or none, whatever scrolled out of the tail or was
\* cut off it and whoever removes the container meanwhile (classifyRunnerPhase).  The one
\* exception is what ADR-004 admits: it may name a marker that the job itself wrote after
\* the runner's latest, and so never misreports a runner that had no job.
ReportTrue == reported \in {"nothing", "unknown", phase} \cup posed /\ (posed # {} => WithJob)
=============================================================================
