---------------------------- MODULE ThrottleStamp ----------------------------
(***************************************************************************)
(* The throttle of the housekeeping passes (internal/provider/throttle.go).*)
(* Every GARM call is a fresh process without a state directory, so the    *)
(* time of the last round of a pass lives in Docker: in the created-at     *)
(* label of a never-started container whose name is the claim.  One stamp  *)
(* is modelled; the orphan sweep, the cache GC and the diag prune each     *)
(* have their own.                                                         *)
(*                                                                         *)
(* The label is built before the create call is sent and holds whole       *)
(* seconds, so a stamp can be older than its container, by CreateDelay at  *)
(* most.  Any daemon call may fail, and a process may end at any step.     *)
(***************************************************************************)
EXTENDS Integers

CONSTANTS
    Proc,         \* provider processes
    Interval,     \* throttleStamp.interval, in ticks
    CreateDelay,  \* most ticks between a stamp's label and its container
    MaxSkew,      \* how far ahead a stamp left by another clock may be
    MaxTime,      \* bound on the clock
    None          \* no stamp

VARIABLES
    now,        \* the wall clock
    image,      \* whether the runner image is on the host
    stamp,      \* the container of the stamp's name, or None
    nextId,     \* container IDs are never reused
    pc,         \* where each process is
    held,       \* the ID it inspected and wants replaced
    label,      \* the created-at label it built
    runs,       \* whether the round is its own if the create succeeds
    lastRound   \* history: when the last round was claimed, or Never

vars == <<now, image, stamp, nextId, pc, held, label, runs, lastRound>>

Never == -1
Unreadable == -1  \* a created-at label that is missing or does not parse

Stamp == [id : Nat, by : {"us", "other"}, time : Nat \cup {Unreadable}]

ASSUME ThrottleAssumption ==
    /\ Interval \in Nat \ {0}
    /\ CreateDelay \in Nat
    /\ MaxSkew \in Nat
    /\ MaxTime \in Nat
    /\ None \notin Stamp

PC == {"idle", "inspect", "remove", "label", "create", "pass"}

TypeOK ==
    /\ now \in Nat
    /\ image \in BOOLEAN
    /\ stamp = None \/ stamp \in Stamp
    /\ nextId \in Nat
    /\ pc \in [Proc -> PC]
    /\ held \in [Proc -> Nat]
    /\ label \in [Proc -> Nat]
    /\ runs \in [Proc -> BOOLEAN]
    /\ lastRound \in Nat \cup {Never}

\* A stamp found at the start may be anybody's and carry any time.
Init ==
    /\ now = 0
    /\ image \in BOOLEAN
    /\ stamp \in {None} \cup [id : {0}, by : {"us", "other"}, time : Unreadable .. MaxSkew]
    /\ nextId = 1
    /\ pc = [p \in Proc |-> "idle"]
    /\ held = [p \in Proc |-> 0]
    /\ label = [p \in Proc |-> 0]
    /\ runs = [p \in Proc |-> FALSE]
    /\ lastRound = Never

Goto(p, l) == pc' = [pc EXCEPT ![p] = l]

\* The process is done with this stamp: what it remembered of it is gone.
Forget(p, l) ==
    /\ Goto(p, l)
    /\ held' = [held EXCEPT ![p] = 0]
    /\ label' = [label EXCEPT ![p] = 0]
    /\ runs' = [runs EXCEPT ![p] = FALSE]

\* helperAge: the age is known and not negative.
Usable(s) == s.time # Unreadable /\ s.time <= now

\* Mutant: a stamp whose age is unknown or negative stands.
FreshUnlessOld(s) == s.time = Unreadable \/ now - s.time < Interval

Fresh(s) == Usable(s) /\ now - s.time < Interval

\* claimRound: without the image no stamp can be made and the pass runs
\* unthrottled.  (The diag prune skips its round instead.)
ClaimRound(p) ==
    /\ pc[p] = "idle"
    /\ Goto(p, IF image THEN "inspect" ELSE "pass")
    /\ UNCHANGED <<now, image, stamp, nextId, held, label, runs, lastRound>>

\* claimStamp up to the removal.  isOwnStamp fails on a stranger's container, which
\* is left in place.
InspectStamp(p) ==
    /\ pc[p] = "inspect"
    /\ \/ /\ stamp = None
          /\ Goto(p, "label")
          /\ runs' = [runs EXCEPT ![p] = TRUE]
          /\ UNCHANGED <<held, label>>
       \/ /\ stamp # None
          /\ stamp.by = "us" /\ ~Fresh(stamp)
          /\ Goto(p, "remove")
          /\ held' = [held EXCEPT ![p] = stamp.id]
          /\ runs' = [runs EXCEPT ![p] = Usable(stamp)]
          /\ UNCHANGED label
       \/ /\ stamp # None
          /\ stamp.by = "us" => Fresh(stamp)
          /\ Forget(p, "idle")
    /\ UNCHANGED <<now, image, stamp, nextId, lastRound>>

\* Mutant: the stamp is removed by its name.
RemoveStampByName(p) ==
    /\ pc[p] = "remove"
    /\ stamp' = None
    /\ Goto(p, "label")
    /\ UNCHANGED <<now, image, nextId, held, label, runs, lastRound>>

\* By ID, not name, so that a slow peer cannot delete the winner's fresh stamp.
\* NotFound is tolerated.
RemoveStamp(p) ==
    /\ pc[p] = "remove"
    /\ stamp' = IF stamp # None /\ stamp.id = held[p] THEN None ELSE stamp
    /\ Goto(p, "label")
    /\ UNCHANGED <<now, image, nextId, held, label, runs, lastRound>>

\* Mutant: the label says when the last round was due, not when this one began.
BuildLabelBackdated(p) ==
    /\ pc[p] = "label"
    /\ label' = [label EXCEPT ![p] = now - Interval]
    /\ Goto(p, "create")
    /\ UNCHANGED <<now, image, stamp, nextId, held, runs, lastRound>>

\* ownedHelperLabels.
BuildLabel(p) ==
    /\ pc[p] = "label"
    /\ label' = [label EXCEPT ![p] = now]
    /\ Goto(p, "create")
    /\ UNCHANGED <<now, image, stamp, nextId, held, runs, lastRound>>

StampCreated(p) ==
    /\ stamp = None
    /\ stamp' = [id |-> nextId, by |-> "us", time |-> label[p]]
    /\ nextId' = nextId + 1

\* createStamp: the create is the atomic claim, a second one is answered with 409.
\* A stamp that replaces one without a usable time does not run the pass.
CreateStamp(p) ==
    /\ pc[p] = "create"
    /\ \/ /\ StampCreated(p)
          /\ Forget(p, IF runs[p] THEN "pass" ELSE "idle")
          /\ lastRound' = IF runs[p] THEN now ELSE lastRound
       \/ /\ stamp # None
          /\ Forget(p, "idle")
          /\ UNCHANGED <<stamp, nextId, lastRound>>
    /\ UNCHANGED <<now, image>>

\* The create took effect but its answer was lost: the round is skipped.
CreateAnswerLost(p) ==
    /\ pc[p] = "create"
    /\ StampCreated(p)
    /\ Forget(p, "idle")
    /\ UNCHANGED <<now, image, lastRound>>

\* The pass ends; or a daemon error skips the round; or the process is killed.
Ends(p) ==
    /\ pc[p] # "idle"
    /\ Forget(p, "idle")
    /\ UNCHANGED <<now, image, stamp, nextId, lastRound>>

Tick ==
    /\ now < MaxTime
    /\ \A p \in Proc : pc[p] = "create" => now - label[p] < CreateDelay
    /\ now' = now + 1
    /\ UNCHANGED <<image, stamp, nextId, pc, held, label, runs, lastRound>>

\* A create pulls the image, an operator prunes it.
ImageChanges ==
    /\ image' = ~image
    /\ UNCHANGED <<now, stamp, nextId, pc, held, label, runs, lastRound>>

Step(p) ==
    \/ ClaimRound(p) \/ InspectStamp(p) \/ RemoveStamp(p) \/ BuildLabel(p)
    \/ CreateStamp(p) \/ CreateAnswerLost(p) \/ Ends(p)

Next == Tick \/ ImageChanges \/ \E p \in Proc : Step(p)

Spec == Init /\ [][Next]_vars

\* Creates and lists keep coming, every process ends, and though any of them may fail
\* at any step they do not all fail at the same one for ever.  Time need not go on.
Fairness ==
    /\ SF_vars(\E p \in Proc : ClaimRound(p))
    /\ SF_vars(\E p \in Proc : InspectStamp(p))
    /\ SF_vars(\E p \in Proc : RemoveStamp(p))
    /\ \A p \in Proc : WF_vars(Ends(p))

FairSpec == Spec /\ Fairness

-----------------------------------------------------------------------------
(* Properties. *)

\* While the runner image is there, two rounds are an interval apart, less the
\* delay of a create, whatever processes overlap, fail or are killed between the
\* inspect, the removal and the create (throttle.go: "least time between two
\* rounds"): the protocol of the stamps implements a rate limit.
Limit == INSTANCE RateLimit
           WITH Gap <- Interval - CreateDelay, time <- now, last <- lastRound

RateLimited == Limit!Spec

\* Nobody removes a stamp a provider made before its interval is over.
FreshStampKept ==
    [][stamp # None => (stamp.id > 0 /\ Fresh(stamp) => stamp' = stamp)]_vars

\* A stamp of ours that is due, because its time cannot be read, lies in the future
\* or is an interval ago, does not block the pass for ever once the image stays on the
\* host, wherever the processes that want to replace it fail (claimStamp: "A stamp with no usable time is
\* replaced").
Due(s) == s.time = Unreadable \/ s.time \notin (now - Interval + 1) .. now

NoStampBlocks ==
    <>[]image =>
        ((stamp # None /\ stamp.by = "us" /\ Due(stamp))
             ~> (stamp = None \/ ~Due(stamp)))

\* What makes the rounds come apart: until the interval is over the stamp of the
\* last round stands, and nobody who inspected an older stamp holds its ID.
StampInv ==
    /\ stamp # None =>
         /\ stamp.id < nextId
         /\ stamp.id > 0 => stamp.by = "us" /\ stamp.time \in 0 .. now
    /\ nextId > 0
    /\ lastRound <= now
    /\ \A p \in Proc :
         /\ pc[p] = "remove" =>
              /\ held[p] < nextId
              /\ stamp # None /\ held[p] = stamp.id /\ stamp.id > 0 => ~Fresh(stamp)
         /\ pc[p] = "create" => label[p] <= now /\ now - label[p] <= CreateDelay
    /\ lastRound # Never /\ now < lastRound + Interval - CreateDelay =>
         stamp # None /\ stamp.id > 0 /\ stamp.time >= lastRound - CreateDelay
=============================================================================
