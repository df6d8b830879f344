-------------------------- MODULE HousekeepingProofs --------------------------
(***************************************************************************)
(* Theorems about module Housekeeping, for any number of creates, passes,  *)
(* unremovable helpers and repositories and for any time limits with       *)
(* SeedTimeout + Lag < RunningMaxAge: the reaping by state and age         *)
(* implements the reaping of module CacheVolume, nobody who waits loses a  *)
(* helper that may still work, and a prune works on the volume listed.     *)
(***************************************************************************)
EXTENDS Housekeeping, TLAPS

Waits == Cache!AwaitsHelper
Unseeded == {"discover", "ensure", "seed"}

\* The part of the types the proofs need.
ReapTypeOK ==
    /\ pc \in [Attempt -> Cache!PC]
    /\ helper \in [Attempt -> Cache!Helper]
    /\ age \in [HelperId -> 0 .. RunningMaxAge]
    /\ gpc \in [Pass -> PassPC]
    /\ todo \in [Pass -> SUBSET (HelperId \cup Stuck)]
    /\ snap \in [Pass -> Repo \cup {None}]
    /\ prune \in [Pass -> {"none", "created", "running", "exited", "gone"}]

\* A helper somebody waits for is younger than a wedged one can be.
YoungInv ==
    /\ \A a \in Attempt : pc[a] \in Waits => age[a] <= SeedTimeout + Lag
    /\ \A q \in Pass : gpc[q] \in AwaitsPrune => age[q] <= PruneTimeout + Lag

\* A helper is made once, so what a pass has listed as reapable stays so: it has ended
\* or is gone, or its process has left runHelperContainer and will not come back.
OnceInv ==
    /\ \A a \in Attempt : helper[a] # "none" => pc[a] \notin Unseeded
    /\ \A q \in Pass : gpc[q] \in {"diag", "create"} => prune[q] = "none" /\ q \in Pruner
    /\ \A q \in Pass : gpc[q] \in AwaitsPrune \cup {"unpin"} => prune[q] # "none"

ListedInv ==
    \A q \in Pass :
      /\ \A a \in todo[q] \cap Attempt :
           /\ pc[a] \notin Unseeded
           /\ helper[a] \in {"none", "exited", "broken"} \/ pc[a] \notin Waits
      /\ \A o \in todo[q] \cap Pass :
           prune[o] \in {"exited", "gone"} \/ (prune[o] # "none" /\ gpc[o] \notin AwaitsPrune)

\* A prune helper pins the diag volume, and one that is to be started or runs has the
\* volume that was listed.
PinInv ==
    \A q \in Pass :
      /\ prune[q] # "none" => q \in Pruner
      /\ prune[q] \in {"created", "running", "exited"} => diag # None
      /\ gpc[q] = "start" /\ prune[q] = "created" => diag = snap[q]
      /\ prune[q] = "running" => diag = snap[q]

ReapInv == ReapTypeOK /\ YoungInv /\ OnceInv /\ ListedInv /\ PinInv

-----------------------------------------------------------------------------
(* The steps of the creates. *)

\* What no step of a create but the making of its helper does: make a helper, go back
\* behind the seed, wait again, or take a helper from its waiting process.
Quiet ==
    /\ pc' \in [Attempt -> Cache!PC] /\ helper' \in [Attempt -> Cache!Helper]
    /\ \A b \in Attempt :
         /\ pc'[b] \in Waits => pc[b] \in Waits
         /\ pc[b] \notin Unseeded => pc'[b] \notin Unseeded
         /\ helper'[b] # "none" => helper[b] # "none"
         /\ helper[b] \in {"exited", "broken"} => helper'[b] \in {"none", "exited", "broken"}
         /\ helper[b] # "none" /\ pc[b] \in Waits => helper'[b] # "none"

\* The provider side of a create.
LEMMA ProviderQuiet ==
  ASSUME ReapTypeOK, NEW a \in Attempt,
         \/ Cache!Discover(a) \/ Cache!EnsureSlot(a) \/ Cache!CheckHelperVolume(a)
         \/ Cache!StartHelper(a) \/ Cache!WaitHelper(a) \/ Cache!RemoveHelper(a)
         \/ Cache!CreateRunner(a) \/ Cache!Revalidate(a) \/ Cache!DropRunner(a)
         \/ Cache!StartRunner(a)
  PROVE  Quiet
  <1> USE DEF ReapTypeOK, Quiet, Waits, Unseeded, Cache!PC, Cache!Helper, Cache!Goto,
              Cache!AwaitsHelper
  <1>1. CASE Cache!Discover(a)
    BY <1>1 DEF Cache!Discover
  <1>2. CASE Cache!EnsureSlot(a)
    <2>1. helper' = helper /\ pc[a] = "ensure"
      BY <1>2 DEF Cache!EnsureSlot
    <2>2. pc' = pc \/ pc' = [pc EXCEPT ![a] = "seed"] \/ pc' = [pc EXCEPT ![a] = "failed"]
      BY <1>2 DEF Cache!EnsureSlot
    <2> QED
      BY <2>1, <2>2
  <1>3. CASE Cache!CheckHelperVolume(a)
    BY <1>3 DEF Cache!CheckHelperVolume
  <1>4. CASE Cache!StartHelper(a)
    BY <1>4 DEF Cache!StartHelper
  <1>5. CASE Cache!WaitHelper(a)
    BY <1>5 DEF Cache!WaitHelper
  <1>6. CASE Cache!RemoveHelper(a)
    BY <1>6 DEF Cache!RemoveHelper, Cache!HelperGone
  <1>7. CASE Cache!CreateRunner(a)
    BY <1>7 DEF Cache!CreateRunner
  <1>8. CASE Cache!Revalidate(a)
    BY <1>8 DEF Cache!Revalidate
  <1>9. CASE Cache!DropRunner(a)
    BY <1>9 DEF Cache!DropRunner
  <1>10. CASE Cache!StartRunner(a)
    BY <1>10 DEF Cache!StartRunner
  <1> QED
    BY <1>1, <1>2, <1>3, <1>4, <1>5, <1>6, <1>7, <1>8, <1>9, <1>10

\* Its containers and its failures.
LEMMA HostQuiet ==
  ASSUME ReapTypeOK, NEW a \in Attempt,
         \/ Cache!SeedScript(a) \/ Cache!HelperBreaks(a) \/ Cache!PassGate(a)
         \/ Cache!RunnerExits(a) \/ Cache!RemoveRunner(a) \/ Cache!CallFails(a)
         \/ Cache!Killed(a)
  PROVE  Quiet
  <1> USE DEF ReapTypeOK, Quiet, Waits, Unseeded, Cache!PC, Cache!Helper, Cache!Goto,
              Cache!AwaitsHelper
  <1>1. CASE Cache!SeedScript(a)
    <2>1. pc' = pc
      BY <1>1 DEF Cache!SeedScript, Cache!TakeLock, Cache!CopyDone, Cache!WriteMarker
    <2>2. /\ helper[a] \in {"running", "copying", "copied"}
          /\ \E h \in {"exited", "copying", "copied"} : helper' = [helper EXCEPT ![a] = h]
      BY <1>1 DEF Cache!SeedScript, Cache!TakeLock, Cache!CopyDone, Cache!WriteMarker
    <2> QED
      BY <2>1, <2>2
  <1>2. CASE Cache!HelperBreaks(a)
    BY <1>2 DEF Cache!HelperBreaks
  <1>3. CASE Cache!PassGate(a) \/ Cache!RunnerExits(a) \/ Cache!RemoveRunner(a)
    BY <1>3 DEF Cache!PassGate, Cache!RunnerExits, Cache!RemoveRunner
  <1>4. CASE Cache!CallFails(a)
    BY <1>4 DEF Cache!CallFails
  <1>5. CASE Cache!Killed(a)
    BY <1>5 DEF Cache!Killed, Cache!Working
  <1> QED
    BY <1>1, <1>2, <1>3, <1>4, <1>5

\* A create or the rest of the host takes a step.
LEMMA CacheQuiet ==
  ASSUME ReapTypeOK, CacheStep \/ \E a \in Attempt : SeedExpires(a)
  PROVE  Quiet
  <1>1. CASE \E s \in Cache!Slot :
               Cache!OperatorPrunes(s) \/ Cache!SquatterComes(s) \/ Cache!SquatterLeaves(s)
    <2>1. pc' = pc /\ helper' = helper
      BY <1>1 DEF Cache!OperatorPrunes, Cache!SquatterComes, Cache!SquatterLeaves
    <2> QED
      BY <2>1 DEF Quiet, ReapTypeOK
  <1>2. ASSUME NEW a \in Attempt, Cache!CallFails(a)
        PROVE  Quiet
    BY <1>2, HostQuiet
  <1>3. CASE \E a \in Attempt : SeedExpires(a)
    BY <1>2, <1>3 DEF SeedExpires
  <1>4. CASE CacheStep
    BY <1>1, <1>4, ProviderQuiet, HostQuiet DEF CacheStep
  <1> QED
    BY <1>3, <1>4

-----------------------------------------------------------------------------
(* The invariant. *)

\* Nothing has run yet.
LEMMA InitReap == Init => ReapInv
  <1> SUFFICES ASSUME Init
               PROVE  ReapInv
    OBVIOUS
  <1>1. ReapTypeOK
    BY HousekeepingAssumption
       DEF Init, Cache!Init, ReapTypeOK, Cache!PC, Cache!Helper, PassPC
  <1>2. YoungInv /\ OnceInv /\ ListedInv /\ PinInv
    BY DEF Init, Cache!Init, YoungInv, OnceInv, ListedInv, PinInv, Waits, Unseeded,
           Cache!AwaitsHelper, AwaitsPrune
  <1> QED
    BY <1>1, <1>2 DEF ReapInv

\* The helpers are made by the creates and change by themselves; ages only fall.
LEMMA QuietReap ==
  ASSUME ReapInv, Quiet, UNCHANGED passVars,
         age' \in [HelperId -> 0 .. RunningMaxAge],
         \A h \in HelperId : age'[h] <= age[h]
  PROVE  ReapInv'
  <1> USE DEF ReapInv
  <1>1. ReapTypeOK'
    BY DEF ReapTypeOK, Quiet, passVars
  <1>2. YoungInv'
    <2>1. ASSUME NEW a \in Attempt, pc'[a] \in Waits
          PROVE  age'[a] <= SeedTimeout + Lag
      BY <2>1, HousekeepingAssumption DEF YoungInv, Quiet, ReapTypeOK, HelperId
    <2>2. ASSUME NEW q \in Pass, gpc'[q] \in AwaitsPrune
          PROVE  age'[q] <= PruneTimeout + Lag
      BY <2>2, HousekeepingAssumption DEF YoungInv, ReapTypeOK, HelperId, passVars
    <2> QED
      BY <2>1, <2>2 DEF YoungInv, Waits, Cache!AwaitsHelper
  <1>3. OnceInv'
    BY DEF OnceInv, Quiet, passVars, Unseeded
  <1>4. ListedInv'
    BY DEF ListedInv, Quiet, passVars, Unseeded, Waits, Cache!AwaitsHelper
  <1>5. PinInv'
    BY DEF PinInv, passVars
  <1> QED
    BY <1>1, <1>2, <1>3, <1>4, <1>5

\* A create makes its helper: no pass has listed it.
LEMMA SeedBeginsReap ==
  ASSUME ReapInv, NEW a \in Attempt, SeedBegins(a)
  PROVE  ReapInv'
  <1> USE DEF ReapInv
  <1>1. /\ pc[a] = "seed" /\ helper' = [helper EXCEPT ![a] = "created"]
        /\ pc' = [pc EXCEPT ![a] = "check"] \/ pc' = [pc EXCEPT ![a] = "failed"]
        /\ UNCHANGED passVars
    BY DEF SeedBegins, Cache!CreateHelper, Cache!HelperCreateLost, Cache!Goto
  <1>2. PICK t \in 0 .. SeedTimeout : age' = [age EXCEPT ![a] = t]
    BY DEF SeedBegins
  <1>3. ReapTypeOK'
    BY <1>1, <1>2, HousekeepingAssumption
       DEF ReapTypeOK, Cache!PC, Cache!Helper, passVars, HelperId
  <1>4. YoungInv'
    BY <1>1, <1>2, HousekeepingAssumption
       DEF YoungInv, ReapTypeOK, Waits, Cache!AwaitsHelper, passVars, HelperId
  <1>5. OnceInv'
    BY <1>1 DEF OnceInv, ReapTypeOK, passVars, Unseeded
  <1>6. ListedInv'
    BY <1>1 DEF ListedInv, ReapTypeOK, passVars, Unseeded, Waits, Cache!AwaitsHelper
  <1>7. PinInv'
    BY <1>1 DEF PinInv, passVars
  <1> QED
    BY <1>3, <1>4, <1>5, <1>6, <1>7

\* A step of a create, a seed or a runner.
LEMMA CacheReap ==
  ASSUME ReapInv, CacheStep \/ \E a \in Attempt : SeedExpires(a)
  PROVE  ReapInv'
  <1>1. Quiet
    BY CacheQuiet DEF ReapInv
  <1>2. UNCHANGED passVars
    BY DEF CacheStep, SeedExpires
  <1>3. Aging \/ age' = age
    BY DEF CacheStep, SeedExpires
  <1>4. /\ age' \in [HelperId -> 0 .. RunningMaxAge]
        /\ \A h \in HelperId : age'[h] <= age[h]
    BY <1>3, HousekeepingAssumption DEF Aging, ReapInv, ReapTypeOK
  <1> QED
    BY <1>1, <1>2, <1>4, QuietReap

\* Time does not go past the context of a process that waits.
LEMMA TickReap ==
  ASSUME ReapInv, Tick
  PROVE  ReapInv'
  <1> USE DEF ReapInv
  <1>1. UNCHANGED <<pc, helper, diag, gpc, todo, count, snap, prune>>
    BY DEF Tick, cacheVars, passVars
  <1>2. ReapTypeOK'
    BY <1>1, HousekeepingAssumption DEF ReapTypeOK, Tick
  <1>3. YoungInv'
    <2>1. ASSUME NEW a \in Attempt, pc[a] \in Waits
          PROVE  age'[a] <= SeedTimeout + Lag
      BY <2>1, HousekeepingAssumption DEF Tick, ReapTypeOK, HelperId, Waits
    <2>2. ASSUME NEW q \in Pass, gpc[q] \in AwaitsPrune
          PROVE  age'[q] <= PruneTimeout + Lag
      BY <2>2, HousekeepingAssumption DEF Tick, ReapTypeOK, HelperId
    <2> QED
      BY <1>1, <2>1, <2>2 DEF YoungInv
  <1>4. OnceInv' /\ ListedInv' /\ PinInv'
    BY <1>1 DEF OnceInv, ListedInv, PinInv
  <1> QED
    BY <1>2, <1>3, <1>4

-----------------------------------------------------------------------------
(* The passes. *)

\* What a listed helper is: nobody waits for it, or it has ended.
LEMMA ListHelpersReap ==
  ASSUME ReapInv, NEW q \in Pass, ListHelpers(q)
  PROVE  ReapInv'
  <1> USE DEF ReapInv
  <1> DEFINE list == {h \in HelperId : Reapable(h)} \cup Stuck
  <1>1. /\ UNCHANGED <<pc, helper, age, diag, snap, prune>>
        /\ gpc[q] = "idle"
    BY DEF ListHelpers, cacheVars
  <1>2. \/ gpc' = [gpc EXCEPT ![q] = "reap"]
        \/ gpc' = [gpc EXCEPT ![q] = "idle"]
        \/ gpc' = [gpc EXCEPT ![q] = "diag"] /\ prune[q] = "none" /\ q \in Pruner
    BY DEF ListHelpers, ReapingEnds, Goto
  <1>3. todo' = [todo EXCEPT ![q] = list] \/ todo' = [todo EXCEPT ![q] = {}]
    BY DEF ListHelpers, ReapingEnds
  <1>4. ReapTypeOK'
    <2>1. list \subseteq HelperId \cup Stuck
      OBVIOUS
    <2> HIDE DEF list
    <2> QED
      BY <1>1, <1>2, <1>3, <2>1 DEF ReapTypeOK, PassPC
  <1>5. YoungInv' /\ OnceInv' /\ PinInv'
    BY <1>1, <1>2 DEF YoungInv, OnceInv, PinInv, ReapTypeOK, AwaitsPrune
  <1>6. ListedInv'
    <2>1. ASSUME NEW a \in Attempt, a \in list
          PROVE  /\ pc[a] \notin Unseeded
                 /\ helper[a] \in {"none", "exited", "broken"} \/ pc[a] \notin Waits
      <3>1. Reapable(a) /\ a \notin Pass
        BY <2>1, HousekeepingAssumption
      <3>2. helper[a] # "none" /\ pc[a] \notin Unseeded
        BY <3>1 DEF Reapable, Alive, Terminal, OnceInv
      <3>3. CASE pc[a] \in Waits
        <4>1. ~(age[a] >= RunningMaxAge)
          BY <3>3, HousekeepingAssumption DEF YoungInv, ReapTypeOK, HelperId
        <4> QED
          BY <3>1, <3>2, <4>1 DEF Reapable, Terminal
      <3> QED
        BY <3>2, <3>3
    <2>2. ASSUME NEW o \in Pass, o \in list
          PROVE  \/ prune[o] \in {"exited", "gone"}
                 \/ prune[o] # "none" /\ gpc[o] \notin AwaitsPrune
      <3>1. Reapable(o) /\ o \notin Attempt
        BY <2>2, HousekeepingAssumption
      <3>2. prune[o] # "none"
        BY <3>1 DEF Reapable, Alive, Terminal
      <3>3. CASE gpc[o] \in AwaitsPrune
        <4>1. ~(age[o] >= RunningMaxAge)
          BY <3>3, HousekeepingAssumption DEF YoungInv, ReapTypeOK, HelperId
        <4> QED
          BY <3>1, <3>2, <4>1 DEF Reapable, Terminal
      <3> QED
        BY <3>2, <3>3
    <2> HIDE DEF list
    <2> QED
      BY <1>1, <1>2, <1>3, <2>1, <2>2 DEF ListedInv, ReapTypeOK, AwaitsPrune
  <1> QED
    BY <1>4, <1>5, <1>6

\* A helper is removed: a create nobody waits in loses its own, a pass its prune
\* helper; the diag volume is forgotten only when no helper pins it.
LEMMA RemovedReap ==
  ASSUME ReapInv, NEW h \in HelperId, Removed(h), Aging,
         h \in Pass => prune[h] # "none",
         ~(h \in Attempt /\ Alive(h) /\ Awaited(h)),
         ~(h \in Pass /\ Alive(h) /\ Awaited(h)),
         gpc' \in [Pass -> PassPC],
         todo' \in [Pass -> SUBSET (HelperId \cup Stuck)],
         \A q \in Pass : /\ todo'[q] \subseteq todo[q]
                         /\ gpc'[q] \in AwaitsPrune \cup {"unpin"} => gpc'[q] = gpc[q]
                         /\ gpc'[q] = "create" => gpc[q] = "create"
                         /\ gpc'[q] = "diag" => gpc[q] = "diag" \/ (prune[q] = "none" /\ q \in Pruner)
  PROVE  ReapInv'
  <1> USE DEF ReapInv
  <1>1. pc' = pc
    BY DEF Removed
  <1>2. \/ /\ h \in Attempt /\ helper' = [helper EXCEPT ![h] = "none"]
           /\ UNCHANGED <<diag, snap, prune>>
        \/ /\ h \in Pass /\ h \notin Attempt
           /\ prune' = [prune EXCEPT ![h] = "gone"]
           /\ snap' = [snap EXCEPT ![h] = None]
           /\ helper' = helper
           /\ diag' = diag \/ \A q \in Pruner : prune'[q] = "gone"
    BY DEF Removed, Cache!HelperGone, HelperId
  <1>3. /\ age' \in [HelperId -> 0 .. RunningMaxAge]
        /\ \A o \in HelperId : age'[o] <= age[o]
    BY HousekeepingAssumption DEF Aging, ReapTypeOK
  <1>5. ReapTypeOK'
    BY <1>1, <1>2, <1>3 DEF ReapTypeOK, Cache!Helper
  <1>6. YoungInv'
    <2>1. ASSUME NEW a \in Attempt, pc[a] \in Waits
          PROVE  age'[a] <= SeedTimeout + Lag
      BY <2>1, <1>3, HousekeepingAssumption DEF YoungInv, ReapTypeOK, HelperId
    <2>2. ASSUME NEW q \in Pass, gpc'[q] \in AwaitsPrune
          PROVE  age'[q] <= PruneTimeout + Lag
      BY <2>2, <1>3, HousekeepingAssumption DEF YoungInv, ReapTypeOK, HelperId
    <2> QED
      BY <1>1, <2>1, <2>2 DEF YoungInv, Waits, Cache!AwaitsHelper
  <1>7. OnceInv'
    BY <1>1, <1>2 DEF OnceInv, ReapTypeOK
  <1>8. ListedInv'
    BY <1>1, <1>2 DEF ListedInv, ReapTypeOK, Waits, Cache!AwaitsHelper
  <1>9. PinInv'
    <2>1. ASSUME NEW q \in Pass, prune'[q] \in {"created", "running", "exited"}
          PROVE  diag' = diag /\ snap'[q] = snap[q] /\ prune'[q] = prune[q]
      BY <2>1, <1>2 DEF PinInv, ReapTypeOK
    <2>2. ASSUME NEW q \in Pass, prune'[q] # "none"
          PROVE  q \in Pruner
      BY <2>2, <1>2 DEF PinInv, ReapTypeOK
    <2> QED
      BY <2>1, <2>2 DEF PinInv, AwaitsPrune
  <1> QED
    BY <1>5, <1>6, <1>7, <1>8, <1>9

\* A pass moves on and no helper changes but ages.
LEMMA MovesReap ==
  ASSUME ReapInv, UNCHANGED <<pc, helper, diag, snap, prune>>,
         age' \in [HelperId -> 0 .. RunningMaxAge],
         \A h \in HelperId : age'[h] <= age[h],
         gpc' \in [Pass -> PassPC],
         todo' \in [Pass -> SUBSET (HelperId \cup Stuck)],
         \A q \in Pass : /\ todo'[q] \subseteq todo[q]
                         /\ gpc'[q] \in AwaitsPrune => gpc[q] \in AwaitsPrune
                         /\ gpc'[q] = "unpin" => gpc[q] \in AwaitsPrune \cup {"unpin"}
                         /\ gpc'[q] = "start" => gpc[q] = "start" \/ diag = snap[q]
                         /\ gpc'[q] = "create" => gpc[q] \in {"create", "diag"}
                         /\ gpc'[q] = "diag" => gpc[q] = "diag" \/ (prune[q] = "none" /\ q \in Pruner)
  PROVE  ReapInv'
  <1> USE DEF ReapInv
  <1>1. ReapTypeOK'
    BY DEF ReapTypeOK
  <1>2. YoungInv'
    <2>1. ASSUME NEW a \in Attempt, pc[a] \in Waits
          PROVE  age'[a] <= SeedTimeout + Lag
      BY <2>1, HousekeepingAssumption DEF YoungInv, ReapTypeOK, HelperId
    <2>2. ASSUME NEW q \in Pass, gpc'[q] \in AwaitsPrune
          PROVE  age'[q] <= PruneTimeout + Lag
      BY <2>2, HousekeepingAssumption DEF YoungInv, ReapTypeOK, HelperId
    <2> QED
      BY <2>1, <2>2 DEF YoungInv
  <1>3. OnceInv' /\ ListedInv' /\ PinInv'
    BY DEF OnceInv, ListedInv, PinInv, ReapTypeOK
  <1> QED
    BY <1>1, <1>2, <1>3

\* Nobody waits for a helper that is reaped and may still work.
LEMMA ListedUnawaited ==
  ASSUME ReapInv, NEW q \in Pass, NEW h \in todo[q] \cap HelperId
  PROVE  ~(Alive(h) /\ Awaited(h))
  BY HousekeepingAssumption
     DEF ReapInv, ListedInv, Alive, Awaited, HelperId, Waits, Cache!AwaitsHelper, AwaitsPrune

\* A pass reaps one helper of its list, and goes on, fails or is at its cap.
LEMMA ReapReap ==
  ASSUME ReapInv, NEW q \in Pass, NEW h \in HelperId \cup Stuck, Reap(q, h)
  PROVE  ReapInv'
  <1> USE DEF ReapInv
  <1>1. /\ \/ gpc' = gpc
           \/ gpc' = [gpc EXCEPT ![q] = "idle"]
           \/ gpc' = [gpc EXCEPT ![q] = "diag"] /\ prune[q] = "none" /\ q \in Pruner
        /\ todo' = [todo EXCEPT ![q] = {}] \/ todo' = [todo EXCEPT ![q] = @ \ {h}]
        /\ h \in todo[q] /\ Aging
    BY DEF Reap, ReapingEnds, Goto
  <1>2. /\ gpc' \in [Pass -> PassPC]
        /\ todo' \in [Pass -> SUBSET (HelperId \cup Stuck)]
        /\ \A o \in Pass : /\ todo'[o] \subseteq todo[o]
                           /\ gpc'[o] \in AwaitsPrune \cup {"unpin"} => gpc'[o] = gpc[o]
                           /\ gpc'[o] = "create" => gpc[o] = "create"
                           /\ gpc'[o] = "start" => gpc[o] = "start"
                           /\ gpc'[o] = "diag" => gpc[o] = "diag" \/ (prune[o] = "none" /\ o \in Pruner)
    BY <1>1 DEF ReapTypeOK, PassPC, AwaitsPrune
  <1>3. /\ age' \in [HelperId -> 0 .. RunningMaxAge]
        /\ \A o \in HelperId : age'[o] <= age[o]
    BY <1>1, HousekeepingAssumption DEF Aging, ReapTypeOK
  <1>4. CASE Exists(h)
    <2>1. h \in HelperId /\ Removed(h)
      BY <1>4 DEF Reap, Exists, Alive, Terminal, HelperId
    <2>2. ~(Alive(h) /\ Awaited(h))
      BY <1>1, <2>1, ListedUnawaited
    <2>3. h \in Pass => prune[h] # "none"
      BY <1>4, HousekeepingAssumption DEF Exists, Alive, Terminal
    <2> QED
      BY <1>1, <1>2, <2>1, <2>2, <2>3, RemovedReap
  <1>5. CASE ~Exists(h)
    <2>1. UNCHANGED <<pc, helper, diag, snap, prune>>
      BY <1>5 DEF Reap, LeftAlone, cacheVars
    <2> QED
      BY <1>2, <1>3, <2>1, MovesReap
  <1> QED
    BY <1>4, <1>5

\* A pruner removes its own prune helper.
LEMMA RemovePruneReap ==
  ASSUME ReapInv, NEW q \in Pass, RemovePrune(q)
  PROVE  ReapInv'
  <1> USE DEF ReapInv
  <1>1. gpc[q] = "unpin" /\ gpc' = [gpc EXCEPT ![q] = "idle"] /\ todo' = todo /\ Aging
    BY DEF RemovePrune, Goto
  <1>2. /\ gpc' \in [Pass -> PassPC]
        /\ todo' \in [Pass -> SUBSET (HelperId \cup Stuck)]
        /\ \A o \in Pass : /\ todo'[o] \subseteq todo[o]
                           /\ gpc'[o] \in AwaitsPrune \cup {"unpin"} => gpc'[o] = gpc[o]
                           /\ gpc'[o] = "create" => gpc[o] = "create"
                           /\ gpc'[o] = "start" => gpc[o] = "start"
                           /\ gpc'[o] = "diag" => gpc[o] = "diag" \/ (prune[o] = "none" /\ o \in Pruner)
    BY <1>1 DEF ReapTypeOK, PassPC, AwaitsPrune
  <1>3. /\ age' \in [HelperId -> 0 .. RunningMaxAge]
        /\ \A o \in HelperId : age'[o] <= age[o]
    BY <1>1, HousekeepingAssumption DEF Aging, ReapTypeOK
  <1>4. q \in HelperId /\ q \notin Attempt /\ ~Awaited(q)
    BY <1>1, HousekeepingAssumption DEF HelperId, Awaited, AwaitsPrune
  <1>5. CASE LeftAlone
    <2>1. UNCHANGED <<pc, helper, diag, snap, prune>>
      BY <1>5 DEF LeftAlone, cacheVars
    <2> QED
      BY <1>2, <1>3, <2>1, MovesReap
  <1>6. CASE Removed(q)
    <2>1. prune[q] # "none"
      BY <1>1 DEF OnceInv
    <2> QED
      BY <1>1, <1>2, <1>4, <1>6, <2>1, RemovedReap
  <1> QED
    BY <1>5, <1>6 DEF RemovePrune

\* Listing the diag volume, the prune helper, the volume's other owners.
LEMMA PruneReap ==
  ASSUME ReapInv, NEW q \in Pass,
         \/ ListDiag(q) \/ CreatePrune(q) \/ CheckPrune(q) \/ StartPrune(q) \/ PruneWorks(q)
         \/ WaitPrune(q) \/ PruneFails(q) \/ PassDies(q) \/ DiagChanges
  PROVE  ReapInv'
  <1> USE DEF ReapInv
  <1>1. CASE ListDiag(q)
    <2>1. /\ gpc[q] = "diag" /\ UNCHANGED <<pc, helper, age, todo, prune, diag>>
          /\ \/ gpc' = [gpc EXCEPT ![q] = "create"] /\ diag \in Repo /\ snap' = [snap EXCEPT ![q] = diag]
             \/ gpc' = [gpc EXCEPT ![q] = "idle"] /\ snap' = snap
      BY <1>1 DEF ListDiag, Listed, Goto, cacheVars
    <2>2. ReapTypeOK'
      BY <2>1 DEF ReapTypeOK, PassPC
    <2>3. YoungInv' /\ OnceInv' /\ ListedInv' /\ PinInv'
      BY <2>1 DEF ReapTypeOK, YoungInv, OnceInv, ListedInv, PinInv, AwaitsPrune
    <2> QED
      BY <2>2, <2>3
  <1>2. CASE CreatePrune(q)
    <2>1. PICK t \in 0 .. PruneTimeout : age' = [age EXCEPT ![q] = t]
      BY <1>2 DEF CreatePrune
    <2>2. /\ gpc[q] = "create" /\ UNCHANGED <<pc, helper, todo, snap>>
          /\ prune' = [prune EXCEPT ![q] = "created"]
          /\ gpc' = [gpc EXCEPT ![q] = "check"] \/ gpc' = [gpc EXCEPT ![q] = "idle"]
          /\ diag' = IF diag = None THEN Foreign ELSE diag
      BY <1>2 DEF CreatePrune, Goto, cacheVars
    <2>3. ReapTypeOK'
      BY <2>1, <2>2, HousekeepingAssumption DEF ReapTypeOK, PassPC, HelperId
    <2>4. YoungInv'
      BY <2>1, <2>2, HousekeepingAssumption
         DEF YoungInv, ReapTypeOK, HelperId, AwaitsPrune, Waits
    <2>5. ListedInv'
      BY <2>2 DEF ListedInv, OnceInv, ReapTypeOK, AwaitsPrune
    <2>6. OnceInv' /\ PinInv'
      BY <2>2, HousekeepingAssumption DEF OnceInv, PinInv, ReapTypeOK, AwaitsPrune
    <2> QED
      BY <2>3, <2>4, <2>5, <2>6
  <1>3. CASE CheckPrune(q) \/ WaitPrune(q) \/ PruneFails(q) \/ PassDies(q)
    <2>1. /\ UNCHANGED <<pc, helper, age, diag, snap, prune>>
          /\ todo' = todo \/ todo' = [todo EXCEPT ![q] = {}]
          /\ \/ gpc' = [gpc EXCEPT ![q] = "idle"]
             \/ /\ gpc[q] \in AwaitsPrune
                /\ \/ gpc' = [gpc EXCEPT ![q] = "unpin"]
                   \/ gpc' = [gpc EXCEPT ![q] = "start"] /\ diag = snap[q]
      BY <1>3 DEF CheckPrune, WaitPrune, PruneFails, PassDies, Goto, cacheVars, AwaitsPrune
    <2>2. /\ age' \in [HelperId -> 0 .. RunningMaxAge]
          /\ \A h \in HelperId : age'[h] <= age[h]
      BY <2>1, HousekeepingAssumption DEF ReapTypeOK
    <2>3. /\ gpc' \in [Pass -> PassPC]
          /\ todo' \in [Pass -> SUBSET (HelperId \cup Stuck)]
          /\ \A o \in Pass :
               /\ todo'[o] \subseteq todo[o]
               /\ gpc'[o] \in AwaitsPrune => gpc[o] \in AwaitsPrune
               /\ gpc'[o] = "unpin" => gpc[o] \in AwaitsPrune \cup {"unpin"}
               /\ gpc'[o] = "start" => gpc[o] = "start" \/ diag = snap[o]
               /\ gpc'[o] = "create" => gpc[o] \in {"create", "diag"}
               /\ gpc'[o] = "diag" => gpc[o] = "diag" \/ (prune[o] = "none" /\ o \in Pruner)
      BY <2>1 DEF ReapTypeOK, PassPC, AwaitsPrune
    <2> QED
      BY <2>1, <2>2, <2>3, MovesReap
  <1>4. CASE StartPrune(q)
    <2>1. /\ gpc[q] = "start" /\ UNCHANGED <<pc, helper, age, diag, todo, snap>>
          /\ \/ /\ prune[q] = "created" /\ prune' = [prune EXCEPT ![q] = "running"]
                /\ gpc' = [gpc EXCEPT ![q] = "wait"]
             \/ prune' = prune /\ gpc' = [gpc EXCEPT ![q] = "unpin"]
      BY <1>4 DEF StartPrune, Goto, cacheVars
    <2>2. ReapTypeOK'
      BY <2>1 DEF ReapTypeOK, PassPC
    <2>3. YoungInv' /\ OnceInv' /\ ListedInv' /\ PinInv'
      BY <2>1 DEF ReapTypeOK, YoungInv, OnceInv, ListedInv, PinInv, AwaitsPrune
    <2> QED
      BY <2>2, <2>3
  <1>5. CASE PruneWorks(q)
    <2>1. /\ UNCHANGED <<pc, helper, age, diag, gpc, todo, snap>>
          /\ prune[q] = "running" /\ prune' = [prune EXCEPT ![q] = "exited"]
      BY <1>5 DEF PruneWorks, cacheVars
    <2>2. ReapTypeOK'
      BY <2>1 DEF ReapTypeOK
    <2>3. YoungInv' /\ OnceInv' /\ ListedInv' /\ PinInv'
      BY <2>1 DEF ReapTypeOK, YoungInv, OnceInv, ListedInv, PinInv
    <2> QED
      BY <2>2, <2>3
  <1>6. CASE DiagChanges
    <2>1. /\ UNCHANGED <<pc, helper, age, gpc, todo, snap, prune>>
          /\ \A o \in Pass : prune[o] \in {"none", "gone"}
      BY <1>6 DEF DiagChanges, cacheVars
    <2> QED
      BY <2>1 DEF ReapTypeOK, YoungInv, OnceInv, ListedInv, PinInv
  <1> QED
    BY <1>1, <1>2, <1>3, <1>4, <1>5, <1>6

\* Whoever waits for a helper, it is younger than a wedged one, and what a pass has
\* listed as reapable stays reapable (reapHelpers, runHelperContainer).
THEOREM ReapInvariant == Spec => []ReapInv
  <1>1. ReapInv /\ [Next]_vars => ReapInv'
    <2> SUFFICES ASSUME ReapInv, [Next]_vars
                 PROVE  ReapInv'
      OBVIOUS
    <2>1. CASE Next
      <3>1. ASSUME NEW q \in Pass, PassStep(q) \/ PruneWorks(q) \/ PassDies(q)
            PROVE  ReapInv'
        BY <3>1, ListHelpersReap, ReapReap, RemovePruneReap, PruneReap DEF PassStep
      <3>2. CASE DiagChanges
        <4>1. PICK q \in Pass : TRUE
          BY <3>2, HousekeepingAssumption DEF DiagChanges
        <4> QED
          BY <3>2, <4>1, PruneReap
      <3>3. ASSUME NEW a \in Attempt, SeedBegins(a) \/ SeedExpires(a)
            PROVE  ReapInv'
        BY <3>3, SeedBeginsReap, CacheReap
      <3>4. CASE CacheStep \/ Tick
        BY <3>4, CacheReap, TickReap
      <3> QED
        BY <2>1, <3>1, <3>2, <3>3, <3>4 DEF Next
    <2>2. CASE UNCHANGED vars
      BY <2>2 DEF vars, ReapInv, ReapTypeOK, YoungInv, OnceInv, ListedInv, PinInv
    <2> QED
      BY <2>1, <2>2
  <1> QED
    BY <1>1, InitReap, PTL DEF Spec

-----------------------------------------------------------------------------
(* What follows from it. *)

\* Every step is one of CacheVolume, or leaves its variables alone: what a pass removes
\* has ended or has nobody who waits for it.
LEMMA NextIsCacheStep ==
  ASSUME ReapInv, [Next]_vars
  PROVE  [Cache!Next]_(Cache!vars)
  <1>1. ASSUME NEW a \in Attempt, SeedBegins(a) \/ SeedExpires(a)
        PROVE  Cache!Next
    BY <1>1 DEF SeedBegins, SeedExpires, Cache!Next, Cache!Provider
  <1>2. CASE CacheStep
    BY <1>2 DEF CacheStep, Cache!Next, Cache!Provider
  <1>3. ASSUME NEW q \in Pass, NEW h \in HelperId \cup Stuck, Reap(q, h), Exists(h), h \in Attempt
        PROVE  Cache!Next
    <2>1. Cache!HelperGone(h) /\ UNCHANGED <<vol, pc, slot, runner>>
      BY <1>3 DEF Reap, Removed
    <2>2. helper[h] \in {"exited", "broken"} \/ (helper[h] # "none" /\ pc[h] \notin Waits)
      BY <1>3, HousekeepingAssumption
         DEF Reap, ReapInv, ListedInv, Exists, Alive, Terminal
    <2> QED
      BY <1>3, <2>1, <2>2 DEF Cache!ReapHelper, Cache!Next, Waits
  <1>4. ASSUME NEW q \in Pass, NEW h \in HelperId \cup Stuck, Reap(q, h),
               ~(Exists(h) /\ h \in Attempt)
        PROVE  UNCHANGED cacheVars
    BY <1>4 DEF Reap, Removed, LeftAlone, cacheVars
  <1>5. ASSUME NEW q \in Pass, RemovePrune(q)
        PROVE  UNCHANGED cacheVars
    BY <1>5, HousekeepingAssumption DEF RemovePrune, Removed, LeftAlone, cacheVars
  <1>6. ASSUME NEW q \in Pass,
               \/ ListHelpers(q) \/ ListDiag(q) \/ CreatePrune(q) \/ CheckPrune(q)
               \/ StartPrune(q) \/ WaitPrune(q) \/ PruneFails(q) \/ PruneWorks(q) \/ PassDies(q)
        PROVE  UNCHANGED cacheVars
    BY <1>6 DEF ListHelpers, ListDiag, CreatePrune, CheckPrune, StartPrune, WaitPrune,
                PruneFails, PruneWorks, PassDies
  <1>7. Tick \/ DiagChanges \/ UNCHANGED vars => UNCHANGED cacheVars
    BY DEF Tick, DiagChanges, vars, cacheVars
  <1>8. UNCHANGED cacheVars => UNCHANGED Cache!vars
    BY DEF cacheVars, Cache!vars
  <1>9. ASSUME NEW q \in Pass, PassStep(q) \/ PruneWorks(q) \/ PassDies(q)
        PROVE  Cache!Next \/ UNCHANGED cacheVars
    BY <1>3, <1>4, <1>5, <1>6, <1>9 DEF PassStep
  <1> QED
    BY <1>1, <1>2, <1>7, <1>8, <1>9 DEF Next

\* Judged by state and age alone, the reaping takes only helpers CacheVolume lets go
\* (helperReapable, helperRunningMaxAge): what is proved of the caches holds beside the
\* passes of the GC.
THEOREM ImplementsCache == Spec => CacheSpec
  <1>1. Init => Cache!Init
    BY DEF Init
  <1> QED
    BY <1>1, ReapInvariant, NextIsCacheStep, PTL DEF Spec, CacheSpec, Cache!Spec

\* No pass takes a helper that may still work from the process that waits for it.
THEOREM AwaitedSpared == Spec => SparesAwaited
  <1> DEFINE Spared == \A h \in HelperId : Alive(h) /\ Awaited(h) => Exists(h)'
  <1>1. ASSUME ReapInv, [Next]_vars, NEW h \in HelperId, Alive(h), Awaited(h)
        PROVE  Exists(h)'
    <2> USE <1>1 DEF ReapInv
    <2>1. CASE h \in Attempt
      <3>1. h \notin Pass /\ pc[h] \in Waits /\ helper[h] # "none"
        BY <2>1, HousekeepingAssumption DEF Alive, Awaited, Waits
      <3>2. helper'[h] \in Cache!Helper /\ helper'[h] # "none"
        <4>1. helper[h] \in Cache!Helper
          BY <2>1 DEF ReapTypeOK
        <4>2. CASE Quiet
          BY <2>1, <3>1, <4>2 DEF Quiet
        <4>3. ASSUME NEW a \in Attempt, SeedBegins(a)
              PROVE  helper'[h] \in Cache!Helper /\ helper'[h] # "none"
          BY <2>1, <3>1, <4>1, <4>3
             DEF SeedBegins, Cache!CreateHelper, Cache!HelperCreateLost, ReapTypeOK, Cache!Helper
        <4>4. ASSUME NEW q \in Pass, NEW o \in HelperId \cup Stuck, Reap(q, o)
              PROVE  helper'[h] = helper[h]
          <5>1. CASE o = h
            BY <1>1, <4>4, <5>1, ListedUnawaited DEF Reap
          <5>2. CASE o # h
            BY <2>1, <4>4, <5>2
               DEF Reap, Removed, LeftAlone, cacheVars, Cache!HelperGone, ReapTypeOK
          <5> QED
            BY <5>1, <5>2
        <4>5. ASSUME NEW q \in Pass, PassStep(q) \/ PruneWorks(q) \/ PassDies(q)
              PROVE  helper'[h] = helper[h]
          <5>1. CASE RemovePrune(q)
            BY <5>1, HousekeepingAssumption DEF RemovePrune, Removed, LeftAlone, cacheVars
          <5> QED
            BY <4>4, <4>5, <5>1
               DEF PassStep, ListHelpers, ListDiag, CreatePrune, CheckPrune, StartPrune,
                   WaitPrune, PruneFails, PruneWorks, PassDies, cacheVars
        <4>6. CASE Tick \/ DiagChanges \/ UNCHANGED vars
          BY <3>1, <4>1, <4>6 DEF Tick, DiagChanges, vars, cacheVars
        <4>7. CASE CacheStep \/ \E a \in Attempt : SeedExpires(a)
          BY <4>2, <4>7, CacheQuiet
        <4> QED
          BY <3>1, <4>1, <4>3, <4>5, <4>6, <4>7 DEF Next
      <3> QED
        BY <2>1, <3>2 DEF Exists, Alive, Terminal, Cache!Helper
    <2>2. CASE h \in Pass
      <3>1. h \notin Attempt /\ gpc[h] \in AwaitsPrune /\ prune[h] \in {"created", "running"}
        BY <2>2, HousekeepingAssumption DEF Alive, Awaited
      <3>2. prune'[h] \in {"created", "running", "exited"}
        <4>1. ASSUME NEW q \in Pass, NEW o \in HelperId \cup Stuck, Reap(q, o)
              PROVE  prune'[h] = prune[h]
          <5>1. CASE o = h
            BY <1>1, <4>1, <5>1, ListedUnawaited DEF Reap
          <5>2. CASE o # h
            BY <2>2, <4>1, <5>2 DEF Reap, Removed, LeftAlone, ReapTypeOK
          <5> QED
            BY <5>1, <5>2
        <4>2. ASSUME NEW q \in Pass, RemovePrune(q)
              PROVE  prune'[h] = prune[h]
          BY <2>2, <3>1, <4>2, HousekeepingAssumption
             DEF RemovePrune, Removed, LeftAlone, ReapTypeOK, AwaitsPrune
        <4>3. ASSUME NEW q \in Pass, CreatePrune(q) \/ StartPrune(q) \/ PruneWorks(q)
              PROVE  prune'[h] \in {"created", "running", "exited"}
          BY <2>2, <3>1, <4>3 DEF CreatePrune, StartPrune, PruneWorks, ReapTypeOK
        <4>4. ASSUME NEW q \in Pass,
                     \/ ListHelpers(q) \/ ListDiag(q) \/ CheckPrune(q) \/ WaitPrune(q)
                     \/ PruneFails(q) \/ PassDies(q)
              PROVE  prune'[h] = prune[h]
          BY <4>4 DEF ListHelpers, ListDiag, CheckPrune, WaitPrune, PruneFails, PassDies
        <4>5. ASSUME NEW a \in Attempt, SeedBegins(a) \/ SeedExpires(a)
              PROVE  prune'[h] = prune[h]
          BY <4>5 DEF SeedBegins, SeedExpires, passVars
        <4>6. CASE CacheStep \/ Tick \/ DiagChanges \/ UNCHANGED vars
          BY <3>1, <4>6 DEF CacheStep, Tick, DiagChanges, vars, passVars
        <4>7. ASSUME NEW q \in Pass, PassStep(q) \/ PruneWorks(q) \/ PassDies(q)
              PROVE  prune'[h] \in {"created", "running", "exited"}
          BY <3>1, <4>1, <4>2, <4>3, <4>4, <4>7 DEF PassStep
        <4> QED
          BY <3>1, <4>5, <4>6, <4>7 DEF Next
      <3> QED
        BY <2>2, <3>2 DEF Exists, Alive, Terminal
    <2> QED
      BY <2>1, <2>2 DEF HelperId
  <1>2. ReapInv /\ [Next]_vars => [Spared]_vars
    BY <1>1
  <1> QED
    BY <1>2, ReapInvariant, PTL DEF Spec, SparesAwaited

\* find -delete runs on the volume that was listed (pruneDiagVolume, afterCreate).
THEOREM PrunesListed == Spec => []PrunesWhatItListed
  <1>1. ReapInv => PrunesWhatItListed
    BY DEF ReapInv, PinInv, PrunesWhatItListed
  <1> QED
    BY <1>1, ReapInvariant, PTL

-----------------------------------------------------------------------------
(* The theorems of CacheProofs beside the passes. *)

Kept == INSTANCE CacheProofs WITH Faults <- TRUE

\* The caches of Housekeeping and those of the proofs are the same definitions.
LEMMA KeptIsCache ==
    /\ Cache!Init <=> Kept!Init
    /\ Cache!Next <=> Kept!Next
    /\ Cache!vars = Kept!vars
  <1>1. Cache!Init <=> Kept!Init
    BY DEF Cache!Init, Kept!Init, Cache!Slot, Kept!Slot
  <1>2. (Cache!Next <=> Kept!Next) /\ Cache!vars = Kept!vars
    BY DEF
            Cache!Slot, Kept!Slot, Cache!Volume, Kept!Volume, Cache!Data, Kept!Data,
            Cache!vars, Kept!vars, Cache!PC, Kept!PC, Cache!Helper, Kept!Helper,
            Cache!Runner, Kept!Runner, Cache!Goto, Kept!Goto, Cache!NewCache,
            Kept!NewCache, Cache!Bare, Kept!Bare, Cache!Ours, Kept!Ours, Cache!Pinned,
            Kept!Pinned, Cache!Pin, Kept!Pin, Cache!Discover, Kept!Discover,
            Cache!Occupied, Kept!Occupied, Cache!GivesUp, Kept!GivesUp, Cache!Alternate,
            Kept!Alternate, Cache!EnsureSlot, Kept!EnsureSlot, Cache!CreateHelper,
            Kept!CreateHelper, Cache!HelperCreateLost, Kept!HelperCreateLost,
            Cache!CheckHelperVolume, Kept!CheckHelperVolume, Cache!StartHelper,
            Kept!StartHelper, Cache!WaitHelper, Kept!WaitHelper, Cache!HelperGone,
            Kept!HelperGone, Cache!RemoveHelper, Kept!RemoveHelper, Cache!TakeLock,
            Kept!TakeLock, Cache!CopyDone, Kept!CopyDone, Cache!WriteMarker,
            Kept!WriteMarker, Cache!HelperBreaks, Kept!HelperBreaks, Cache!AwaitsHelper,
            Kept!AwaitsHelper, Cache!ReapHelper, Kept!ReapHelper, Cache!CreateRunner,
            Kept!CreateRunner, Cache!Revalidate, Kept!Revalidate, Cache!DropRunner,
            Kept!DropRunner, Cache!StartRunner, Kept!StartRunner, Cache!PassGate,
            Kept!PassGate, Cache!RunnerExits, Kept!RunnerExits, Cache!RemoveRunner,
            Kept!RemoveRunner, Cache!Working, Kept!Working, Cache!CallFails,
            Kept!CallFails, Cache!Killed, Kept!Killed, Cache!OperatorPrunes,
            Kept!OperatorPrunes, Cache!SquatterComes, Kept!SquatterComes,
            Cache!SquatterLeaves, Kept!SquatterLeaves, Cache!Provider, Kept!Provider,
            Cache!SeedScript, Kept!SeedScript, Cache!Next, Kept!Next
  <1> QED
    BY <1>1, <1>2

\* So a behaviour of the one is one of the other.
LEMMA KeptSpec == Cache!Spec => Kept!Spec
  <1>1. [Cache!Next]_Cache!vars => [Kept!Next]_Kept!vars
    BY KeptIsCache DEF Cache!vars, Kept!vars
  <1> QED
    BY KeptIsCache, <1>1, PTL DEF Cache!Spec, Kept!Spec

\* What is assumed of the constants here is enough there.
LEMMA KeptAssumption == Kept!CacheAssumption
  BY HousekeepingAssumption
     DEF Kept!CacheAssumption, Kept!Volume, Kept!Data, Cache!Volume, Cache!Data

\* The GC reaps helpers while creates seed and runners start (reapLeakedHelpers), and a
\* started runner still mounts its own cache, and past the gate a whole tree.
THEOREM CachesBesidePasses == Spec => [](Cache!RunnerMountsOwnCache /\ Cache!RunsOnWholeTree)
  <1>1. Kept!Spec => []Kept!RunnerMountsOwnCache
    BY KeptAssumption, Kept!OwnCacheMounted
  <1>2. Kept!Spec => []Kept!RunsOnWholeTree
    BY KeptAssumption, Kept!WholeTreeSeen
  <1>3. Kept!RunnerMountsOwnCache => Cache!RunnerMountsOwnCache
    BY DEF Kept!RunnerMountsOwnCache, Cache!RunnerMountsOwnCache, Kept!Ours, Cache!Ours
  <1>4. Kept!RunsOnWholeTree => Cache!RunsOnWholeTree
    BY DEF Kept!RunsOnWholeTree, Cache!RunsOnWholeTree
  <1> QED
    BY <1>1, <1>2, <1>3, <1>4, ImplementsCache, KeptSpec, PTL DEF CacheSpec

-----------------------------------------------------------------------------
(* The rest of the types. *)

\* What ReapTypeOK leaves out.
RestTypeOK ==
    /\ diag \in Repo \cup {Foreign, None}
    /\ count \in [Pass -> 0 .. ReapMax - 1]

\* Counts stay below the cap.
LEMMA RestTypes ==
  ASSUME RestTypeOK, [Next]_vars
  PROVE  RestTypeOK'
  <1> USE HousekeepingAssumption DEF RestTypeOK
  <1>1. ASSUME NEW q \in Pass, ReapingEnds(q)
        PROVE  count' \in [Pass -> 0 .. ReapMax - 1]
    BY <1>1 DEF ReapingEnds
  <1>2. ASSUME NEW q \in Pass, ListHelpers(q)
        PROVE  RestTypeOK'
    BY <1>1, <1>2 DEF ListHelpers
  <1>3. ASSUME NEW q \in Pass, NEW h \in HelperId \cup Stuck, Reap(q, h)
        PROVE  RestTypeOK'
    <2>1. diag' \in {diag, None}
      BY <1>3 DEF Reap, Removed, LeftAlone
    <2>2. count' \in [Pass -> 0 .. ReapMax - 1]
      <3>1. CASE todo[q] = {h} \/ CapReached(Counted(q, h))
        BY <1>1, <1>3, <3>1 DEF Reap
      <3>2. CASE ~ (todo[q] = {h} \/ CapReached(Counted(q, h)))
        <4>1. count' = [count EXCEPT ![q] = Counted(q, h)]
          BY <1>3, <3>2 DEF Reap
        <4>2. Counted(q, h) \in 0 .. ReapMax - 1
          BY <3>2 DEF Counted, CapReached
        <4> QED
          BY <4>1, <4>2
      <3> QED
        BY <3>1, <3>2
    <2> QED
      BY <2>1, <2>2
  <1>4. ASSUME NEW q \in Pass,
               \/ ListDiag(q) \/ CreatePrune(q) \/ CheckPrune(q) \/ StartPrune(q)
               \/ WaitPrune(q) \/ PruneFails(q) \/ PruneWorks(q)
        PROVE  RestTypeOK'
    BY <1>4 DEF ListDiag, CreatePrune, CheckPrune, StartPrune, WaitPrune, PruneFails, PruneWorks
  <1>5. ASSUME NEW q \in Pass, RemovePrune(q) \/ PassDies(q)
        PROVE  RestTypeOK'
    BY <1>5 DEF RemovePrune, Removed, LeftAlone, PassDies
  <1>6. CASE CacheStep \/ Tick \/ DiagChanges \/ \E a \in Attempt : SeedBegins(a) \/ SeedExpires(a)
    BY <1>6 DEF CacheStep, Tick, DiagChanges, SeedBegins, SeedExpires, passVars
  <1>7. CASE UNCHANGED vars
    BY <1>7 DEF vars
  <1> QED
    BY <1>2, <1>3, <1>4, <1>5, <1>6, <1>7 DEF Next, PassStep

\* Every variable has its type: a pass stops below its cap (reapLeakedHelpers,
\* helperReapMax).
THEOREM HousekeepingTypeCorrect == Spec => []TypeOK
  <1>1. Init => RestTypeOK
    BY HousekeepingAssumption DEF Init, RestTypeOK
  <1>2. RestTypeOK /\ [Next]_vars => RestTypeOK'
    BY RestTypes
  <1>3. Kept!Spec => []Kept!TypeOK
    BY KeptAssumption, Kept!CacheTypeCorrect
  <1>4. Kept!TypeOK => Cache!TypeOK
    BY DEF Kept!TypeOK, Cache!TypeOK, Kept!Slot, Cache!Slot, Kept!Volume, Cache!Volume,
           Kept!Data, Cache!Data, Kept!PC, Cache!PC, Kept!Helper, Cache!Helper,
           Kept!Runner, Cache!Runner
  <1>5. ReapInv /\ RestTypeOK /\ Cache!TypeOK => TypeOK
    BY DEF ReapInv, ReapTypeOK, RestTypeOK, TypeOK
  <1> QED
    BY <1>1, <1>2, <1>3, <1>4, <1>5, ReapInvariant, ImplementsCache, KeptSpec, PTL
       DEF Spec, CacheSpec
===============================================================================
