----------------------------- MODULE CacheProofs -----------------------------
(***************************************************************************)
(* Theorems about module CacheVolume, for any number of creates and slots. *)
(* The two invariants about the runner follow from MountInv, which is      *)
(* inductive together with the types.                                      *)
(***************************************************************************)
EXTENDS CacheVolume, TLAPS

\* The start satisfies the types and MountInv: there is nothing yet.
LEMMA InitOK == Init => TypeOK /\ MountInv
<1> SUFFICES ASSUME Init PROVE TypeOK /\ MountInv
  OBVIOUS
<1> USE CacheAssumption
<1>1. 1 \in Slot
  BY DEF Slot
<1>2. TypeOK
  BY <1>1 DEF Init, TypeOK, PC, Helper, Runner
<1>3. MountInv
  BY <1>1 DEF Init, MountInv, Ours
<1> QED
  BY <1>2, <1>3

\* Every step keeps the types.
LEMMA TypeStep ==
  ASSUME TypeOK, MountInv, [Next]_vars
  PROVE  TypeOK'
<1> USE CacheAssumption DEF TypeOK
<1>1. NewCache \in Volume /\ Bare \in Volume
  BY DEF NewCache, Bare, Volume, Data
<1>2. \A s \in Slot : vol[s] # None => vol[s] \in Volume
  OBVIOUS
<1>3. CASE UNCHANGED vars
  BY <1>3 DEF vars
<1>4. ASSUME NEW a \in Attempt, Provider(a) PROVE TypeOK'
  <2>1. CASE Discover(a)
    BY <2>1 DEF Discover, Goto, PC
  <2>2. CASE EnsureSlot(a)
    <3>1. vol' \in [Slot -> Volume \cup {None}]
      BY <2>2, <1>1 DEF EnsureSlot
    <3>2. slot' \in [Attempt -> Slot]
      <4>1. ASSUME ~GivesUp(a), NEW t \in Alternate(slot[a]) PROVE t \in Slot
        BY <4>1 DEF Alternate, GivesUp, Slot
      <4> QED
        BY <2>2, <4>1 DEF EnsureSlot
    <3>3. pc' \in [Attempt -> PC]
      BY <2>2 DEF EnsureSlot, Goto, PC
    <3> QED
      BY <2>2, <3>1, <3>2, <3>3 DEF EnsureSlot
  <2>3. CASE CreateHelper(a)
    BY <2>3, <1>1 DEF CreateHelper, Pin, Goto, PC, Helper
  <2>4. CASE CheckHelperVolume(a)
    BY <2>4 DEF CheckHelperVolume, Goto, PC
  <2>5. CASE StartHelper(a)
    BY <2>5 DEF StartHelper, Goto, PC, Helper
  <2>6. CASE WaitHelper(a)
    BY <2>6 DEF WaitHelper, Goto, PC
  <2>7. CASE RemoveHelper(a)
    BY <2>7 DEF RemoveHelper, HelperGone, Goto, PC, Helper
  <2>8. CASE CreateRunner(a)
    BY <2>8, <1>1 DEF CreateRunner, Pin, Goto, PC, Runner
  <2>9. CASE Revalidate(a)
    BY <2>9 DEF Revalidate, Goto, PC
  <2>10. CASE DropRunner(a)
    BY <2>10 DEF DropRunner, Goto, PC, Runner
  <2>11. CASE StartRunner(a)
    BY <2>11 DEF StartRunner, Goto, PC, Runner
  <2> QED
    BY <1>4, <2>1, <2>2, <2>3, <2>4, <2>5, <2>6, <2>7, <2>8, <2>9, <2>10, <2>11 DEF Provider
<1>5. ASSUME NEW a \in Attempt, SeedScript(a) PROVE TypeOK'
  <2>1. helper[a] \in {"running", "copying", "copied"}
    BY <1>5 DEF SeedScript, TakeLock, CopyDone, WriteMarker
  <2>2. vol[slot[a]] \in Volume
    BY <2>1 DEF MountInv
  <2>3. /\ [vol[slot[a]] EXCEPT !.data = "part"] \in Volume
        /\ [vol[slot[a]] EXCEPT !.data = "whole"] \in Volume
        /\ [vol[slot[a]] EXCEPT !.mark = TRUE] \in Volume
    BY <2>2 DEF Volume, Data
  <2>4. CASE TakeLock(a)
    BY <2>3, <2>4 DEF TakeLock, Helper
  <2>5. CASE CopyDone(a)
    BY <2>3, <2>5 DEF CopyDone, Helper
  <2>6. CASE WriteMarker(a)
    BY <2>3, <2>6 DEF WriteMarker, Helper
  <2> QED
    BY <1>5, <2>4, <2>5, <2>6 DEF SeedScript
<1>6. ASSUME NEW a \in Attempt, HelperBreaks(a) \/ ReapHelper(a) PROVE TypeOK'
  BY <1>6 DEF HelperBreaks, ReapHelper, HelperGone, Helper
<1>7. ASSUME NEW a \in Attempt, PassGate(a) \/ RunnerExits(a) \/ RemoveRunner(a) PROVE TypeOK'
  BY <1>7 DEF PassGate, RunnerExits, RemoveRunner, Runner
<1>8. ASSUME NEW a \in Attempt, HelperCreateLost(a) PROVE TypeOK'
  BY <1>8, <1>1 DEF HelperCreateLost, Pin, Goto, PC, Helper
<1>10. ASSUME NEW a \in Attempt, CallFails(a) \/ Killed(a) PROVE TypeOK'
  BY <1>10 DEF CallFails, Killed, Goto, PC
<1>9. ASSUME NEW s \in Slot, OperatorPrunes(s) \/ SquatterComes(s) \/ SquatterLeaves(s) PROVE TypeOK'
  <2>1. [ours |-> FALSE, data |-> "part", mark |-> TRUE] \in Volume
    BY DEF Volume, Data
  <2>2. vol' \in [Slot -> Volume \cup {None}]
    BY <1>9, <2>1 DEF OperatorPrunes, SquatterComes, SquatterLeaves
  <2> QED
    BY <1>9, <2>2 DEF OperatorPrunes, SquatterComes, SquatterLeaves
<1> QED
  BY <1>3, <1>4, <1>5, <1>6, <1>7, <1>8, <1>9, <1>10 DEF Next

\* Every step keeps MountInv.
LEMMA MountStep ==
  ASSUME TypeOK, MountInv, [Next]_vars
  PROVE  MountInv'
<1> USE CacheAssumption
<1>1. \A s \in Slot : vol[s] # None => vol[s] \in Volume
  BY DEF TypeOK
<1>2. NewCache.ours = TRUE /\ NewCache.mark = FALSE /\ Bare.ours = FALSE /\ Bare.mark = FALSE
  BY DEF NewCache, Bare
<1>3. NewCache \in Volume /\ Bare \in Volume
  BY DEF NewCache, Bare, Volume, Data
<1>4. CASE UNCHANGED vars
  BY <1>4 DEF vars, MountInv, Ours
<1>5. ASSUME NEW a \in Attempt, Provider(a) PROVE MountInv'
  <2>1. CASE Discover(a)
    BY <2>1 DEF Discover, Goto, MountInv, Ours, TypeOK
  <2>2. CASE EnsureSlot(a)
    BY <2>2, <1>2, <1>3 DEF EnsureSlot, Occupied, Goto, MountInv, Ours, TypeOK
  <2>3. CASE CreateHelper(a)
    BY <2>3, <1>2, <1>3 DEF CreateHelper, Pin, Goto, MountInv, Ours, TypeOK
  <2>4. CASE CheckHelperVolume(a)
    BY <2>4 DEF CheckHelperVolume, Goto, MountInv, Ours, TypeOK
  <2>5. CASE StartHelper(a)
    BY <2>5 DEF StartHelper, Goto, MountInv, Ours, TypeOK
  <2>6. CASE WaitHelper(a)
    BY <2>6 DEF WaitHelper, Goto, MountInv, Ours, TypeOK
  <2>7. CASE RemoveHelper(a)
    BY <2>7 DEF RemoveHelper, HelperGone, Goto, MountInv, Ours, TypeOK
  <2>8. CASE CreateRunner(a)
    BY <2>8, <1>2, <1>3 DEF CreateRunner, Pin, Goto, MountInv, Ours, TypeOK
  <2>9. CASE Revalidate(a)
    BY <2>9 DEF Revalidate, Goto, MountInv, Ours, TypeOK
  <2>10. CASE DropRunner(a)
    BY <2>10 DEF DropRunner, Goto, MountInv, Ours, TypeOK
  <2>11. CASE StartRunner(a)
    BY <2>11 DEF StartRunner, Goto, MountInv, Ours, TypeOK
  <2> QED
    BY <1>5, <2>1, <2>2, <2>3, <2>4, <2>5, <2>6, <2>7, <2>8, <2>9, <2>10, <2>11 DEF Provider
<1>6. ASSUME NEW a \in Attempt, SeedScript(a) PROVE MountInv'
  <2> DEFINE here == slot[a]
  <2>0. /\ here \in Slot
        /\ vol[here] \in Volume /\ vol[here] # None /\ vol[here].ours
    BY <1>1, <1>6 DEF SeedScript, TakeLock, CopyDone, WriteMarker, MountInv, Ours, TypeOK
  \* The script changes the data or the marker of its volume and nothing else.
  <2>4. ASSUME NEW v, v \in Volume, v.ours, vol' = [vol EXCEPT ![here] = v]
        PROVE  /\ vol'[here] = v
               /\ \A s \in Slot : s # here => vol'[s] = vol[s]
               /\ \A s \in Slot : vol[s] # None => vol'[s] # None
               /\ \A s \in Slot : Ours(s)' <=> Ours(s)
    BY <2>0, <2>4 DEF TypeOK, Ours
  <2>1. CASE TakeLock(a)
    <3>1. CASE vol[here].mark
      BY <2>1, <3>1 DEF TakeLock, MountInv, Ours, TypeOK
    <3>2. CASE ~vol[here].mark
      <4> DEFINE v == [vol[here] EXCEPT !.data = "part"]
      <4>1. v \in Volume /\ v.ours /\ ~v.mark
        BY <2>0, <3>2 DEF Volume, Data
      <4>2. vol' = [vol EXCEPT ![here] = v]
        BY <2>1, <3>2 DEF TakeLock
      <4> HIDE DEF v
      <4>3. /\ vol'[here] = v
            /\ \A s \in Slot : s # here => vol'[s] = vol[s]
            /\ \A s \in Slot : vol[s] # None => vol'[s] # None
            /\ \A s \in Slot : Ours(s)' <=> Ours(s)
        BY <2>4, <4>1, <4>2
      <4>4. /\ lock[here] = None /\ lock' = [lock EXCEPT ![here] = a]
            /\ helper[a] = "running" /\ helper' = [helper EXCEPT ![a] = "copying"]
            /\ UNCHANGED <<pc, slot, runner>>
        BY <2>1, <3>2 DEF TakeLock
      <4> QED
        BY <2>0, <3>2, <4>1, <4>3, <4>4 DEF MountInv, TypeOK
    <3> QED
      BY <3>1, <3>2
  <2>2. CASE CopyDone(a)
    <3> DEFINE v == [vol[here] EXCEPT !.data = "whole"]
    <3>1. v \in Volume /\ v.ours /\ v.data = "whole" /\ v.mark = vol[here].mark
      BY <2>0 DEF Volume, Data
    <3>2. vol' = [vol EXCEPT ![here] = v]
      BY <2>2 DEF CopyDone
    <3> HIDE DEF v
    <3>3. /\ vol'[here] = v
          /\ \A s \in Slot : s # here => vol'[s] = vol[s]
          /\ \A s \in Slot : vol[s] # None => vol'[s] # None
          /\ \A s \in Slot : Ours(s)' <=> Ours(s)
      BY <2>4, <3>1, <3>2
    <3>4. /\ helper[a] = "copying" /\ helper' = [helper EXCEPT ![a] = "copied"]
          /\ UNCHANGED <<lock, pc, slot, runner>>
      BY <2>2 DEF CopyDone
    <3> QED
      BY <2>0, <3>1, <3>3, <3>4 DEF MountInv, TypeOK
  <2>3. CASE WriteMarker(a)
    <3> DEFINE v == [vol[here] EXCEPT !.mark = TRUE]
    <3>1. v \in Volume /\ v.ours /\ v.mark /\ v.data = "whole"
      BY <2>0, <2>3 DEF WriteMarker, MountInv, Volume, Data
    <3>2. vol' = [vol EXCEPT ![here] = v]
      BY <2>3 DEF WriteMarker
    <3> HIDE DEF v
    <3>3. /\ vol'[here] = v
          /\ \A s \in Slot : s # here => vol'[s] = vol[s]
          /\ \A s \in Slot : vol[s] # None => vol'[s] # None
          /\ \A s \in Slot : Ours(s)' <=> Ours(s)
      BY <2>4, <3>1, <3>2
    <3>4. /\ helper[a] = "copied" /\ helper' = [helper EXCEPT ![a] = "exited"]
          /\ lock' = [lock EXCEPT ![here] = None]
          /\ UNCHANGED <<pc, slot, runner>>
      BY <2>3 DEF WriteMarker
    <3> QED
      BY <2>0, <3>1, <3>3, <3>4 DEF MountInv, TypeOK
  <2> QED
    BY <1>6, <2>1, <2>2, <2>3 DEF SeedScript
<1>7. ASSUME NEW a \in Attempt, HelperBreaks(a) PROVE MountInv'
  BY <1>7 DEF HelperBreaks, MountInv, Ours, TypeOK
<1>8. ASSUME NEW a \in Attempt, ReapHelper(a) PROVE MountInv'
  BY <1>8 DEF ReapHelper, AwaitsHelper, HelperGone, MountInv, Ours, TypeOK
<1>9. ASSUME NEW a \in Attempt, PassGate(a) \/ RunnerExits(a) \/ RemoveRunner(a) PROVE MountInv'
  BY <1>9 DEF PassGate, RunnerExits, RemoveRunner, MountInv, Ours, TypeOK
<1>10. ASSUME NEW a \in Attempt, CallFails(a) \/ Killed(a) PROVE MountInv'
  BY <1>10 DEF CallFails, Killed, AwaitsHelper, Working, Goto, MountInv, Ours, TypeOK
<1>12. ASSUME NEW a \in Attempt, HelperCreateLost(a) PROVE MountInv'
  BY <1>12, <1>2, <1>3 DEF HelperCreateLost, Pin, Goto, MountInv, Ours, TypeOK
<1>11. ASSUME NEW s \in Slot, OperatorPrunes(s) \/ SquatterComes(s) \/ SquatterLeaves(s) PROVE MountInv'
  BY <1>11 DEF OperatorPrunes, SquatterComes, SquatterLeaves, Occupied, Pinned, MountInv, Ours, TypeOK
<1> QED
  BY <1>4, <1>5, <1>6, <1>7, <1>8, <1>9, <1>10, <1>11, <1>12 DEF Next

\* Type correctness, and the mount invariant, of every behaviour.
LEMMA Invariant == Spec => [](TypeOK /\ MountInv)
<1>1. TypeOK /\ MountInv /\ [Next]_vars => (TypeOK /\ MountInv)'
  BY TypeStep, MountStep
<1> QED
  BY InitOK, <1>1, PTL DEF Spec

\* The state of volumes, helpers and runners keeps its types.
THEOREM CacheTypeCorrect == Spec => []TypeOK
BY Invariant, PTL

\* Containers hold on to validated volumes, marked caches are whole, the lock is held
\* by whoever copies (runHelperContainer, externalsSeedScript).
THEOREM MountsHold == Spec => []MountInv
BY Invariant, PTL

\* A started runner mounts its own cache (revalidateReferencedCaches).
THEOREM OwnCacheMounted == Spec => []RunnerMountsOwnCache
<1>1. MountInv => RunnerMountsOwnCache
  BY DEF MountInv, RunnerMountsOwnCache
<1> QED
  BY Invariant, <1>1, PTL

\* A runner past the gate sees the whole externals tree (wait_for_externals_seeded).
THEOREM WholeTreeSeen == Spec => []RunsOnWholeTree
<1>1. TypeOK /\ MountInv => RunsOnWholeTree
  <2> SUFFICES ASSUME TypeOK, MountInv, NEW a \in Attempt, runner[a] = "running"
               PROVE  vol[slot[a]].data = "whole"
    BY DEF RunsOnWholeTree
  <2>1. slot[a] \in Slot /\ Ours(slot[a]) /\ vol[slot[a]].mark
    BY DEF TypeOK, MountInv
  <2> QED
    BY <2>1 DEF MountInv
<1> QED
  BY Invariant, <1>1, PTL

\* No seed writes into a volume that is not the cache (seedExternals, afterCreate).
THEOREM ForeignVolumesUnwritten == Spec => SeedsOnlyCaches
<1>1. ASSUME TypeOK, MountInv, [Next]_vars,
             NEW s \in Slot, vol[s] # None, vol'[s] # None, vol'[s] # vol[s]
      PROVE  vol[s].ours
  <2>1. vol' # vol
    BY <1>1
  <2>2. PICK a \in Attempt : SeedScript(a) /\ s = slot[a]
    BY <1>1, <2>1 DEF Next, vars, Provider, SeedScript, Discover, EnsureSlot, CreateHelper, Pin,
         CheckHelperVolume, StartHelper, WaitHelper, RemoveHelper, CreateRunner, Revalidate,
         DropRunner, StartRunner, HelperBreaks, ReapHelper, PassGate, RunnerExits, RemoveRunner,
         HelperCreateLost, CallFails, Killed, OperatorPrunes, SquatterComes, SquatterLeaves, TakeLock, CopyDone,
         WriteMarker, TypeOK, Slot
  <2> QED
    BY <1>1, <2>2 DEF SeedScript, TakeLock, CopyDone, WriteMarker, MountInv, Ours
<1>2. TypeOK /\ MountInv /\ [Next]_vars =>
        [\A s \in Slot : vol[s] # None /\ vol'[s] # None /\ vol'[s] # vol[s] => vol[s].ours]_vars
  BY <1>1
<1> QED
  BY Invariant, <1>2, PTL DEF Spec, SeedsOnlyCaches

-----------------------------------------------------------------------------
(* Creates converge on one volume.  The facts about slots hold while nobody takes a    *)
(* foreign volume away.                                                                *)

\* Below the cache, and below the slot a create tries, every slot is occupied.
SlotInv ==
    /\ \A s \in Slot : Ours(s) => \A t \in 1 .. s - 1 : Occupied(t)
    /\ \A a \in Attempt : pc[a] = "ensure" => \A t \in 1 .. slot[a] - 1 : Occupied(t)
    /\ \A a \in Attempt : pc[a] = "discover" => slot[a] = 1

\* A slot that is lower than another is a slot.
LEMMA LowerSlots == \A s \in Slot : \A t \in 1 .. s - 1 : t \in Slot
BY CacheAssumption DEF Slot

\* No volume becomes the cache's own but by the VolumeCreate of EnsureCacheVolume, and a
\* volume that is not the cache stays.
LEMMA SlotsChange ==
  ASSUME TypeOK, MountInv, Next, ~SquattersLeave
  PROVE  /\ \A s \in Slot : Occupied(s) => Occupied(s)'
         /\ \A s \in Slot : Ours(s)' => \/ Ours(s)
                                        \/ \E a \in Attempt : pc[a] = "ensure" /\ slot[a] = s
<1> USE CacheAssumption
<1>1. NewCache.ours = TRUE /\ Bare.ours = FALSE /\ NewCache # None /\ Bare # None
  <2>1. NewCache \in Volume /\ Bare \in Volume
    BY DEF NewCache, Bare, Volume, Data
  <2> QED
    BY <2>1 DEF NewCache, Bare
<1>2. CASE UNCHANGED vol
  BY <1>2 DEF Occupied, Ours
<1>3. ASSUME NEW a \in Attempt, EnsureSlot(a)
      PROVE  /\ \A s \in Slot : Occupied(s) => Occupied(s)'
             /\ \A s \in Slot : Ours(s)' => Ours(s) \/ (pc[a] = "ensure" /\ slot[a] = s)
  BY <1>1, <1>3 DEF EnsureSlot, Occupied, Ours, TypeOK
<1>4. ASSUME NEW a \in Attempt, Pin(slot[a])
      PROVE  \A s \in Slot : (Occupied(s) => Occupied(s)') /\ (Ours(s)' => Ours(s))
  BY <1>1, <1>4 DEF Pin, Occupied, Ours, TypeOK
<1>5. ASSUME NEW a \in Attempt, SeedScript(a)
      PROVE  \A s \in Slot : (Occupied(s) => Occupied(s)') /\ (Ours(s)' => Ours(s))
  <2>1. vol[slot[a]] \in Volume /\ Ours(slot[a])
    BY <1>5 DEF SeedScript, TakeLock, CopyDone, WriteMarker, MountInv, TypeOK, Ours
  <2>2. \A s \in Slot : s # slot[a] => vol'[s] = vol[s]
    BY <1>5 DEF SeedScript, TakeLock, CopyDone, WriteMarker, TypeOK
  <2> QED
    BY <2>1, <2>2 DEF Occupied, Ours
<1>6. ASSUME NEW s \in Slot, OperatorPrunes(s) \/ SquatterComes(s)
      PROVE  \A t \in Slot : (Occupied(t) => Occupied(t)') /\ (Ours(t)' => Ours(t))
  <2>1. [ours |-> FALSE, data |-> "part", mark |-> TRUE] \in Volume
    BY DEF Volume, Data
  <2> QED
    BY <1>6, <2>1 DEF OperatorPrunes, SquatterComes, Occupied, Ours, TypeOK
<1>7. \/ UNCHANGED vol
      \/ \E a \in Attempt : EnsureSlot(a) \/ Pin(slot[a]) \/ SeedScript(a)
      \/ \E s \in Slot : OperatorPrunes(s) \/ SquatterComes(s)
  BY DEF Next, Provider, Discover, CreateHelper, CheckHelperVolume, StartHelper, WaitHelper,
       RemoveHelper, CreateRunner, Revalidate, DropRunner, StartRunner, HelperBreaks, ReapHelper,
       PassGate, RunnerExits, RemoveRunner, HelperCreateLost, CallFails, Killed, SquatterLeaves
<1> QED
  BY <1>2, <1>3, <1>4, <1>5, <1>6, <1>7

\* A create settles on its slot in EnsureCacheVolume, and never goes back there.
LEMMA OthersKeepSlots ==
  ASSUME TypeOK, Next
  PROVE  \/ \E b \in Attempt : Discover(b) \/ EnsureSlot(b)
         \/ /\ slot' = slot
            /\ \A a \in Attempt : pc'[a] \in {"discover", "ensure"} => pc'[a] = pc[a]
<1>1. ASSUME NEW b \in Attempt, Provider(b), ~Discover(b), ~EnsureSlot(b)
      PROVE  /\ slot' = slot
             /\ \A a \in Attempt : pc'[a] \in {"discover", "ensure"} => pc'[a] = pc[a]
  BY <1>1 DEF Provider, CreateHelper, CheckHelperVolume, StartHelper, WaitHelper, RemoveHelper,
       CreateRunner, Revalidate, DropRunner, StartRunner, Goto, TypeOK
<1>2. ASSUME NEW b \in Attempt, HelperCreateLost(b) \/ CallFails(b) \/ Killed(b)
      PROVE  /\ slot' = slot
             /\ \A a \in Attempt : pc'[a] \in {"discover", "ensure"} => pc'[a] = pc[a]
  BY <1>2 DEF HelperCreateLost, CallFails, Killed, Goto, TypeOK
<1>3. \/ \E b \in Attempt : Provider(b) \/ HelperCreateLost(b) \/ CallFails(b) \/ Killed(b)
      \/ UNCHANGED <<pc, slot>>
  BY DEF Next, SeedScript, TakeLock, CopyDone, WriteMarker, HelperBreaks, ReapHelper, PassGate,
       RunnerExits, RemoveRunner, OperatorPrunes, SquatterComes, SquatterLeaves
<1> QED
  BY <1>1, <1>2, <1>3

\* A create keeps its slot until it tries the next one, past an occupied one.
LEMMA SlotStep ==
  ASSUME TypeOK, MountInv, SlotInv, [Next]_vars, ~SquattersLeave
  PROVE  SlotInv'
<1> USE CacheAssumption
<1>1. CASE UNCHANGED vars
  BY <1>1 DEF vars, SlotInv, Ours, Occupied
<1>2. CASE Next
  <2>1. \A s \in Slot : Occupied(s) => Occupied(s)'
    BY <1>2, SlotsChange
  <2>2. \A s \in Slot : Ours(s)' => \A t \in 1 .. s - 1 : Occupied(t)'
    BY <1>2, <2>1, SlotsChange, LowerSlots DEF SlotInv
  <2>3. ASSUME NEW a \in Attempt, pc'[a] = "ensure"
        PROVE  \/ pc[a] = "ensure" /\ slot'[a] = slot[a]
               \/ pc[a] = "discover" /\ slot'[a] = slot[a]
               \/ pc[a] = "ensure" /\ Occupied(slot[a]) /\ slot'[a] = slot[a] + 1
    <3>1. CASE \E b \in Attempt : Discover(b) \/ EnsureSlot(b)
      BY <2>3, <3>1 DEF Discover, EnsureSlot, Alternate, Goto, TypeOK
    <3> QED
      BY <1>2, <2>3, <3>1, OthersKeepSlots
  <2>4. ASSUME NEW a \in Attempt, pc'[a] = "ensure", NEW t \in 1 .. slot'[a] - 1
        PROVE  Occupied(t)'
    <3>1. slot[a] \in Slot /\ slot[a] \in 1 .. MaxSlots
      BY DEF TypeOK, Slot
    <3>2. \/ slot'[a] = slot[a] /\ pc[a] \in {"discover", "ensure"}
          \/ slot'[a] = slot[a] + 1 /\ pc[a] = "ensure" /\ Occupied(slot[a])
      BY <2>3, <2>4
    <3>3. t \in 1 .. slot[a] - 1 \/ (t = slot[a] /\ Occupied(slot[a]))
      BY <2>4, <3>1, <3>2
    <3>4. pc[a] = "ensure" \/ slot[a] = 1
      BY <3>2 DEF SlotInv
    <3>5. CASE t \in 1 .. slot[a] - 1
      <4>1. pc[a] = "ensure"
        BY <3>4, <3>5
      <4>2. t \in Slot
        BY <3>1, <3>5, LowerSlots
      <4>3. Occupied(t)
        BY <3>5, <4>1 DEF SlotInv
      <4> QED
        BY <2>1, <4>2, <4>3
    <3>6. CASE t = slot[a] /\ Occupied(slot[a])
      BY <2>1, <3>1, <3>6
    <3> QED
      BY <3>3, <3>5, <3>6
  <2>5. ASSUME NEW a \in Attempt, pc'[a] = "discover"
        PROVE  slot'[a] = 1
    <3>1. CASE \E b \in Attempt : Discover(b) \/ EnsureSlot(b)
      BY <2>5, <3>1 DEF SlotInv, Discover, EnsureSlot, Goto, TypeOK
    <3> QED
      BY <1>2, <2>5, <3>1, OthersKeepSlots DEF SlotInv
  <2> QED
    BY <2>2, <2>4, <2>5 DEF SlotInv
<1> QED
  BY <1>1, <1>2

\* The slots in use, in every behaviour in which squatters stay.
LEMMA SlotsHold == ~SquattersLeave => (Spec => [](TypeOK /\ MountInv /\ SlotInv))
<1> SUFFICES ASSUME ~SquattersLeave PROVE Spec => [](TypeOK /\ MountInv /\ SlotInv)
  OBVIOUS
<1>1. Init => SlotInv
  BY CacheAssumption DEF Init, SlotInv, Ours, Slot
<1>2. TypeOK /\ MountInv /\ SlotInv /\ [Next]_vars => SlotInv'
  BY SlotStep
<1> QED
  BY <1>1, <1>2, Invariant, PTL DEF Spec

\* While squatters stay there is never a second volume of the cache, however many
\* creates race around them (AlternateCacheVolumeName, EnsureCacheVolume).
THEOREM OneVolume == ~SquattersLeave => (Spec => []OneCacheVolume)
<1> SUFFICES ASSUME ~SquattersLeave PROVE Spec => []OneCacheVolume
  OBVIOUS
<1>1. SlotInv => OneCacheVolume
  <2> SUFFICES ASSUME SlotInv, NEW s \in Slot, NEW t \in Slot, Ours(s), Ours(t) PROVE s = t
    BY DEF OneCacheVolume
  <2>1. ~(s < t) /\ ~(t < s)
    BY CacheAssumption DEF SlotInv, Occupied, Slot
  <2> QED
    BY <2>1, CacheAssumption DEF Slot
<1> QED
  BY <1>1, SlotsHold, PTL

\* While squatters stay and calls succeed, EnsureCacheVolume fails only if every slot it
\* may try is occupied by something that is not the cache.
THEOREM FullWhenFailed == ~SquattersLeave /\ ~Faults => (Spec => FailsOnlyWhenFull)
<1> SUFFICES ASSUME ~SquattersLeave, ~Faults PROVE Spec => FailsOnlyWhenFull
  OBVIOUS
<1>1. ASSUME TypeOK, MountInv, SlotInv, [Next]_vars,
             NEW a \in Attempt, pc[a] = "ensure", pc'[a] = "failed", NEW s \in Slot
      PROVE  Occupied(s)
  <2>1. Occupied(slot[a]) /\ GivesUp(a)
    BY <1>1 DEF Next, vars, Provider, SeedScript, Discover, EnsureSlot, CreateHelper,
         CheckHelperVolume, StartHelper, WaitHelper, RemoveHelper, CreateRunner, Revalidate,
         DropRunner, StartRunner, HelperBreaks, ReapHelper, PassGate, RunnerExits, RemoveRunner,
         HelperCreateLost, CallFails, Killed, OperatorPrunes, SquatterComes, SquatterLeaves,
         TakeLock, CopyDone, WriteMarker, Goto, TypeOK
  <2>2. slot[a] = MaxSlots
    BY <1>1, <2>1, CacheAssumption DEF GivesUp, TypeOK, Slot
  <2>3. s = slot[a] \/ s \in 1 .. slot[a] - 1
    BY <2>2, CacheAssumption DEF Slot
  <2> QED
    BY <1>1, <2>1, <2>3 DEF SlotInv
<1>2. TypeOK /\ MountInv /\ SlotInv /\ [Next]_vars =>
        [\A a \in Attempt :
           pc[a] = "ensure" /\ pc'[a] = "failed" => \A s \in Slot : Occupied(s)]_vars
  BY <1>1
<1> QED
  BY <1>2, SlotsHold, PTL DEF Spec, FailsOnlyWhenFull

-----------------------------------------------------------------------------
(* The gate of the runner, while no call fails. *)

\* A create that has still to seed, or waits for its seeder.
ToSeed(b) ==
    \/ pc[b] = "seed"
    \/ pc[b] \in {"check", "startHelper"} /\ helper[b] = "created"
    \/ pc[b] = "wait" /\ helper[b] \in {"running", "copying", "copied"}

\* A cache without its marker has somebody who will seed it, and a lock the one who
\* copies; a create that has still to seed has no helper yet.
SeedInv ==
    /\ \A s \in Slot : Ours(s) /\ ~vol[s].mark => \E b \in Attempt : slot[b] = s /\ ToSeed(b)
    /\ \A s \in Slot : lock[s] # None =>
         slot[lock[s]] = s /\ helper[lock[s]] \in {"copying", "copied"}
    /\ \A b \in Attempt : pc[b] = "seed" => helper[b] = "none"

\* The next step on the way of b to the marker waits for nobody.
SeedGoesOn(b) ==
    \/ pc[b] = "seed"
    \/ pc[b] \in {"check", "startHelper"} /\ helper[b] = "created"
    \/ helper[b] = "running" /\ lock[slot[b]] = None
    \/ helper[b] \in {"copying", "copied"}

\* A cache without a marker is a new one, whose create is about to seed it, or was one
\* before.
LEMMA MarkMissing ==
  ASSUME TypeOK, MountInv, Next, NEW s \in Slot, Ours(s)', ~vol'[s].mark
  PROVE  \/ Ours(s) /\ ~vol[s].mark
         \/ \E a \in Attempt : slot'[a] = s /\ pc'[a] = "seed"
<1> USE CacheAssumption
<1>1. Bare.ours = FALSE /\ \A v \in Volume : v # None
  BY DEF Bare
<1>2. CASE UNCHANGED vol
  BY <1>2 DEF Ours
<1>3. ASSUME NEW a \in Attempt, EnsureSlot(a), vol' # vol
      PROVE  (Ours(s) /\ ~vol[s].mark) \/ (slot'[a] = s /\ pc'[a] = "seed")
  BY <1>3 DEF EnsureSlot, Goto, Ours, TypeOK
<1>4. ASSUME NEW a \in Attempt, Pin(slot[a])
      PROVE  Ours(s) /\ ~vol[s].mark
  BY <1>1, <1>4 DEF Pin, Ours, TypeOK
<1>5. ASSUME NEW a \in Attempt, SeedScript(a)
      PROVE  Ours(s) /\ ~vol[s].mark
  <2>1. slot[a] \in Slot /\ vol[slot[a]] \in Volume /\ Ours(slot[a])
    BY <1>5 DEF SeedScript, TakeLock, CopyDone, WriteMarker, MountInv, TypeOK, Ours
  <2>2. s # slot[a] => vol'[s] = vol[s]
    BY <1>5 DEF SeedScript, TakeLock, CopyDone, WriteMarker, TypeOK
  <2>3. CASE s = slot[a]
    <3>1. vol' = vol \/ ~vol[s].mark \/ helper[a] = "copied" \/ helper[a] = "copying"
      BY <1>5, <2>3 DEF SeedScript, TakeLock, CopyDone, WriteMarker
    <3> QED
      BY <1>2, <2>1, <2>3, <3>1 DEF MountInv
  <2> QED
    BY <2>2, <2>3 DEF Ours
<1>6. ASSUME NEW t \in Slot, OperatorPrunes(t) \/ SquatterComes(t) \/ SquatterLeaves(t)
      PROVE  Ours(s) /\ ~vol[s].mark
  BY <1>6 DEF OperatorPrunes, SquatterComes, SquatterLeaves, Ours, TypeOK
<1>7. \/ UNCHANGED vol
      \/ \E a \in Attempt : EnsureSlot(a) \/ Pin(slot[a]) \/ SeedScript(a)
      \/ \E t \in Slot : OperatorPrunes(t) \/ SquatterComes(t) \/ SquatterLeaves(t)
  BY DEF Next, Provider, Discover, CreateHelper, CheckHelperVolume, StartHelper, WaitHelper,
       RemoveHelper, CreateRunner, Revalidate, DropRunner, StartRunner, HelperBreaks, ReapHelper,
       PassGate, RunnerExits, RemoveRunner, HelperCreateLost, CallFails, Killed
<1> QED
  BY <1>2, <1>3, <1>4, <1>5, <1>6, <1>7

\* Who has to seed a cache goes on to do so until the marker is there.
LEMMA SeedPersists ==
  ASSUME TypeOK, MountInv, Next, ~Faults, NEW b \in Attempt, ToSeed(b),
         Ours(slot[b]), ~vol[slot[b]].mark
  PROVE  slot'[b] = slot[b] /\ (ToSeed(b)' \/ vol'[slot[b]].mark)
<1> USE DEF ToSeed, TypeOK
<1>1. ASSUME NEW a \in Attempt, Provider(a)
      PROVE  slot'[b] = slot[b] /\ ToSeed(b)'
  <2>1. CASE a # b
    BY <1>1, <2>1 DEF Provider, Discover, EnsureSlot, CreateHelper, CheckHelperVolume,
         StartHelper, WaitHelper, RemoveHelper, HelperGone, CreateRunner, Revalidate,
         DropRunner, StartRunner, Goto
  <2>2. CASE a = b
    BY <1>1, <2>2 DEF Provider, Discover, EnsureSlot, CreateHelper, CheckHelperVolume,
         StartHelper, WaitHelper, RemoveHelper, CreateRunner, Revalidate,
         DropRunner, StartRunner, Goto
  <2> QED
    BY <2>1, <2>2
<1>2. ASSUME NEW a \in Attempt, SeedScript(a), a # b
      PROVE  slot'[b] = slot[b] /\ ToSeed(b)'
  BY <1>2 DEF SeedScript, TakeLock, CopyDone, WriteMarker
<1>3. CASE SeedScript(b)
  <2>1. vol[slot[b]] \in Volume /\ slot[b] \in Slot
    BY DEF Ours
  <2>2. CASE TakeLock(b) \/ CopyDone(b)
    BY <1>3, <2>2 DEF TakeLock, CopyDone
  <2>3. CASE WriteMarker(b)
    BY <2>1, <2>3 DEF WriteMarker, Volume
  <2> QED
    BY <1>3, <2>2, <2>3 DEF SeedScript
<1>4. \/ UNCHANGED <<pc, slot, helper>>
      \/ \E a \in Attempt : Provider(a) \/ SeedScript(a)
  BY DEF Next, HelperBreaks, ReapHelper, PassGate, RunnerExits, RemoveRunner,
       HelperCreateLost, CallFails, Killed, OperatorPrunes, SquatterComes, SquatterLeaves
<1> QED
  BY <1>1, <1>2, <1>3, <1>4

\* The lock of a volume is held by a seeder of that volume.
LEMMA LockStep ==
  ASSUME TypeOK, MountInv, SeedInv, Next, ~Faults, NEW s \in Slot, lock'[s] # None
  PROVE  slot'[lock'[s]] = s /\ helper'[lock'[s]] \in {"copying", "copied"}
<1> USE CacheAssumption DEF TypeOK
<1>1. ASSUME NEW a \in Attempt, Provider(a)
      PROVE  slot'[lock'[s]] = s /\ helper'[lock'[s]] \in {"copying", "copied"}
  <2>1. CASE Discover(a) \/ EnsureSlot(a)
    <3>1. lock' = lock /\ helper' = helper /\ \A c \in Attempt \ {a} : slot'[c] = slot[c]
      BY <2>1 DEF Discover, EnsureSlot
    <3>2. helper[a] = "none"
      BY <2>1 DEF Discover, EnsureSlot, MountInv
    <3> QED
      BY <3>1, <3>2 DEF SeedInv
  <2>2. CASE RemoveHelper(a)
    BY <2>2 DEF RemoveHelper, HelperGone, SeedInv
  <2>3. CASE CreateHelper(a) \/ StartHelper(a)
    <3>1. helper[a] \notin {"copying", "copied"}
      BY <2>3, <1>1 DEF CreateHelper, StartHelper, SeedInv
    <3> QED
      BY <2>3, <3>1 DEF CreateHelper, StartHelper, SeedInv
  <2>4. CASE UNCHANGED <<lock, slot, helper>>
    BY <2>4 DEF SeedInv
  <2> QED
    BY <1>1, <2>1, <2>2, <2>3, <2>4 DEF Provider, CheckHelperVolume, WaitHelper, CreateRunner,
         Revalidate, DropRunner, StartRunner
<1>2. ASSUME NEW a \in Attempt, SeedScript(a)
      PROVE  slot'[lock'[s]] = s /\ helper'[lock'[s]] \in {"copying", "copied"}
  <2>1. CASE TakeLock(a)
    BY <2>1 DEF TakeLock, SeedInv
  <2>2. CASE CopyDone(a)
    BY <2>2 DEF CopyDone, SeedInv
  <2>3. CASE WriteMarker(a)
    BY <2>3 DEF WriteMarker, SeedInv
  <2> QED
    BY <1>2, <2>1, <2>2, <2>3 DEF SeedScript
<1>3. \/ UNCHANGED <<lock, slot, helper>>
      \/ \E a \in Attempt : Provider(a) \/ SeedScript(a)
  BY DEF Next, HelperBreaks, ReapHelper, PassGate, RunnerExits, RemoveRunner,
       HelperCreateLost, CallFails, Killed, OperatorPrunes, SquatterComes, SquatterLeaves
<1> QED
  BY <1>1, <1>2, <1>3 DEF SeedInv

\* A create comes to its seed from EnsureCacheVolume, without a helper.
LEMMA HelperlessSeed ==
  ASSUME TypeOK, MountInv, SeedInv, Next, ~Faults, NEW b \in Attempt, pc'[b] = "seed"
  PROVE  helper'[b] = "none"
<1> USE DEF TypeOK
<1>1. ASSUME NEW a \in Attempt, Provider(a)
      PROVE  helper'[b] = "none"
  <2>1. CASE Discover(a) \/ EnsureSlot(a)
    <3>1. helper' = helper /\ helper[a] = "none"
      BY <2>1 DEF Discover, EnsureSlot, MountInv
    <3>2. a # b => pc[b] = "seed"
      BY <2>1 DEF Discover, EnsureSlot, Goto
    <3> QED
      BY <3>1, <3>2 DEF SeedInv
  <2>2. CASE ~Discover(a) /\ ~EnsureSlot(a)
    <3>1. a # b /\ pc[b] = "seed" /\ helper'[b] = helper[b]
      BY <1>1, <2>2 DEF Provider, CreateHelper, CheckHelperVolume, StartHelper, WaitHelper,
           RemoveHelper, HelperGone, CreateRunner, Revalidate, DropRunner, StartRunner, Goto
    <3> QED
      BY <3>1 DEF SeedInv
  <2> QED
    BY <2>1, <2>2
<1>2. ASSUME NEW a \in Attempt, SeedScript(a)
      PROVE  helper'[b] = "none"
  BY <1>2 DEF SeedScript, TakeLock, CopyDone, WriteMarker, SeedInv
<1>3. \/ UNCHANGED <<pc, helper>>
      \/ \E a \in Attempt : Provider(a) \/ SeedScript(a)
  BY DEF Next, HelperBreaks, ReapHelper, PassGate, RunnerExits, RemoveRunner,
       HelperCreateLost, CallFails, Killed, OperatorPrunes, SquatterComes, SquatterLeaves
<1> QED
  BY <1>1, <1>2, <1>3 DEF SeedInv

\* Every step keeps the invariant.
LEMMA SeedStep ==
  ASSUME TypeOK, MountInv, SeedInv, [Next]_vars, ~Faults
  PROVE  SeedInv'
<1>1. CASE UNCHANGED vars
  BY <1>1 DEF vars, SeedInv, ToSeed, Ours
<1>2. CASE Next
  <2>1. ASSUME NEW s \in Slot, Ours(s)', ~vol'[s].mark
        PROVE  \E b \in Attempt : slot'[b] = s /\ ToSeed(b)'
    <3>1. CASE Ours(s) /\ ~vol[s].mark
      <4>1. PICK b \in Attempt : slot[b] = s /\ ToSeed(b)
        BY <3>1 DEF SeedInv
      <4>2. slot'[b] = slot[b] /\ (ToSeed(b)' \/ vol'[slot[b]].mark)
        BY <1>2, <3>1, <4>1, SeedPersists
      <4> QED
        BY <2>1, <4>1, <4>2
    <3>2. CASE \E a \in Attempt : slot'[a] = s /\ pc'[a] = "seed"
      BY <3>2 DEF ToSeed
    <3> QED
      BY <1>2, <2>1, <3>1, <3>2, MarkMissing
  <2> QED
    BY <1>2, <2>1, LockStep, HelperlessSeed DEF SeedInv
<1> QED
  BY <1>1, <1>2

\* Without failures no runner waits at its gate in vain: until the marker is in its
\* mount, some create is bound to seed that very volume, and the next step of one of
\* them waits for nobody.  This is what GateOpens rests on (wait_for_externals_seeded:
\* "the flock guarantees the marker EVENTUALLY appears").
THEOREM GateHasSeeder ==
  ~Faults => (Spec => [](\A a \in Attempt : runner[a] = "waiting" =>
                           \/ vol[slot[a]].mark
                           \/ \E b \in Attempt : slot[b] = slot[a] /\ SeedGoesOn(b)))
<1> SUFFICES ASSUME ~Faults
             PROVE  Spec => [](\A a \in Attempt : runner[a] = "waiting" =>
                                 \/ vol[slot[a]].mark
                                 \/ \E b \in Attempt : slot[b] = slot[a] /\ SeedGoesOn(b))
  OBVIOUS
<1>1. Init => SeedInv
  BY CacheAssumption DEF Init, SeedInv, Ours
<1>2. TypeOK /\ MountInv /\ SeedInv /\ [Next]_vars => SeedInv'
  BY SeedStep
<1>3. TypeOK /\ MountInv /\ SeedInv =>
        \A a \in Attempt : runner[a] = "waiting" =>
          \/ vol[slot[a]].mark
          \/ \E b \in Attempt : slot[b] = slot[a] /\ SeedGoesOn(b)
  <2> SUFFICES ASSUME TypeOK, MountInv, SeedInv, NEW a \in Attempt, runner[a] = "waiting",
                      ~vol[slot[a]].mark
               PROVE  \E b \in Attempt : slot[b] = slot[a] /\ SeedGoesOn(b)
    OBVIOUS
  <2>1. slot[a] \in Slot /\ Ours(slot[a])
    BY DEF TypeOK, MountInv
  <2>2. PICK b \in Attempt : slot[b] = slot[a] /\ ToSeed(b)
    BY <2>1 DEF SeedInv
  <2>3. CASE lock[slot[a]] = None
    BY <2>2, <2>3 DEF ToSeed, SeedGoesOn
  <2>4. CASE lock[slot[a]] # None
    <3>1. lock[slot[a]] \in Attempt
      BY <2>1, <2>4 DEF TypeOK
    <3> QED
      BY <2>1, <2>4, <3>1 DEF SeedInv, SeedGoesOn
  <2> QED
    BY <2>3, <2>4
<1> QED
  BY <1>1, <1>2, <1>3, Invariant, PTL DEF Spec
=============================================================================
