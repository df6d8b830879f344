--------------------------- MODULE ThrottleProofs ---------------------------
(***************************************************************************)
(* Proofs about ThrottleStamp, for any number of processes, any interval   *)
(* and any delay of a create.                                              *)
(***************************************************************************)
EXTENDS ThrottleStamp, TLAPS

\* The initial states satisfy the inductive invariant.
LEMMA InitStamp == Init => TypeOK /\ StampInv
  <1> SUFFICES ASSUME Init
               PROVE  TypeOK /\ StampInv
    OBVIOUS
  <1>1. TypeOK
    BY ThrottleAssumption DEF Init, TypeOK, Stamp, PC, Unreadable
  <1>2. StampInv
    BY ThrottleAssumption DEF Init, StampInv, Never, Unreadable
  <1> QED
    BY <1>1, <1>2

\* Every step keeps the types.
LEMMA StepTypes ==
  ASSUME TypeOK, [Next]_vars
  PROVE  TypeOK'
  <1> USE DEF TypeOK, Goto, Forget, PC
  <1>1. ASSUME NEW p \in Proc, Step(p)
        PROVE  TypeOK'
    <2>1. CASE ClaimRound(p)
      BY <2>1 DEF ClaimRound
    <2>2. CASE BuildLabel(p)
      BY <2>2 DEF BuildLabel
    <2>3. CASE Ends(p)
      BY <2>3 DEF Ends
    <2>4. CASE InspectStamp(p)
      <3>1. PICK b \in BOOLEAN : runs' = [runs EXCEPT ![p] = b]
        <4>1. Usable(stamp) \in BOOLEAN
          BY DEF Usable
        <4> QED
          BY <2>4, <4>1 DEF InspectStamp
      <3>2. \/ pc' = [pc EXCEPT ![p] = "label"] /\ UNCHANGED <<held, label>>
            \/ /\ pc' = [pc EXCEPT ![p] = "remove"] /\ UNCHANGED label
               /\ held' = [held EXCEPT ![p] = stamp.id] /\ stamp.id \in Nat
            \/ /\ pc' = [pc EXCEPT ![p] = "idle"] /\ held' = [held EXCEPT ![p] = 0]
               /\ label' = [label EXCEPT ![p] = 0]
        BY <2>4 DEF InspectStamp, Stamp
      <3>3. UNCHANGED <<now, image, stamp, nextId, lastRound>>
        BY <2>4 DEF InspectStamp
      <3> QED
        BY <3>1, <3>2, <3>3
    <2>5. CASE RemoveStamp(p)
      BY <2>5 DEF RemoveStamp
    <2>6. CASE CreateStamp(p) \/ CreateAnswerLost(p)
      <3>1. [id |-> nextId, by |-> "us", time |-> label[p]] \in Stamp
        BY DEF Stamp
      <3>2. /\ stamp' = stamp \/ stamp' \in Stamp
            /\ nextId' \in Nat
        BY <2>6, <3>1 DEF CreateStamp, CreateAnswerLost, StampCreated
      <3>3. \E l \in {"pass", "idle"} : Forget(p, l)
        BY <2>6 DEF CreateStamp, CreateAnswerLost
      <3>4. lastRound' \in Nat \cup {Never} /\ UNCHANGED <<now, image>>
        BY <2>6 DEF CreateStamp, CreateAnswerLost
      <3> QED
        BY <3>2, <3>3, <3>4
    <2> QED
      BY <1>1, <2>1, <2>2, <2>3, <2>4, <2>5, <2>6 DEF Step
  <1>2. CASE Tick
    BY <1>2 DEF Tick
  <1>3. CASE ImageChanges
    <2>1. image' \in BOOLEAN
      BY <1>3 DEF ImageChanges
    <2> QED
      BY <1>3, <2>1 DEF ImageChanges
  <1>4. CASE UNCHANGED vars
    BY <1>4 DEF vars
  <1> QED
    BY <1>1, <1>2, <1>3, <1>4 DEF Next

\* Every step keeps the stamp of the last round standing for its interval.
LEMMA StepStamp ==
  ASSUME TypeOK, StampInv, [Next]_vars
  PROVE  StampInv'
  <1> USE ThrottleAssumption DEF TypeOK, StampInv, Stamp, Fresh, Usable, Never, Unreadable
  <1>1. ASSUME NEW p \in Proc, Step(p)
        PROVE  StampInv'
    <2> USE DEF Goto, Forget
    <2>1. CASE ClaimRound(p) \/ Ends(p)
      BY <2>1 DEF ClaimRound, Ends
    <2>2. CASE BuildLabel(p)
      BY <2>2 DEF BuildLabel
    <2>3. CASE InspectStamp(p)
      BY <2>3 DEF InspectStamp
    <2>4. CASE RemoveStamp(p)
      BY <2>4 DEF RemoveStamp
    <2>5. CASE CreateStamp(p)
      <3>1. CASE stamp # None
        BY <2>5, <3>1 DEF CreateStamp, StampCreated
      <3>2. CASE stamp = None
        <4>1. /\ stamp' = [id |-> nextId, by |-> "us", time |-> label[p]]
              /\ nextId' = nextId + 1 /\ now' = now
              /\ pc'[p] \in {"pass", "idle"} /\ lastRound' \in {now, lastRound}
              /\ \A q \in Proc \ {p} :
                   pc'[q] = pc[q] /\ held'[q] = held[q] /\ label'[q] = label[q]
          BY <2>5, <3>2 DEF CreateStamp, StampCreated
        <4>2. stamp' # None /\ label[p] \in 0 .. now /\ now - label[p] <= CreateDelay
          BY <2>5, <4>1 DEF CreateStamp
        <4>3. lastRound = Never \/ now >= lastRound + Interval - CreateDelay
          BY <3>2
        <4>4. stamp'.id = nextId /\ stamp'.by = "us" /\ stamp'.time = label[p]
          BY <4>1
        <4>5. \A q \in Proc : pc'[q] = "remove" => q # p /\ held'[q] < nextId
          BY <4>1
        <4>6. \A q \in Proc : pc'[q] = "create" =>
                q # p /\ label'[q] <= now /\ now - label'[q] <= CreateDelay
          BY <4>1
        <4>7. \A q \in Proc : pc'[q] = "remove" => held'[q] < nextId' /\ held'[q] # stamp'.id
          BY <4>1, <4>4, <4>5
        <4>8. lastRound' # Never /\ now' < lastRound' + Interval - CreateDelay =>
                stamp'.time >= lastRound' - CreateDelay
          BY <4>1, <4>2, <4>3, <4>4
        <4>9. /\ stamp'.id < nextId' /\ stamp'.id > 0 /\ stamp'.time \in 0 .. now'
              /\ nextId' > 0 /\ lastRound' <= now'
          BY <4>1, <4>2, <4>4
        <4> HIDE DEF Stamp, Fresh, Usable, Never, Unreadable
        <4> QED
          BY <4>1, <4>2, <4>4, <4>6, <4>7, <4>8, <4>9
      <3> QED
        BY <3>1, <3>2
    <2>6. CASE CreateAnswerLost(p)
      BY <2>6 DEF CreateAnswerLost, StampCreated
    <2> QED
      BY <1>1, <2>1, <2>2, <2>3, <2>4, <2>5, <2>6 DEF Step
  <1>2. CASE Tick
    BY <1>2 DEF Tick
  <1>3. CASE ImageChanges \/ UNCHANGED vars
    BY <1>3 DEF ImageChanges, vars
  <1> QED
    BY <1>1, <1>2, <1>3 DEF Next

\* Every variable keeps its type in every reachable state.
THEOREM ThrottleTypeCorrect == Spec => []TypeOK
  BY InitStamp, StepTypes, PTL DEF Spec

\* The stamp of the last round stands until its interval is over.
THEOREM StampStands == Spec => []StampInv
  <1>1. TypeOK /\ StampInv /\ [Next]_vars => (TypeOK /\ StampInv)'
    BY StepTypes, StepStamp
  <1> QED
    BY <1>1, InitStamp, PTL DEF Spec

\* The stamps implement the rate limit: two rounds of a pass are an interval apart, less
\* the delay of a create, for any number of processes.
THEOREM StampsLimitRate == Spec => RateLimited
  <1>1. Init => Limit!Init
    BY DEF Init, Limit!Init
  <1>2. ASSUME TypeOK, StampInv, [Next]_vars
        PROVE  [Limit!Next]_<<now, lastRound>>
    <2>1. ASSUME NEW p \in Proc, Step(p)
          PROVE  Limit!Round \/ UNCHANGED <<now, lastRound>>
      <3>1. CASE CreateStamp(p) /\ stamp = None
        <4>1. lastRound = Never \/ now >= lastRound + Interval - CreateDelay
          BY <1>2, <3>1, ThrottleAssumption DEF StampInv, TypeOK, Never
        <4>2. lastRound = Never \/ now - lastRound >= Interval - CreateDelay
          BY <1>2, <4>1, ThrottleAssumption DEF TypeOK, Never
        <4>3. now' = now /\ lastRound' \in {now, lastRound}
          BY <3>1 DEF CreateStamp
        <4> QED
          BY <4>2, <4>3 DEF Limit!Round
      <3>2. CASE ~(CreateStamp(p) /\ stamp = None)
        BY <2>1, <3>2 DEF Step, ClaimRound, InspectStamp, RemoveStamp, BuildLabel, CreateStamp,
                          StampCreated, CreateAnswerLost, Ends
      <3> QED
        BY <3>1, <3>2
    <2>2. Tick => Limit!TimePasses
      BY DEF Tick, Limit!TimePasses
    <2>3. ImageChanges \/ UNCHANGED vars => UNCHANGED <<now, lastRound>>
      BY DEF ImageChanges, vars
    <2> QED
      BY <1>2, <2>1, <2>2, <2>3 DEF Next, Limit!Next
  <1> QED
    BY <1>1, <1>2, ThrottleTypeCorrect, StampStands, PTL DEF Spec, RateLimited, Limit!Spec

\* No process removes a stamp a provider made before its interval is over, however
\* long ago it inspected the name.
THEOREM FreshStampStays == Spec => FreshStampKept
  <1>1. ASSUME TypeOK, StampInv, Next, stamp # None, stamp.id > 0, Fresh(stamp)
        PROVE  stamp' = stamp
    <2>1. ASSUME NEW p \in Proc, Step(p)
          PROVE  stamp' = stamp
      BY <1>1, <2>1
         DEF StampInv, Step, ClaimRound, InspectStamp, RemoveStamp, BuildLabel, CreateStamp,
             CreateAnswerLost, StampCreated, Ends
    <2> QED
      BY <1>1, <2>1 DEF Next, Tick, ImageChanges
  <1>2. TypeOK /\ StampInv /\ [Next]_vars =>
          [stamp # None => (stamp.id > 0 /\ Fresh(stamp) => stamp' = stamp)]_vars
    BY <1>1
  <1> QED
    BY <1>2, ThrottleTypeCorrect, StampStands, PTL DEF Spec, FreshStampKept
=============================================================================
