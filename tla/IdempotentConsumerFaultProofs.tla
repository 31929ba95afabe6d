------------------- MODULE IdempotentConsumerFaultProofs -------------------
(***************************************************************************)
(* Proofs about what IdempotentConsumer does only when something failed,   *)
(* for any group, log, number of attempts and faults: parking a message    *)
(* that could have been handled, and pushing for one event again.  Each    *)
(* is counted against the faults so far.                                   *)
(***************************************************************************)
EXTENDS IdempotentConsumerProofs, FiniteSetTheorems

-----------------------------------------------------------------------------
(* Parking.                                                                *)

\* A member that lost the partition in the middle of a message, and one that
\* has already lost a try at its message.
Ejected(m) == job[m] # Idle /\ owner # m
Failing(m) == job[m].pc = "dlq" \/ job[m].try > 1 \/ job[m].txn > 1
Suspect(m) == Ejected(m) \/ Failing(m)

\* The events that are parked or may come to be, though they could be handled.
Hopeless == Malformed \cup Poison
Suspects == ({Log[k] : k \in dlq} \cup {Event(m) : m \in {n \in Members : Suspect(n)}})
            \ Hopeless

\* A fault pays for one suspect: a rebalance for the event on which it ejects
\* the owner, an error for the event whose try it costs.  A lost race needs an
\* ejected member on the same event, and so adds no suspect.
ParkInv == IsFiniteSet(Suspects) /\ Cardinality(Suspects) <= faults

LEMMA InSuspects ==
    \A e : e \in Suspects <=>
              /\ e \notin Hopeless
              /\ \/ \E k \in dlq : e = Log[k]
                 \/ \E m \in Members : Suspect(m) /\ e = Event(m)
  BY DEF Suspects

\* Steps that add no suspect, and faults that add one.
LEMMA NoneAdded ==
    ASSUME Shape, Shape', ParkInv, Suspects' \subseteq Suspects, faults' >= faults
    PROVE  ParkInv'
<1>1. IsFiniteSet(Suspects') /\ Cardinality(Suspects') <= Cardinality(Suspects)
  BY FS_Subset DEF ParkInv
<1>2. Cardinality(Suspects') \in Nat /\ Cardinality(Suspects) \in Nat
  BY <1>1, FS_CardinalityType DEF ParkInv
<1>3. faults \in Nat /\ faults' \in Nat
  BY FaultAssumption DEF Shape, TypeOK
<1> QED
  BY <1>1, <1>2, <1>3 DEF ParkInv

LEMMA OneAdded ==
    ASSUME Shape, ParkInv, NEW e, Suspects' \subseteq Suspects \cup {e}, Fault
    PROVE  ParkInv'
<1> DEFINE bound == Suspects \cup {e}
<1>1. IsFiniteSet(bound) /\ Cardinality(bound) <= Cardinality(Suspects) + 1
  <2>1. Cardinality(Suspects) \in Nat
    BY FS_CardinalityType DEF ParkInv
  <2> QED
    BY <2>1, FS_AddElement DEF ParkInv
<1>2. IsFiniteSet(Suspects') /\ Cardinality(Suspects') <= Cardinality(bound)
  BY <1>1, FS_Subset
<1>3. /\ Cardinality(Suspects') \in Nat /\ Cardinality(bound) \in Nat
      /\ Cardinality(Suspects) \in Nat
  BY <1>1, <1>2, FS_CardinalityType DEF ParkInv
<1>4. faults \in Nat /\ faults' = faults + 1
  BY FaultAssumption DEF Shape, TypeOK, Fault
<1> QED
  BY <1>1, <1>2, <1>3, <1>4 DEF ParkInv

\* A step of one member may add the event it works on, if it goes on with it
\* as a suspect, or parks it.
LEMMA OwnEventOnly ==
    ASSUME Shape, NEW m \in Members, owner' = owner,
           \A n \in Members \ {m} : job'[n] = job[n] /\ pos'[n] = pos[n],
           pos'[m] = pos[m] \/ job'[m] = Idle,
           dlq' \subseteq dlq \cup {At(m)}
    PROVE  /\ Suspects' \subseteq Suspects \cup {Event(m)}
           /\ \/ Suspects' \subseteq Suspects
              \/ /\ Suspect(m)' \/ dlq' # dlq
                 /\ Event(m) \notin Hopeless
<1>1. \A n \in Members \ {m} : (Suspect(n)' <=> Suspect(n)) /\ Event(n)' = Event(n)
  BY DEF Suspect, Ejected, Failing, Event, At
<1>2. Suspect(m)' => Event(m)' = Event(m)
  <2>1. job'[m] = Idle => ~Suspect(m)'
    BY DEF Suspect, Ejected, Failing, Idle
  <2> QED
    BY <2>1 DEF Event, At
<1>3. \A k \in dlq' : k \in dlq \/ Log[k] = Event(m)
  BY DEF Event
<1>4. \A e : e \in Suspects' <=>
              /\ e \notin Hopeless
              /\ \/ \E k \in dlq' : e = Log[k]
                 \/ \E n \in Members : Suspect(n)' /\ e = Event(n)'
  BY DEF Suspects, Hopeless
<1>5. ASSUME NEW e, e \in Suspects', e \notin Suspects
      PROVE  e = Event(m) /\ e \notin Hopeless /\ (Suspect(m)' \/ dlq' # dlq)
  <2>1. e \notin Hopeless
    BY <1>4, <1>5
  <2>2. CASE \E k \in dlq' : e = Log[k]
    BY <1>3, <1>5, <2>1, <2>2, InSuspects
  <2>3. CASE \E n \in Members : Suspect(n)' /\ e = Event(n)'
    BY <1>1, <1>2, <1>5, <2>1, <2>3, InSuspects
  <2> QED
    BY <1>4, <1>5, <2>1, <2>2, <2>3
<1> QED
  BY <1>5

\* Whoever loses a race for a transaction is on an event that is a suspect.
LEMMA RaceIsSuspect ==
    ASSUME Shape, NEW m \in Members, NEW n \in Members \ {m},
           job[m] # Idle, HoldsMarker(n), Event(n) = Event(m), Event(m) \notin Hopeless
    PROVE  Event(m) \in Suspects
<1>1. job[n] # Idle
  BY DEF HoldsMarker, Idle
<1>2. Suspect(m) \/ Suspect(n)
  BY <1>1 DEF Suspect, Ejected
<1> QED
  BY <1>2, InSuspects

LEMMA ParkStep == (Pushing \/ OwnKeysOnly) /\ Shape /\ ParkInv /\ [Next]_vars => ParkInv'
<1> SUFFICES ASSUME Pushing \/ OwnKeysOnly, Shape, ParkInv, [Next]_vars PROVE ParkInv'
  OBVIOUS
<1>1. /\ Shape' /\ job \in [Members -> Jobs] /\ pos \in [Members -> 0..Len(Log)]
      /\ Nobody \notin Members /\ faults \in Nat /\ (Fault => faults' >= faults)
  BY TypeStep, FaultAssumption, SMTT(30) DEF Shape, TypeOK, Fault
<1>2. ASSUME UNCHANGED <<pos, job, dlq, faults>>,
             \A m \in Members : Ejected(m)' => Ejected(m)
      PROVE  ParkInv'
  <2>1. \A m \in Members : (Suspect(m)' => Suspect(m)) /\ Event(m)' = Event(m)
    BY <1>2 DEF Suspect, Failing, Event, At
  <2>2. Suspects' \subseteq Suspects
    BY <1>2, <2>1 DEF Suspects
  <2> QED
    BY <1>1, <1>2, <2>2, NoneAdded
<1>3. CASE UNCHANGED vars \/ Produce
  BY <1>2, <1>3 DEF vars, Produce, groupVars, Ejected
<1>4. ASSUME NEW m \in Members, Group(m) PROVE ParkInv'
  <2>1. ASSUME Assign(m)
        PROVE  /\ Suspects' \subseteq Suspects \cup {Event(owner)}
               /\ owner = Nobody => Suspects' \subseteq Suspects
    <3>1. /\ job' = job /\ dlq' = dlq /\ owner' = m /\ job[m] = Idle
          /\ \A n \in Members \ {m} : Event(n)' = Event(n)
      BY <1>1, <2>1 DEF Assign, Event, At
    <3>2. ~Suspect(m)'
      BY <3>1 DEF Suspect, Ejected, Failing, Idle
    <3>3. \A n \in Members \ {m} : Suspect(n)' => Suspect(n) \/ n = owner
      BY <3>1 DEF Suspect, Ejected, Failing
    <3> QED
      BY <1>1, <3>1, <3>2, <3>3 DEF Suspects, Hopeless
  <2>2. CASE Join(m)
    BY <1>1, <2>1, <2>2, NoneAdded DEF Join
  <2>3. CASE Rebalance(m)
    BY <2>1, <2>3, OneAdded DEF Rebalance
  <2>4. CASE Crash(m)
    <3>1. /\ UNCHANGED <<pos, dlq>> /\ job' = [job EXCEPT ![m] = Idle]
          /\ owner' = IF owner = m THEN Nobody ELSE owner
      BY <2>4 DEF Crash
    <3>2. ~Suspect(m)'
      BY <1>1, <3>1 DEF Suspect, Ejected, Failing, Idle
    <3>3. \A n \in Members \ {m} : (Suspect(n)' => Suspect(n)) /\ Event(n)' = Event(n)
      BY <1>1, <3>1 DEF Suspect, Ejected, Failing, Event, At
    <3>4. Suspects' \subseteq Suspects
      BY <3>1, <3>2, <3>3 DEF Suspects, Hopeless
    <3> QED
      BY <1>1, <2>4, <3>4, NoneAdded DEF Crash
  <2>5. CASE CommitOffset(m)
    BY <1>2, <2>5 DEF CommitOffset, Ejected
  <2> QED
    BY <1>4, <2>2, <2>3, <2>4, <2>5 DEF Group
<1>5. ASSUME NEW m \in Members, EachMessage(m) PROVE ParkInv'
  <2>1. /\ owner' = owner
        /\ \A n \in Members \ {m} : job'[n] = job[n] /\ pos'[n] = pos[n]
        /\ pos'[m] = pos[m] \/ job'[m] = Idle
        /\ dlq' \subseteq dlq \cup {At(m)}
    <3>1. /\ owner' = owner /\ dlq' \subseteq dlq \cup {At(m)}
      BY <1>5 DEF EachMessage, Attempt, Deliver, InsertMarker, HandlerWrites,
         HandlerPushes, DbError, CommitOk, CommitFails, SendToDlq, SendToDlqFails, groupVars
    <3>2. \/ pos' = pos /\ \A n \in Members \ {m} : job'[n] = job[n]
          \/ Resolve(m)
      BY <1>1, <1>5 DEF EachMessage, Attempt, Deliver, InsertMarker, HandlerWrites,
         HandlerPushes, DbError, CommitOk, CommitFails, SendToDlq, SendToDlqFails,
         AttemptFails, Transient, GoTo
    <3> QED
      BY <1>1, <3>1, <3>2 DEF Resolve
  <2>2. /\ Suspects' \subseteq Suspects \cup {Event(m)}
        /\ \/ Suspects' \subseteq Suspects
           \/ (Suspect(m)' \/ dlq' # dlq) /\ Event(m) \notin Hopeless
    BY <2>1, OwnEventOnly
  <2>3. CASE Fault
    BY <2>2, <2>3, OneAdded
  <2>4. ASSUME UNCHANGED <<faults, dlq>>, ~Suspect(m)' \/ Suspect(m) PROVE ParkInv'
    <3>1. Suspect(m) /\ Event(m) \notin Hopeless => Event(m) \in Suspects
      BY InSuspects
    <3>2. Suspects' \subseteq Suspects
      BY <2>2, <2>4, <3>1
    <3> QED
      BY <1>1, <2>4, <3>2, NoneAdded
  <2>5. ASSUME UNCHANGED faults, Event(m) \in Suspects \cup Hopeless PROVE ParkInv'
    <3>1. Suspects' \subseteq Suspects
      BY <2>2, <2>5
    <3> QED
      BY <1>1, <2>5, <3>1, NoneAdded
  <2>6. Resolve(m) => ~Suspect(m)'
    BY <1>1 DEF Resolve, Suspect, Ejected, Failing, Idle
  <2>7. ASSUME NEW pc \in {"work", "commit"}, GoTo(m, pc), job[m].pc # "idle"
        PROVE  ~Suspect(m)' \/ Suspect(m)
    BY <1>1, <2>1, <2>7 DEF GoTo, Suspect, Ejected, Failing, Idle, Jobs
  <2>8. CASE Deliver(m)
    <3>1. CASE Event(m) \in Malformed
      BY <2>5, <2>8, <3>1 DEF Deliver, Hopeless
    <3>2. CASE Event(m) \notin Malformed
      <4>1. Resolve(m) \/ job' = [job EXCEPT ![m] = [pc |-> "begin", try |-> 1, txn |-> 1]]
        BY <2>8, <3>2 DEF Deliver
      <4>2. owner' = m /\ UNCHANGED <<faults, dlq>>
        BY <2>8 DEF Deliver, groupVars
      <4>3. ~Suspect(m)'
        BY <1>1, <2>6, <4>1, <4>2 DEF Suspect, Ejected, Failing
      <4> QED
        BY <2>4, <4>2, <4>3
    <3> QED
      BY <3>1, <3>2
  <2>9. CASE InsertMarker(m)
    <3>1. job[m].pc = "begin" /\ job[m] # Idle /\ UNCHANGED <<faults, dlq>>
      BY <2>9 DEF InsertMarker, Idle
    <3>2. CASE \E n \in Members \ {m} : HoldsMarker(n) /\ Event(n) = Event(m)
      BY <2>5, <3>1, <3>2, RaceIsSuspect
    <3>3. CASE ~\E n \in Members \ {m} : HoldsMarker(n) /\ Event(n) = Event(m)
      BY <2>4, <2>6, <2>7, <2>9, <3>1, <3>3 DEF InsertMarker
    <3> QED
      BY <3>2, <3>3
  <2>10. CASE HandlerWrites(m)
    <3>1. job[m].pc = "work" /\ job[m] # Idle /\ UNCHANGED <<faults, dlq>>
      BY <2>10 DEF HandlerWrites, Idle
    <3>2. CASE Event(m) \in Poison
      BY <2>5, <3>1, <3>2 DEF Hopeless
    <3>3. ASSUME NEW n \in Members \ {m}, HoldsKeys(n),
                 KeysOf[Event(n)] \cap KeysOf[Event(m)] # {}
          PROVE  ParkInv'
      <4>1. HoldsMarker(n) /\ job[n] # Idle
        BY <3>3 DEF HoldsKeys, HoldsMarker, Idle
      <4>2. Event(n) \in Events /\ Event(m) \in Events
        BY <3>1, <4>1, BusyEvent
      <4>3. Event(n) = Event(m)
        BY <2>10, <3>3, <4>2 DEF OwnKeysOnly, HandlerWrites
      <4> QED
        BY <2>5, <3>1, <4>1, <4>3, RaceIsSuspect
    <3>4. CASE Resolve(m) \/ GoTo(m, "commit")
      BY <2>4, <2>6, <2>7, <3>1, <3>4
    <3> QED
      BY <2>10, <3>2, <3>3, <3>4 DEF HandlerWrites
  <2>11. CASE HandlerPushes(m)
    <3>1. UNCHANGED faults \/ Fault
      BY <2>11 DEF HandlerPushes
    <3>2. /\ job[m].pc # "idle" /\ dlq' = dlq /\ GoTo(m, "commit")
      BY <2>11 DEF HandlerPushes
    <3> QED
      BY <2>3, <2>4, <2>7, <3>1, <3>2
  <2>12. CASE CommitOk(m)
    BY <2>4, <2>6, <2>12 DEF CommitOk
  <2>13. CASE SendToDlq(m)
    <3>1. Suspect(m) /\ UNCHANGED faults
      BY <2>13 DEF SendToDlq, Suspect, Failing
    <3>2. Event(m) \in Suspects \cup Hopeless
      BY <3>1, InSuspects
    <3> QED
      BY <2>5, <3>1, <3>2
  <2>14. CASE DbError(m) \/ CommitFails(m) \/ SendToDlqFails(m)
    BY <2>3, <2>14 DEF DbError, CommitFails, SendToDlqFails
  <2> QED
    BY <1>5, <2>8, <2>9, <2>10, <2>11, <2>12, <2>13, <2>14 DEF EachMessage, Attempt
<1> QED
  BY <1>3, <1>4, <1>5 DEF Next

\* Of a push consumer, or with keys of its own for every event, each event in
\* the DLQ that could have been handled has cost a crash, a rebalance or an
\* error of its own: no lost race, and no redelivery, takes an event's place
\* in the DLQ by itself (consume.js, withIdempotency()).
THEOREM ParkingIsPaid ==
    ASSUME Pushing \/ OwnKeysOnly
    PROVE  Spec => []ParkingNeedsFaults
<1>1. Init => ParkInv
  <2> SUFFICES ASSUME Init PROVE ParkInv
    OBVIOUS
  <2>1. \A m \in Members : ~Suspect(m)
    BY DEF Init, Suspect, Ejected, Failing, Idle
  <2>2. Suspects = {}
    BY <2>1 DEF Init, Suspects
  <2> QED
    BY <2>2, FS_EmptySet DEF Init, ParkInv
<1>2. Shape /\ ParkInv => ParkingNeedsFaults
  <2> SUFFICES ASSUME Shape, ParkInv PROVE ParkingNeedsFaults
    OBVIOUS
  <2> DEFINE parked == {Log[k] : k \in dlq} \ (Malformed \cup Poison)
  <2>1. parked \subseteq Suspects
    BY DEF Suspects, Hopeless
  <2>2. /\ IsFiniteSet(parked) /\ Cardinality(parked) <= Cardinality(Suspects)
        /\ Cardinality(parked) \in Nat /\ Cardinality(Suspects) \in Nat
    BY <2>1, FS_Subset, FS_CardinalityType DEF ParkInv
  <2>3. faults \in Nat
    BY FaultAssumption DEF Shape, TypeOK
  <2> QED
    BY <2>2, <2>3 DEF ParkInv, ParkingNeedsFaults
<1>3. Shape /\ ParkInv /\ [Next]_vars => ParkInv'
  BY ParkStep
<1> QED
  BY <1>1, <1>2, <1>3, InitShape, TypeStep, PTL DEF Spec
-----------------------------------------------------------------------------
(* Pushing.                                                                *)

\* A push for e is in a transaction that may still commit.
InFlight(e) == \E m \in Members : job[m].pc = "commit" /\ Event(m) = e
Undelivered(e) == IF e \in delivered THEN 0 ELSE 1

\* A fault pays for each push that was in vain: one whose transaction did not
\* commit, and one that reported a failure but counts as done.
PushInv ==
    /\ ~Pushing => \A e \in Events : pushes[e] = 0
    /\ Pushing => \A e \in Events :
          IF e \in marked \/ InFlight(e)
          THEN pushes[e] + Undelivered(e) <= 1 + faults
          ELSE pushes[e] <= faults

\* Steps that push nothing, start no transaction's last step and mark nothing,
\* except that a fault may end one.
LEMMA NothingPushed ==
    ASSUME Shape, PushInv, UNCHANGED historyVars, faults' \in Nat,
           faults' = faults \/ faults' = faults + 1,
           \A e \in Events : e \in marked' \/ InFlight(e)' => e \in marked \/ InFlight(e),
           \A e \in Events : e \in marked \/ InFlight(e) =>
              \/ e \in marked' \/ InFlight(e)'
              \/ faults' = faults + 1
    PROVE  PushInv'
<1>1. faults \in Nat /\ pushes \in [Events -> Nat] /\ pushes' = pushes /\ delivered' = delivered
  BY FaultAssumption DEF Shape, TypeOK, historyVars
<1>2. \A e \in Events : Undelivered(e)' = Undelivered(e) /\ Undelivered(e) \in {0, 1}
  BY <1>1 DEF Undelivered
<1>3. CASE ~Pushing
  BY <1>1, <1>3 DEF PushInv
<1>4. CASE Pushing
  <2> SUFFICES ASSUME NEW e \in Events
               PROVE  IF e \in marked' \/ InFlight(e)'
                      THEN pushes'[e] + Undelivered(e)' <= 1 + faults'
                      ELSE pushes'[e] <= faults'
    BY <1>4 DEF PushInv
  <2>1. IF e \in marked \/ InFlight(e)
        THEN pushes[e] + Undelivered(e) <= 1 + faults
        ELSE pushes[e] <= faults
    BY <1>4 DEF PushInv
  <2> QED
    BY <1>1, <1>2, <2>1
<1> QED
  BY <1>3, <1>4

\* The push itself, by the only member with a transaction on its event.
LEMMA PushPaid ==
    ASSUME EffectInv, PushInv, NEW m \in Members, HandlerPushes(m)
    PROVE  PushInv'
<1>1. /\ faults \in Nat /\ pushes \in [Events -> Nat] /\ job \in [Members -> Jobs]
      /\ job[m] # Idle /\ HoldsMarker(m)
  BY FaultAssumption DEF HandlerPushes, HoldsMarker, EffectInv, Shape, TypeOK, Idle
<1>2. PICK d \in Events : d = Event(m)
  BY <1>1, BusyEvent DEF EffectInv
<1>3. d \notin marked
  BY <1>1, <1>2 DEF EffectInv, HeldIsUnmarked
<1>4. ~InFlight(d)
  <2> SUFFICES ASSUME NEW n \in Members, job[n].pc = "commit", Event(n) = d
               PROVE  FALSE
    BY DEF InFlight
  <2>1. n # m /\ HoldsMarker(n)
    BY DEF HandlerPushes, HoldsMarker
  <2> QED
    BY <1>1, <1>2, <2>1 DEF EffectInv, OneTransactionPerEvent
<1>5. /\ Pushing /\ pos' = pos /\ marked' = marked
      /\ job'[m].pc = "commit" /\ \A n \in Members \ {m} : job'[n] = job[n]
      /\ pushes' = [pushes EXCEPT ![d] = @ + 1]
      /\ \/ delivered' = delivered \cup {d} /\ faults' = faults
         \/ delivered' = delivered /\ faults' = faults + 1
  BY <1>1, <1>2 DEF HandlerPushes, GoTo, Fault, storeVars, Jobs
<1>6. pushes[d] <= faults
  BY <1>2, <1>3, <1>4, <1>5 DEF PushInv
<1>7. InFlight(d)' /\ \A e \in Events \ {d} : InFlight(e)' <=> InFlight(e)
  BY <1>2, <1>5 DEF InFlight, HandlerPushes, Event, At
<1>8. pushes'[d] + Undelivered(d)' <= 1 + faults'
  BY <1>1, <1>5, <1>6 DEF Undelivered
<1>9. ASSUME NEW e \in Events \ {d}
      PROVE  IF e \in marked' \/ InFlight(e)'
             THEN pushes'[e] + Undelivered(e)' <= 1 + faults'
             ELSE pushes'[e] <= faults'
  <2>1. /\ pushes'[e] = pushes[e] /\ Undelivered(e)' = Undelivered(e)
        /\ Undelivered(e) \in {0, 1} /\ faults' \in {faults, faults + 1}
    BY <1>1, <1>5 DEF Undelivered
  <2>2. IF e \in marked \/ InFlight(e)
        THEN pushes[e] + Undelivered(e) <= 1 + faults
        ELSE pushes[e] <= faults
    BY <1>5 DEF PushInv
  <2> QED
    BY <1>1, <1>5, <1>7, <2>1, <2>2
<1> QED
  BY <1>5, <1>7, <1>8, <1>9 DEF PushInv

\* A step of one member that is not in its transaction's last step, or that
\* leaves it by a fault.
LEMMA MemberMoves ==
    ASSUME Shape, PushInv, UNCHANGED historyVars, marked' = marked, NEW m \in Members,
           \A n \in Members \ {m} : job'[n] = job[n] /\ pos'[n] = pos[n],
           \/ job'[m] = job[m] /\ pos'[m] = pos[m] /\ faults' = faults
           \/ job'[m].pc # "commit" /\ faults' = faults + 1
           \/ job'[m].pc # "commit" /\ job[m].pc # "commit" /\ faults' = faults
    PROVE  PushInv'
<1>1. faults \in Nat /\ faults' \in Nat
  BY FaultAssumption DEF Shape, TypeOK
<1>2. \A n \in Members \ {m} : Event(n)' = Event(n)
  BY DEF Event, At
<1>3. job'[m] = job[m] /\ pos'[m] = pos[m] => Event(m)' = Event(m)
  BY DEF Event, At
<1>4. \A e \in Events : InFlight(e)' => InFlight(e)
  BY <1>2, <1>3 DEF InFlight
<1>5. \A e \in Events : InFlight(e) => InFlight(e)' \/ faults' = faults + 1
  BY <1>2, <1>3 DEF InFlight
<1> QED
  BY <1>1, <1>4, <1>5, NothingPushed

LEMMA PushStep == EffectInv /\ PushInv /\ [Next]_vars => PushInv'
<1> SUFFICES ASSUME EffectInv, PushInv, [Next]_vars PROVE PushInv'
  OBVIOUS
<1>1. /\ Shape /\ job \in [Members -> Jobs] /\ pos \in [Members -> 0..Len(Log)]
      /\ faults \in Nat /\ (Fault => faults' = faults + 1)
  BY FaultAssumption DEF EffectInv, Shape, TypeOK, Fault
<1>3. ASSUME NEW m \in Members, AttemptFails(m) \/ Transient(m) \/ Resolve(m)
      PROVE  /\ \A n \in Members \ {m} : job'[n] = job[n] /\ pos'[n] = pos[n]
             /\ job'[m].pc # "commit"
  BY <1>1, <1>3 DEF AttemptFails, Transient, Resolve, Idle, Jobs
<1>4. CASE UNCHANGED vars \/ Produce
  BY <1>1, <1>4, NothingPushed
     DEF vars, Produce, groupVars, storeVars, InFlight, Event, At
<1>5. ASSUME NEW m \in Members, Group(m) PROVE PushInv'
  <2>1. CASE Join(m) \/ Rebalance(m)
    <3>1. /\ job[m].pc # "commit" /\ job'[m].pc # "commit"
          /\ \A n \in Members \ {m} : job'[n] = job[n] /\ pos'[n] = pos[n]
          /\ UNCHANGED historyVars /\ marked' = marked
      BY <1>1, <2>1 DEF Join, Rebalance, Assign, Idle, storeVars
    <3>2. faults' \in {faults, faults + 1}
      BY <1>1, <2>1 DEF Join, Rebalance
    <3> QED
      BY <1>1, MemberMoves, <3>1, <3>2
  <2>2. CASE Crash(m)
    <3>1. /\ job'[m].pc # "commit"
          /\ \A n \in Members \ {m} : job'[n] = job[n] /\ pos'[n] = pos[n]
          /\ UNCHANGED historyVars /\ marked' = marked /\ Fault
      BY <1>1, <2>2 DEF Crash, Idle, storeVars
    <3> QED
      BY <1>1, MemberMoves, <3>1
  <2>3. CASE CommitOffset(m)
    <3>1. UNCHANGED <<historyVars, marked, job, pos, faults>>
      BY <2>3 DEF CommitOffset, storeVars
    <3> QED
      BY <1>1, MemberMoves, <3>1
  <2> QED
    BY <1>5, <2>1, <2>2, <2>3 DEF Group
<1>6. ASSUME NEW m \in Members, job[m].pc = "commit", Store(m), UNCHANGED historyVars,
             AttemptFails(m) \/ Resolve(m), faults' \in {faults, faults + 1}
      PROVE  PushInv'
  <2>1. marked' = marked \cup {Event(m)}
    BY <1>6 DEF Store
  <2>2. \A n \in Members \ {m} : Event(n)' = Event(n) /\ job'[n] = job[n]
    BY <1>3, <1>6 DEF Event, At
  <2>3. \A e \in Events : InFlight(e)' => InFlight(e)
    BY <1>3, <1>6, <2>2 DEF InFlight
  <2>4. \A e \in Events : e \in marked' => e \in marked \/ InFlight(e)
    BY <1>6, <2>1 DEF InFlight
  <2>5. \A e \in Events : InFlight(e) => InFlight(e)' \/ e \in marked'
    BY <2>1, <2>2 DEF InFlight
  <2> QED
    BY <1>1, <1>6, <2>1, <2>3, <2>4, <2>5, NothingPushed
<1>7. ASSUME NEW m \in Members, EachMessage(m) PROVE PushInv'
  <2>1. CASE Deliver(m)
    <3>1. /\ job[m].pc # "commit" /\ job'[m].pc # "commit"
          /\ \A n \in Members \ {m} : job'[n] = job[n] /\ pos'[n] = pos[n]
      BY <1>1, <2>1 DEF Deliver, Resolve, Idle
    <3>2. UNCHANGED historyVars /\ marked' = marked /\ faults' = faults
      BY <2>1 DEF Deliver, storeVars
    <3> QED
      BY <1>1, MemberMoves, <3>1, <3>2
  <2>2. CASE InsertMarker(m)
    <3>1. /\ job[m].pc # "commit" /\ job'[m].pc # "commit"
          /\ \A n \in Members \ {m} : job'[n] = job[n] /\ pos'[n] = pos[n]
      BY <1>1, <1>3, <2>2 DEF InsertMarker, GoTo, Jobs
    <3>2. UNCHANGED historyVars /\ marked' = marked /\ faults' = faults
      BY <2>2 DEF InsertMarker, storeVars
    <3> QED
      BY <1>1, MemberMoves, <3>1, <3>2
  <2>3. CASE HandlerWrites(m)
    <3>1. UNCHANGED <<pushes, marked, faults>> /\ ~Pushing
      BY <2>3 DEF HandlerWrites, storeVars
    <3> QED
      BY <3>1 DEF PushInv
  <2>4. CASE HandlerPushes(m)
    BY <2>4, PushPaid
  <2>5. CASE DbError(m)
    <3>1. UNCHANGED historyVars /\ marked' = marked /\ Fault
      BY <2>5 DEF DbError, storeVars
    <3>2. AttemptFails(m) \/ Transient(m)
      BY <2>5 DEF DbError
    <3> QED
      BY <1>1, MemberMoves, <1>3, <3>1, <3>2
  <2>6. CASE CommitOk(m)
    BY <1>6, <2>6 DEF CommitOk
  <2>7. CASE CommitFails(m)
    <3>1. CASE Store(m) /\ AttemptFails(m)
      BY <1>1, <1>6, <2>7, <3>1 DEF CommitFails
    <3>2. CASE UNCHANGED storeVars
      <4>1. UNCHANGED historyVars /\ marked' = marked /\ Fault
        BY <2>7, <3>2 DEF CommitFails, storeVars
      <4>2. AttemptFails(m) \/ Transient(m)
        BY <2>7 DEF CommitFails
      <4> QED
        BY <1>1, MemberMoves, <1>3, <4>1, <4>2
    <3> QED
      BY <2>7, <3>1, <3>2 DEF CommitFails
  <2>8. CASE SendToDlq(m)
    <3>1. /\ UNCHANGED historyVars /\ marked' = marked /\ faults' = faults
          /\ job[m].pc # "commit" /\ Resolve(m)
      BY <2>8 DEF SendToDlq, storeVars
    <3> QED
      BY <1>1, MemberMoves, <1>3, <3>1
  <2>9. CASE SendToDlqFails(m)
    <3>1. /\ job'[m].pc # "commit"
          /\ \A n \in Members \ {m} : job'[n] = job[n] /\ pos'[n] = pos[n]
          /\ UNCHANGED historyVars /\ marked' = marked /\ Fault
      BY <1>1, <2>9 DEF SendToDlqFails, Idle, storeVars
    <3> QED
      BY <1>1, MemberMoves, <3>1
  <2> QED
    BY <1>7, <2>1, <2>2, <2>3, <2>4, <2>5, <2>6, <2>7, <2>8, <2>9 DEF EachMessage, Attempt
<1> QED
  BY <1>4, <1>5, <1>7 DEF Next

\* A driver gets no second push, and no push that was lost counts as done,
\* unless a crash, a rebalance or an error paid for it: redelivery and
\* overlapping members alone cause neither (idempotency.js:59-65).
THEOREM RepeatsArePaid == Spec => []PushRepeatsNeedFaults
<1>1. Init => PushInv /\ EffectInv
  <2>1. ASSUME Init PROVE PushInv
    <3>1. \A e \in Events : ~InFlight(e)
      BY <2>1 DEF Init, InFlight, Idle
    <3> QED
      BY <2>1, <3>1 DEF Init, PushInv
  <2>2. Init => EffectInv
    BY InitShape DEF Init, EffectInv, EffectOnce, OneTransactionPerEvent,
       HeldIsUnmarked, HoldsMarker, Idle
  <2> QED
    BY <2>1, <2>2
<1>2. EffectInv /\ PushInv => PushRepeatsNeedFaults
  <2> SUFFICES ASSUME EffectInv, PushInv, NEW e \in Events
               PROVE  pushes[e] + Cardinality({e} \cap (marked \ delivered)) <= 1 + faults
    BY DEF PushRepeatsNeedFaults
  <2>1. faults \in Nat /\ pushes[e] \in Nat
    BY FaultAssumption DEF EffectInv, Shape, TypeOK
  <2>2. CASE e \in marked \ delivered
    <3>1. {e} \cap (marked \ delivered) = {e}
      BY <2>2
    <3>2. Cardinality({e} \cap (marked \ delivered)) = 1
      BY <3>1, FS_Singleton
    <3> QED
      BY <2>1, <2>2, <3>2 DEF PushInv, Undelivered
  <2>3. CASE e \notin marked \ delivered
    <3>1. {e} \cap (marked \ delivered) = {}
      BY <2>3
    <3>2. Cardinality({e} \cap (marked \ delivered)) = 0
      BY <3>1, FS_EmptySet
    <3>3. pushes[e] <= 1 + faults
      BY <2>1 DEF PushInv, Undelivered
    <3> QED
      BY <2>1, <3>2, <3>3
  <2> QED
    BY <2>2, <2>3
<1> QED
  BY <1>1, <1>2, EffectStep, PushStep, PTL DEF Spec
=============================================================================
