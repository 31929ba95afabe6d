---------------------- MODULE IdempotentConsumerProofs ----------------------
(***************************************************************************)
(* Proofs about IdempotentConsumer, for any group, log, number of attempts *)
(* and faults: type correctness; that effects are stored once, together    *)
(* with their marker; that an event is skipped only for a key of another's *)
(* document; that the group implements ReliableDelivery; and, when events  *)
(* claim keys of their own, that no message is lost silently.  The run     *)
(* consumer_same_email shows that the last hypothesis is needed.           *)
(***************************************************************************)
EXTENDS IdempotentConsumer, SequenceTheorems, TLAPS

\* A busy member works on a message that is in the log.
BusyInLog == \A m \in Members : job[m] # Idle => pos[m] < end

\* Nobody is past the end of the log.
SeenInLog == /\ offset <= end /\ begun <= end /\ missed <= end
             /\ \A m \in Members : pos[m] <= end

Shape == TypeOK /\ BusyInLog /\ SeenInLog

\* The event a busy member works on.
LEMMA BusyEvent ==
    ASSUME Shape, NEW m \in Members, job[m] # Idle
    PROVE  At(m) \in 1..Len(Log) /\ Event(m) \in Events
<1>1. pos[m] \in Nat /\ pos[m] < end /\ end \in 0..Len(Log) /\ Len(Log) \in Nat
  BY LogAssumption DEF Shape, TypeOK, BusyInLog
<1>2. At(m) \in 1..Len(Log)
  BY <1>1 DEF At
<1> QED
  BY <1>2, LogAssumption DEF Event

\* The ways an attempt can go on from a step, as far as types are concerned:
\* the member moves on, or it is done with its message.
MovesOn(m) == /\ job' \in [Members -> Jobs]
              /\ \A n \in Members \ {m} : job'[n] = job[n]
              /\ UNCHANGED <<pos, resolved>>

LEMMA AttemptTypes ==
    ASSUME Shape, NEW m \in Members, job[m] # Idle
    PROVE  /\ AttemptFails(m) => MovesOn(m)
           /\ Transient(m) => MovesOn(m)
           /\ \A pc \in {"work", "commit"} : GoTo(m, pc) => MovesOn(m)
<1> USE AttemptsAssumption DEF Shape, TypeOK, Jobs, MovesOn
<1>1. AttemptFails(m) => MovesOn(m)
  <2> SUFFICES ASSUME AttemptFails(m) PROVE MovesOn(m)
    OBVIOUS
  <2>1. CASE job[m].try < MaxAttempts
    <3>1. [pc |-> "begin", try |-> job[m].try + 1, txn |-> 1] \in Jobs
      BY <2>1
    <3> QED
      BY <2>1, <3>1 DEF AttemptFails
  <2>2. CASE ~(job[m].try < MaxAttempts)
    <3>1. [job[m] EXCEPT !.pc = "dlq"] \in Jobs
      OBVIOUS
    <3> QED
      BY <2>2, <3>1 DEF AttemptFails
  <2> QED
    BY <2>1, <2>2
<1>2. Transient(m) => MovesOn(m)
  <2> SUFFICES ASSUME Transient(m) PROVE MovesOn(m)
    OBVIOUS
  <2>1. CASE job[m].txn < TxnAttempts
    <3>1. job[m] \in Jobs /\ job[m].txn + 1 \in 0..TxnAttempts
      BY <2>1
    <3>2. [job[m] EXCEPT !.pc = "begin", !.txn = job[m].txn + 1] \in Jobs
      BY <3>1
    <3> QED
      BY <2>1, <3>2 DEF Transient
  <2>2. CASE ~(job[m].txn < TxnAttempts)
    BY <1>1, <2>2 DEF Transient
  <2> QED
    BY <2>1, <2>2
<1>3. \A pc \in {"work", "commit"} : GoTo(m, pc) => MovesOn(m)
  BY ZenonT(30) DEF GoTo
<1> QED
  BY <1>1, <1>2, <1>3

\* Moving on, or being done, keeps the types of the member's state.
MemberTypes == /\ pos \in [Members -> 0..Len(Log)]
               /\ resolved \in [Members -> BOOLEAN]
               /\ job \in [Members -> Jobs]
               /\ BusyInLog
               /\ \A m \in Members : pos[m] <= end

LEMMA IdleIsAJob == Idle \in Jobs
  BY AttemptsAssumption DEF Idle, Jobs

LEMMA MemberStep ==
    ASSUME Shape, NEW m \in Members, pos[m] < end, UNCHANGED end,
           MovesOn(m) \/ Resolve(m)
    PROVE  MemberTypes'
<1> USE DEF Shape, TypeOK, MemberTypes, BusyInLog, SeenInLog
<1>1. CASE MovesOn(m)
  BY <1>1 DEF MovesOn
<1>2. CASE Resolve(m)
  <2>1. pos[m] + 1 \in 0..Len(Log)
    BY LogAssumption, SMTT(30)
  <2> QED
    BY <1>2, <2>1, IdleIsAJob DEF Resolve
<1> QED
  BY <1>1, <1>2

\* A fault counts up to the bound.
LEMMA FaultTypes == Shape /\ Fault => faults' \in 0..MaxFaults
  BY FaultAssumption DEF Shape, TypeOK, Fault

-----------------------------------------------------------------------------
(* Type correctness: one step of the proof per action.                     *)

\* The steps of one attempt at a message.
LEMMA AttemptShape ==
    ASSUME Shape, NEW m \in Members, Attempt(m)
    PROVE  Shape'
<1>1. job[m] # Idle
  BY DEF Attempt, InsertMarker, HandlerWrites, HandlerPushes, DbError, CommitOk,
         CommitFails, Idle
<1>10. UNCHANGED <<end, groupVars, dlq>>
  BY DEF Attempt, InsertMarker, HandlerWrites, HandlerPushes, DbError, CommitOk, CommitFails
<1>11. pos[m] < end
  BY <1>1 DEF Shape, BusyInLog
<1>2. At(m) \in 1..Len(Log) /\ Event(m) \in Events
  BY <1>1, BusyEvent
<1>3. MovesOn(m) \/ Resolve(m)
  BY <1>1, AttemptTypes
     DEF Attempt, InsertMarker, HandlerWrites, HandlerPushes, DbError, CommitOk, CommitFails
<1>4. MemberTypes'
  BY <1>10, <1>11, <1>3, MemberStep
<1>5. marked' \subseteq Events /\ writes' \in [Events -> Nat]
  <2>1. CASE Store(m)
    <3>1. writes[Event(m)] + 1 \in Nat
      BY <1>2 DEF Shape, TypeOK
    <3> QED
      BY <1>2, <2>1, <3>1 DEF Store, Shape, TypeOK
  <2>2. CASE UNCHANGED storeVars
    BY <2>2 DEF storeVars, Shape, TypeOK
  <2> QED
    BY <2>1, <2>2 DEF Attempt, InsertMarker, HandlerWrites, HandlerPushes, DbError,
                      CommitOk, CommitFails
<1>6. pushes' \in [Events -> Nat] /\ delivered' \subseteq Events
  <2>1. CASE HandlerPushes(m)
    <3>1. pushes[Event(m)] + 1 \in Nat
      BY <1>2 DEF Shape, TypeOK
    <3> QED
      BY <1>2, <2>1, <3>1 DEF HandlerPushes, Shape, TypeOK
  <2>2. CASE UNCHANGED <<pushes, delivered>>
    BY <2>2 DEF Shape, TypeOK
  <2> QED
    BY <2>1, <2>2 DEF Attempt, InsertMarker, HandlerWrites, DbError, CommitOk, CommitFails,
                      historyVars
<1>8. skipped' \subseteq Events
  BY <1>2 DEF Attempt, InsertMarker, HandlerWrites, HandlerPushes, DbError, CommitOk,
     CommitFails, historyVars, Shape, TypeOK
<1>7. faults' \in 0..MaxFaults
  BY FaultTypes DEF Shape, TypeOK, Attempt, InsertMarker, HandlerWrites, HandlerPushes,
                    DbError, CommitOk, CommitFails
<1> QED
  BY <1>10, <1>4, <1>5, <1>6, <1>7, <1>8 DEF Shape, TypeOK, MemberTypes, SeenInLog, groupVars

\* Every step keeps the types and the messages of busy members in the log.
LEMMA TypeStep == Shape /\ [Next]_vars => Shape'
<1> SUFFICES ASSUME Shape, [Next]_vars PROVE Shape'
  OBVIOUS
<1>1. CASE UNCHANGED vars
  BY <1>1 DEF vars, groupVars, storeVars, historyVars, Shape, TypeOK, BusyInLog, SeenInLog
<1>2. CASE Produce
  <2>1. Len(Log) \in Nat /\ end' \in 0..Len(Log) /\ end' = end + 1
    BY <1>2, LogAssumption DEF Produce, Shape, TypeOK
  <2>2. SeenInLog' /\ BusyInLog'
    BY <1>2, <2>1 DEF Produce, groupVars, Shape, TypeOK, SeenInLog, BusyInLog, NoOffset
  <2> QED
    BY <1>2, <2>1, <2>2 DEF Produce, groupVars, storeVars, historyVars, Shape, TypeOK
<1>3. ASSUME NEW m \in Members, Assign(m), faults' \in 0..MaxFaults PROVE Shape'
  <2>1. pos' \in [Members -> 0..Len(Log)] /\ begun' \in 0..Len(Log) /\ SeenInLog'
    BY <1>3, LogAssumption DEF Assign, Shape, TypeOK, NoOffset, SeenInLog
  <2>2. missed' \in {NoOffset} \cup 0..Len(Log)
    BY <1>3 DEF Assign, Shape, TypeOK
  <2> QED
    BY <1>3, <2>1, <2>2 DEF Assign, groupVars, storeVars, historyVars, Shape, TypeOK, BusyInLog, SeenInLog
<1>4. ASSUME NEW m \in Members, Group(m) PROVE Shape'
  <2>1. CASE Join(m)
    BY <1>3, <2>1 DEF Join, Shape, TypeOK
  <2>2. CASE Rebalance(m)
    BY <1>3, <2>2, FaultTypes DEF Rebalance
  <2>3. CASE Crash(m)
    BY <2>3, FaultTypes, IdleIsAJob DEF Crash, storeVars, historyVars, Shape, TypeOK, BusyInLog, SeenInLog
  <2>4. CASE CommitOffset(m)
    BY <2>4 DEF CommitOffset, storeVars, historyVars, Shape, TypeOK, BusyInLog, SeenInLog
  <2> QED
    BY <1>4, <2>1, <2>2, <2>3, <2>4 DEF Group
<1>5. ASSUME NEW m \in Members, EachMessage(m) PROVE Shape'
  <2>1. CASE Deliver(m)
    <3>1. {[pc |-> "dlq", try |-> 0, txn |-> 0], [pc |-> "begin", try |-> 1, txn |-> 1]} \subseteq Jobs
      BY AttemptsAssumption DEF Jobs
    <3>2. MovesOn(m) \/ Resolve(m)
      BY <2>1, <3>1 DEF Deliver, MovesOn, Shape, TypeOK
    <3>3. MemberTypes'
      BY <2>1, <3>2, MemberStep DEF Deliver
    <3> QED
      BY <2>1, <3>3 DEF Deliver, MemberTypes, groupVars, storeVars, historyVars, Shape, TypeOK, SeenInLog
  <2>2. CASE Attempt(m)
    BY <2>2, AttemptShape
  <2>3. CASE SendToDlq(m)
    <3>1. job[m] # Idle /\ pos[m] < end
      BY <2>3 DEF SendToDlq, Idle, Shape, BusyInLog, SeenInLog
    <3>2. MemberTypes' /\ At(m) \in 1..Len(Log)
      BY <2>3, <3>1, MemberStep, BusyEvent DEF SendToDlq
    <3> QED
      BY <2>3, <3>2 DEF SendToDlq, MemberTypes, groupVars, storeVars, historyVars, Shape, TypeOK, SeenInLog
  <2>4. CASE SendToDlqFails(m)
    <3>1. job[m] # Idle
      BY <2>4 DEF SendToDlqFails, Idle
    <3> QED
      BY <2>4, <3>1, BusyEvent, FaultTypes, IdleIsAJob
         DEF SendToDlqFails, groupVars, storeVars, historyVars, Shape, TypeOK, BusyInLog, SeenInLog
  <2> QED
    BY <1>5, <2>1, <2>2, <2>3, <2>4 DEF EachMessage
<1> QED
  BY <1>1, <1>2, <1>4, <1>5 DEF Next

LEMMA InitShape == Init => Shape
  BY LogAssumption, FaultAssumption, SwitchAssumption, IdleIsAJob
     DEF Init, Shape, TypeOK, BusyInLog, SeenInLog, NoOffset

\* Types: a member's attempt counters stay within MaxAttempts and
\* MAX_ATTEMPTS (consume.js, idempotency.js), offsets within the log.
THEOREM TypeCorrect == Spec => []TypeOK
<1>1. Shape => TypeOK
  BY DEF Shape
<1> QED
  BY <1>1, InitShape, TypeStep, PTL DEF Spec

-----------------------------------------------------------------------------
(* The offset passes messages that are accounted for.                      *)

\* A marker is never committed without the handler's document.
MarkedIsStored == ~Pushing => \A e \in marked : writes[e] > 0

\* A message is accounted for when it is settled, or was skipped for a key
\* that another document holds.
Accounted(k) == Settled(k) \/ Log[k] \in skipped

\* What holds of the offset holds of what each member has gone past.
OffsetAccounts == \A k \in begun + 1..offset : Accounted(k)
MembersAccount == \A m \in Members : \A k \in begun + 1..pos[m] : Accounted(k)

\* The ranges, with the number that NoOffset is.
LEMMA Ranges ==
    ASSUME Shape
    PROVE  /\ offset \in {-1} \cup 0..Len(Log) /\ {begun, end} \subseteq 0..Len(Log)
           /\ Len(Log) \in Nat /\ pos \in [Members -> 0..Len(Log)]
<1>1. Len(Log) \in Nat
  BY LogAssumption
<1> QED
  BY <1>1 DEF Shape, TypeOK, NoOffset

LossInv == Shape /\ MarkedIsStored /\ OffsetAccounts /\ MembersAccount

\* Markers, documents, skips and DLQ copies stay.
Grows == /\ marked \subseteq marked' /\ skipped \subseteq skipped' /\ dlq \subseteq dlq'
         /\ \A e \in Events : writes[e] <= writes'[e]

LEMMA AccountedStays ==
    ASSUME Shape, Shape', Grows, NEW k \in 1..Len(Log), Accounted(k)
    PROVE  Accounted(k)'
<1>1. Log[k] \in Events
  BY LogAssumption
<1>2. writes[Log[k]] \in Nat /\ writes'[Log[k]] \in Nat /\ writes[Log[k]] <= writes'[Log[k]]
  BY <1>1 DEF Shape, TypeOK, Grows
<1> QED
  BY <1>2 DEF Accounted, Settled, Stored, Grows

\* A member that resolves its message has settled it; the others keep theirs.
LEMMA MovingAccounts ==
    ASSUME LossInv, Shape', Grows, UNCHANGED <<offset, begun>>, NEW m \in Members, pos[m] < end,
           NEW at, at = At(m),
           \/ UNCHANGED pos
           \/ pos' = [pos EXCEPT ![m] = @ + 1] /\ Accounted(at)'
    PROVE  OffsetAccounts' /\ MembersAccount'
<1> USE DEF LossInv
<1>1. /\ offset \in {-1} \cup 0..Len(Log) /\ begun \in 0..Len(Log)
      /\ Len(Log) \in Nat /\ pos \in [Members -> 0..Len(Log)]
  BY Ranges
<1>2. OffsetAccounts'
  <2> SUFFICES ASSUME NEW k \in begun + 1..offset PROVE Accounted(k)'
    BY DEF OffsetAccounts
  <2> QED
    BY <1>1, AccountedStays DEF OffsetAccounts
<1>3. ASSUME NEW n \in Members, NEW k \in begun + 1..pos'[n] PROVE Accounted(k)'
  <2>1. CASE k \in begun + 1..pos[n]
    BY <1>1, <2>1, AccountedStays DEF MembersAccount
  <2>2. CASE k \notin begun + 1..pos[n]
    <3>1. n = m /\ k = at /\ Accounted(at)'
      BY <1>1, <1>3, <2>2 DEF At
    <3> QED
      BY <3>1
  <2> QED
    BY <2>1, <2>2
<1>4. MembersAccount'
  BY <1>3 DEF MembersAccount
<1> QED
  BY <1>2, <1>4

\* A marked event is stored.
LEMMA MarkedAccounts ==
    ASSUME LossInv, NEW m \in Members, Event(m) \in marked
    PROVE  Stored(Event(m))
  BY DEF LossInv, MarkedIsStored, Stored

\* Storing settles the message and keeps everything stored.
LEMMA StoreSettles ==
    ASSUME Shape, NEW m \in Members, NEW e \in Events, e = Event(m),
           Store(m), UNCHANGED <<skipped, dlq>>
    PROVE  Grows /\ Stored(e)' /\ (MarkedIsStored => MarkedIsStored')
<1>1. writes \in [Events -> Nat] /\ marked \subseteq Events
  BY DEF Shape, TypeOK
<1>2. CASE Pushing
  BY <1>1, <1>2 DEF Store, Grows, Stored, MarkedIsStored
<1>3. CASE ~Pushing
  <2>1. writes' = [writes EXCEPT ![e] = writes[e] + 1]
    BY <1>3 DEF Store
  <2>2. /\ writes'[e] = writes[e] + 1
        /\ \A d \in Events \ {e} : writes'[d] = writes[d]
    BY <1>1, <2>1
  <2>3. writes'[e] > 0 /\ \A d \in Events : writes[d] <= writes'[d]
    BY <1>1, <2>2
  <2> QED
    BY <1>1, <1>3, <2>2, <2>3 DEF Store, Grows, Stored, MarkedIsStored
<1> QED
  BY <1>2, <1>3

\* Every step keeps the invariant: one step of the proof per action.
LEMMA LossStep == LossInv /\ [Next]_vars => LossInv'
<1> SUFFICES ASSUME LossInv, [Next]_vars PROVE LossInv'
  OBVIOUS
<1>1. /\ Shape /\ Shape' /\ Len(Log) \in Nat /\ pos \in [Members -> 0..Len(Log)]
      /\ offset \in {-1} \cup 0..Len(Log) /\ {begun, end} \subseteq 0..Len(Log)
  BY TypeStep, Ranges DEF LossInv
<1>2. ASSUME UNCHANGED <<storeVars, dlq>>, skipped \subseteq skipped' PROVE Grows /\ MarkedIsStored'
  <2>1. \A e \in Events : writes[e] \in Nat
    BY <1>1 DEF Shape, TypeOK
  <2> QED
    BY <1>2, <2>1 DEF Grows, MarkedIsStored, LossInv, storeVars
\* Steps of the group: positions come from what is settled already.
<1>3. ASSUME UNCHANGED <<storeVars, skipped, dlq, begun>>,
             offset' = offset \/ \E m \in Members : offset' = pos[m],
             \A m \in Members : pos'[m] = pos[m] \/ pos'[m] = offset
      PROVE  LossInv'
  <2>1. \A k \in 1..Len(Log) : Accounted(k) => Accounted(k)'
    BY <1>1, <1>2, <1>3, AccountedStays
  <2>2. offset' \in {-1} \cup 0..Len(Log)
    BY <1>1, <1>3
  <2>3. OffsetAccounts'
    BY <1>1, <1>3, <2>1, <2>2 DEF LossInv, OffsetAccounts, MembersAccount
  <2>4. MembersAccount'
    BY <1>1, <1>3, <2>1, <2>2 DEF LossInv, OffsetAccounts, MembersAccount
  <2> QED
    BY <1>1, <1>2, <1>3, <2>3, <2>4 DEF LossInv
\* A group without an offset begins at what is the end by now.
<1>9. ASSUME NEW m \in Members, Assign(m), offset = NoOffset PROVE LossInv'
  <2>1. begun' = end /\ offset' = -1 /\ SeenInLog' /\ end' = end
    BY <1>1, <1>9 DEF Assign, NoOffset, Shape
  <2>2. OffsetAccounts'
    BY <1>1, <2>1 DEF OffsetAccounts
  <2>3. pos' \in [Members -> 0..Len(Log)]
    BY <1>1 DEF Shape, TypeOK
  <2>4. MembersAccount'
    BY <1>1, <2>1, <2>3 DEF MembersAccount, SeenInLog
  <2> QED
    BY <1>1, <1>2, <1>9, <2>2, <2>4 DEF LossInv, Assign, historyVars
\* Steps of a member that is busy with a message.
<1>4. ASSUME NEW m \in Members, pos[m] < end, NEW at, at = At(m), Grows,
             MarkedIsStored', UNCHANGED <<offset, begun>>,
             \/ UNCHANGED pos
             \/ pos' = [pos EXCEPT ![m] = @ + 1] /\ Accounted(at)'
      PROVE  LossInv'
  BY <1>1, <1>4, MovingAccounts DEF LossInv
<1>5. CASE UNCHANGED vars
  BY <1>1, <1>3, <1>5 DEF vars, groupVars, historyVars
<1>6. CASE Produce
  BY <1>1, <1>3, <1>6 DEF Produce, groupVars, historyVars
<1>7. ASSUME NEW m \in Members, Group(m) PROVE LossInv'
  <2>1. CASE Join(m) \/ Rebalance(m)
    <3>1. Assign(m)
      BY <2>1 DEF Join, Rebalance
    <3>2. CASE offset # NoOffset
      BY <1>1, <1>3, <3>1, <3>2 DEF Assign, historyVars
    <3> QED
      BY <1>9, <3>1, <3>2
  <2>2. CASE Crash(m)
    BY <1>1, <1>3, <2>2 DEF Crash, historyVars
  <2>3. CASE CommitOffset(m)
    BY <1>1, <1>3, <2>3 DEF CommitOffset, historyVars
  <2> QED
    BY <1>7, <2>1, <2>2, <2>3 DEF Group
<1>8. ASSUME NEW m \in Members, EachMessage(m) PROVE LossInv'
  <2>1. pos[m] < end
    BY <1>1, <1>8 DEF EachMessage, Deliver, Attempt, InsertMarker, HandlerWrites,
       HandlerPushes, DbError, CommitOk, CommitFails, SendToDlq, SendToDlqFails,
       Shape, BusyInLog, Idle
  <2>2. At(m) \in 1..Len(Log) /\ Event(m) \in Events
    <3>1. end \in 0..Len(Log) /\ Len(Log) \in Nat
      BY <1>1, LogAssumption DEF Shape, TypeOK
    <3>2. At(m) \in 1..Len(Log)
      BY <1>1, <2>1, <3>1 DEF At
    <3> QED
      BY <3>2, LogAssumption DEF Event
  <2>3. ASSUME UNCHANGED <<offset, begun, pos>>, Grows, MarkedIsStored' PROVE LossInv'
    BY <1>4, <2>1, <2>3
  <2>4. (AttemptFails(m) \/ Transient(m) \/ \E pc \in {"work", "commit"} : GoTo(m, pc))
          => UNCHANGED pos
    BY DEF AttemptFails, Transient, GoTo
  <2>5. ASSUME Accounted(At(m)), UNCHANGED <<offset, begun, storeVars, skipped, dlq>>, Resolve(m)
        PROVE  LossInv'
    <3>1. PICK at \in 1..Len(Log) : at = At(m)
      BY <2>2
    <3>2. Accounted(at)'
      BY <1>1, <1>2, <2>5, <3>1, AccountedStays
    <3> QED
      BY <1>2, <1>4, <2>1, <2>5, <3>1, <3>2 DEF Resolve
  <2>6. ASSUME Stored(Event(m)) PROVE Accounted(At(m))
    BY <2>6 DEF Accounted, Settled, Event
  <2>7. CASE Deliver(m)
    <3>1. Event(m) \in Unexpected \ Malformed => Accounted(At(m))
      BY DEF Accounted, Settled, Event
    <3> QED
      BY <1>2, <2>3, <2>5, <2>7, <3>1 DEF Deliver, groupVars, historyVars
  <2>8. CASE InsertMarker(m)
    <3>1. Event(m) \in marked => Accounted(At(m))
      BY <2>6, MarkedAccounts
    <3> QED
      BY <1>2, <2>3, <2>4, <2>5, <2>8, <3>1 DEF InsertMarker, groupVars, historyVars
  <2>9. CASE HandlerWrites(m)
    <3>1. UNCHANGED <<offset, begun, storeVars, dlq>>
      BY <2>9 DEF HandlerWrites, groupVars
    <3>2. CASE Resolve(m) /\ skipped' = skipped \cup {Event(m)}
      <4>1. PICK at \in 1..Len(Log) : at = At(m)
        BY <2>2
      <4>2. Accounted(at)'
        BY <3>2, <4>1 DEF Accounted, Event
      <4> QED
        BY <1>2, <1>4, <2>1, <3>1, <3>2, <4>1, <4>2 DEF Resolve
    <3>3. CASE UNCHANGED <<skipped, pos>>
      BY <1>2, <2>3, <3>1, <3>3
    <3> QED
      BY <2>4, <2>9, <3>2, <3>3 DEF HandlerWrites
  <2>10. CASE HandlerPushes(m)
    BY <1>2, <2>3, <2>4, <2>10 DEF HandlerPushes, groupVars
  <2>11. CASE DbError(m)
    BY <1>2, <2>3, <2>4, <2>11 DEF DbError, groupVars, historyVars
  <2>12. CASE CommitOk(m)
    <3>1. PICK at : at = At(m)
      OBVIOUS
    <3>2. PICK e \in Events : e = Event(m)
      BY <2>2
    <3>3. Store(m) /\ Resolve(m) /\ UNCHANGED <<offset, begun, skipped, dlq>>
      BY <2>12 DEF CommitOk, groupVars, historyVars
    <3>4. Grows /\ Stored(e)' /\ MarkedIsStored'
      BY <1>1, <3>2, <3>3, StoreSettles DEF LossInv
    <3>5. Accounted(at)'
      <4>1. Log[at] = e
        BY <3>1, <3>2 DEF Event
      <4> QED
        BY <3>4, <4>1 DEF Accounted, Settled, Stored
    <3> QED
      BY <1>4, <2>1, <3>1, <3>3, <3>4, <3>5 DEF Resolve
  <2>13. CASE CommitFails(m)
    <3>1. CASE Store(m)
      <4>1. PICK e \in Events : e = Event(m)
        BY <2>2
      <4>2. Grows /\ MarkedIsStored'
        BY <1>1, <2>13, <3>1, <4>1, StoreSettles DEF LossInv, CommitFails, historyVars
      <4> QED
        BY <2>3, <2>4, <2>13, <4>2 DEF CommitFails, groupVars
    <3>2. CASE UNCHANGED storeVars
      BY <1>2, <2>3, <2>4, <2>13, <3>2 DEF CommitFails, groupVars, historyVars
    <3> QED
      BY <2>13, <3>1, <3>2 DEF CommitFails
  <2>14. CASE SendToDlq(m)
    <3>1. PICK at : at = At(m)
      OBVIOUS
    <3>2. dlq' = dlq \cup {at} /\ UNCHANGED <<offset, begun, storeVars, skipped>> /\ Resolve(m)
      BY <2>14, <3>1 DEF SendToDlq, groupVars, historyVars
    <3>3. Grows /\ MarkedIsStored' /\ Accounted(at)'
      BY <1>1, <3>2 DEF Grows, MarkedIsStored, LossInv, Shape, TypeOK, storeVars, Accounted, Settled
    <3> QED
      BY <1>4, <2>1, <3>1, <3>2, <3>3 DEF Resolve
  <2>15. CASE SendToDlqFails(m)
    <3>1. Grows /\ MarkedIsStored'
      BY <1>1, <2>15 DEF SendToDlqFails, Grows, MarkedIsStored, LossInv, Shape, TypeOK,
         storeVars, historyVars
    <3> QED
      BY <2>3, <2>15, <3>1 DEF SendToDlqFails, groupVars
  <2> QED
    BY <1>8, <2>7, <2>8, <2>9, <2>10, <2>11, <2>12, <2>13, <2>14, <2>15 DEF EachMessage, Attempt
<1> QED
  BY <1>5, <1>6, <1>7, <1>8 DEF Next

LEMMA LossHolds == Spec => []LossInv
<1>1. Init => LossInv
  BY InitShape DEF Init, OffsetAccounts, MembersAccount, MarkedIsStored, NoOffset, LossInv
<1> QED
  BY <1>1, LossStep, PTL DEF Spec

-----------------------------------------------------------------------------
(* Effects are stored once.                                                *)

\* Two members never have transactions open on one event, and none is open on
\* an event that is marked: what makes EffectOnce inductive.
OneTransactionPerEvent ==
    \A m, n \in Members :
        m # n /\ HoldsMarker(m) /\ HoldsMarker(n) => Event(m) # Event(n)
HeldIsUnmarked == \A m \in Members : HoldsMarker(m) => Event(m) \notin marked

EffectInv == Shape /\ EffectOnce /\ OneTransactionPerEvent /\ HeldIsUnmarked

\* Steps that store nothing and open no transaction.
LEMMA NothingOpened ==
    ASSUME EffectInv, Shape', UNCHANGED storeVars,
           \A m \in Members : HoldsMarker(m)' => HoldsMarker(m) /\ pos'[m] = pos[m]
    PROVE  EffectInv'
<1>1. EffectOnce'
  BY DEF EffectInv, EffectOnce, storeVars
<1>2. \A m \in Members : HoldsMarker(m)' => HoldsMarker(m) /\ Event(m)' = Event(m)
  BY DEF Event, At
<1>3. OneTransactionPerEvent'
  BY <1>2 DEF EffectInv, OneTransactionPerEvent
<1>4. HeldIsUnmarked'
  BY <1>2 DEF EffectInv, HeldIsUnmarked, storeVars
<1> QED
  BY <1>1, <1>3, <1>4 DEF EffectInv

\* A member opens a transaction on an event that nobody holds or has marked.
LEMMA OpenedAlone ==
    ASSUME EffectInv, Shape', UNCHANGED <<storeVars, pos>>, NEW m \in Members,
           \A n \in Members \ {m} : job'[n] = job[n],
           Event(m) \notin marked,
           \A n \in Members \ {m} : HoldsMarker(n) => Event(n) # Event(m)
    PROVE  EffectInv'
<1>1. EffectOnce'
  BY DEF EffectInv, EffectOnce, storeVars
<1>2. \A n \in Members : Event(n)' = Event(n)
  BY DEF Event, At
<1>3. \A n \in Members \ {m} : HoldsMarker(n)' => HoldsMarker(n)
  BY DEF HoldsMarker
<1>4. OneTransactionPerEvent'
  BY <1>2, <1>3 DEF EffectInv, OneTransactionPerEvent
<1>5. HeldIsUnmarked'
  BY <1>2, <1>3 DEF EffectInv, HeldIsUnmarked, storeVars
<1> QED
  BY <1>1, <1>4, <1>5 DEF EffectInv

\* A member whose transaction commits held the only one on its event.
LEMMA StoredOnce ==
    ASSUME EffectInv, Shape', NEW m \in Members, HoldsMarker(m), Store(m),
           ~HoldsMarker(m)',
           \A n \in Members \ {m} : job'[n] = job[n] /\ pos'[n] = pos[n]
    PROVE  EffectInv'
<1>1. job[m] # Idle
  BY DEF HoldsMarker, Idle
<1>2. PICK e \in Events : e = Event(m)
  BY <1>1, BusyEvent DEF EffectInv
<1>3. e \notin marked /\ writes \in [Events -> Nat]
  BY <1>2 DEF EffectInv, HeldIsUnmarked, Shape, TypeOK
<1>4. EffectOnce'
  <2>1. CASE Pushing
    BY <1>2, <2>1 DEF Store, EffectInv, EffectOnce
  <2>2. CASE ~Pushing
    <3>1. writes[e] = 0
      BY <1>3, <2>2 DEF EffectInv, EffectOnce
    <3>2. writes' = [writes EXCEPT ![e] = 1] /\ marked' = marked \cup {e}
      BY <1>2, <1>3, <2>2, <3>1 DEF Store
    <3> QED
      BY <1>3, <2>2, <3>2 DEF EffectInv, EffectOnce
  <2> QED
    BY <2>1, <2>2
<1>5. \A n \in Members : HoldsMarker(n)' => n # m /\ HoldsMarker(n) /\ Event(n)' = Event(n)
  BY DEF HoldsMarker, Event, At
<1>6. OneTransactionPerEvent'
  BY <1>5 DEF EffectInv, OneTransactionPerEvent
<1>7. \A n \in Members : HoldsMarker(n)' => Event(n) # Event(m)
  BY <1>5 DEF EffectInv, OneTransactionPerEvent
<1>8. HeldIsUnmarked'
  BY <1>5, <1>7 DEF EffectInv, HeldIsUnmarked, Store
<1> QED
  BY <1>4, <1>6, <1>8 DEF EffectInv

LEMMA EffectStep == EffectInv /\ [Next]_vars => EffectInv'
<1> SUFFICES ASSUME EffectInv, [Next]_vars PROVE EffectInv'
  OBVIOUS
<1>1. Shape /\ Shape' /\ job \in [Members -> Jobs] /\ pos \in [Members -> 0..Len(Log)]
  BY TypeStep DEF EffectInv, Shape, TypeOK
\* What a step of one member does with its job, when it stores nothing.
<1>2. ASSUME NEW m \in Members, UNCHANGED storeVars,
             \A n \in Members \ {m} : job'[n] = job[n] /\ pos'[n] = pos[n],
             HoldsMarker(m)' => HoldsMarker(m) /\ pos'[m] = pos[m]
      PROVE  EffectInv'
  <2>1. \A n \in Members : HoldsMarker(n)' => HoldsMarker(n) /\ pos'[n] = pos[n]
    BY <1>2 DEF HoldsMarker
  <2> QED
    BY <1>1, <1>2, <2>1, NothingOpened
<1>3. ASSUME NEW m \in Members, AttemptFails(m) \/ Transient(m) \/ Resolve(m)
      PROVE  /\ \A n \in Members \ {m} : job'[n] = job[n] /\ pos'[n] = pos[n]
             /\ ~HoldsMarker(m)'
  BY <1>1, <1>3 DEF AttemptFails, Transient, Resolve, HoldsMarker, Idle, Jobs
<1>4. ASSUME NEW m \in Members, NEW pc \in {"work", "commit"}, GoTo(m, pc)
      PROVE  UNCHANGED pos /\ \A n \in Members \ {m} : job'[n] = job[n]
  BY <1>1, <1>4 DEF GoTo
<1>5. CASE UNCHANGED vars \/ Produce
  BY <1>1, <1>5, NothingOpened DEF vars, Produce, groupVars, HoldsMarker
<1>6. ASSUME NEW m \in Members, Group(m) PROVE EffectInv'
  <2>1. CASE Join(m) \/ Rebalance(m)
    BY <1>1, <1>2, <2>1 DEF Join, Rebalance, Assign, HoldsMarker, Idle
  <2>2. CASE Crash(m)
    BY <1>1, <1>2, <2>2 DEF Crash, HoldsMarker, Idle
  <2>3. CASE CommitOffset(m)
    BY <1>1, <1>2, <2>3 DEF CommitOffset, HoldsMarker
  <2> QED
    BY <1>6, <2>1, <2>2, <2>3 DEF Group
<1>7. ASSUME NEW m \in Members, EachMessage(m) PROVE EffectInv'
  <2>1. CASE Deliver(m)
    BY <1>1, <1>2, <1>3, <2>1 DEF Deliver, HoldsMarker
  <2>2. CASE InsertMarker(m)
    <3>1. CASE AttemptFails(m) \/ Transient(m) \/ Resolve(m)
      BY <1>2, <1>3, <2>2, <3>1 DEF InsertMarker
    <3>2. CASE ~(AttemptFails(m) \/ Transient(m) \/ Resolve(m))
      <4>1. /\ GoTo(m, "work") /\ Event(m) \notin marked
            /\ \A n \in Members \ {m} : HoldsMarker(n) => Event(n) # Event(m)
        BY <2>2, <3>2 DEF InsertMarker
      <4> QED
        BY <1>1, <1>4, <2>2, <4>1, OpenedAlone DEF InsertMarker
    <3> QED
      BY <3>1, <3>2
  <2>3. CASE HandlerWrites(m) \/ HandlerPushes(m)
    <3>1. HoldsMarker(m) /\ UNCHANGED storeVars
      BY <2>3 DEF HandlerWrites, HandlerPushes, HoldsMarker, storeVars
    <3>2. CASE AttemptFails(m) \/ Transient(m) \/ Resolve(m)
      BY <1>2, <1>3, <3>1, <3>2
    <3>3. CASE GoTo(m, "commit")
      BY <1>2, <1>4, <3>1, <3>3
    <3> QED
      BY <2>3, <3>2, <3>3 DEF HandlerWrites, HandlerPushes
  <2>4. CASE DbError(m)
    BY <1>2, <1>3, <2>4 DEF DbError
  <2>5. CASE CommitOk(m)
    BY <1>1, <1>3, <2>5, StoredOnce DEF CommitOk, HoldsMarker
  <2>6. CASE CommitFails(m)
    <3>1. HoldsMarker(m) /\ (AttemptFails(m) \/ Transient(m))
      BY <2>6 DEF CommitFails, HoldsMarker
    <3>2. CASE Store(m)
      BY <1>1, <1>3, <3>1, <3>2, StoredOnce
    <3>3. CASE UNCHANGED storeVars
      BY <1>2, <1>3, <3>1, <3>3
    <3> QED
      BY <2>6, <3>2, <3>3 DEF CommitFails
  <2>7. CASE SendToDlq(m)
    BY <1>2, <1>3, <2>7 DEF SendToDlq
  <2>8. CASE SendToDlqFails(m)
    BY <1>1, <1>2, <2>8 DEF SendToDlqFails, HoldsMarker, Idle
  <2> QED
    BY <1>7, <2>1, <2>2, <2>3, <2>4, <2>5, <2>6, <2>7, <2>8 DEF EachMessage, Attempt
<1> QED
  BY <1>5, <1>6, <1>7 DEF Next

LEMMA InitEffect == Init => EffectInv
  BY InitShape DEF Init, EffectInv, EffectOnce, OneTransactionPerEvent,
     HeldIsUnmarked, HoldsMarker, Idle

\* The document of an event is stored once, exactly when its marker is,
\* however often the event is delivered, and whoever handles it (the header
\* of idempotency.js); no hypothesis on keys is needed.
THEOREM EffectIsOnce == Spec => []EffectOnce
<1>1. EffectInv => EffectOnce
  BY DEF EffectInv
<1> QED
  BY <1>1, InitEffect, EffectStep, PTL DEF Spec

-----------------------------------------------------------------------------
(* What is skipped, and what is lost.                                      *)

\* Keys are held by one open transaction, and not of a document that is stored.
KeysExclusive ==
    /\ \A m \in Members :
          ~Pushing /\ HoldsKeys(m) => KeysOf[Event(m)] \cap ClaimedKeys = {}
    /\ \A m, n \in Members :
          ~Pushing /\ m # n /\ HoldsKeys(m) /\ HoldsKeys(n) =>
              KeysOf[Event(m)] \cap KeysOf[Event(n)] = {}

\* A skipped event is excluded by a stored document, whose keys no open
\* transaction holds: so its own document is not written any more.
SkipInv == KeysExclusive /\ SkipsAreRefusals /\ (Pushing => skipped = {})

\* Steps that store and skip nothing, and after which no more keys are held.
LEMMA NoKeysTaken ==
    ASSUME SkipInv, UNCHANGED <<writes, skipped>>,
           \A m \in Members : HoldsKeys(m)' => HoldsKeys(m) /\ pos'[m] = pos[m]
    PROVE  SkipInv'
<1>1. \A m \in Members : HoldsKeys(m)' => HoldsKeys(m) /\ Event(m)' = Event(m)
  BY DEF Event, At
<1>2. ClaimedKeys' = ClaimedKeys
  BY DEF ClaimedKeys
<1>3. KeysExclusive'
  BY <1>1, <1>2 DEF SkipInv, KeysExclusive
<1> QED
  BY <1>3 DEF SkipInv, SkipsAreRefusals

\* The handler writes its document into the transaction.
LEMMA KeysTaken ==
    ASSUME SkipInv, UNCHANGED <<writes, skipped, pos>>, NEW m \in Members,
           \A n \in Members \ {m} : job'[n] = job[n],
           ~Pushing => KeysOf[Event(m)] \cap ClaimedKeys = {},
           \A n \in Members \ {m} : ~Pushing /\ HoldsKeys(n) =>
               KeysOf[Event(n)] \cap KeysOf[Event(m)] = {}
    PROVE  SkipInv'
<1>1. \A n \in Members : Event(n)' = Event(n)
  BY DEF Event, At
<1>2. \A n \in Members \ {m} : HoldsKeys(n)' <=> HoldsKeys(n)
  BY DEF HoldsKeys
<1>3. ClaimedKeys' = ClaimedKeys
  BY DEF ClaimedKeys
<1>4. KeysExclusive'
  BY <1>1, <1>2, <1>3 DEF SkipInv, KeysExclusive
<1> QED
  BY <1>4 DEF SkipInv, SkipsAreRefusals

\* The document becomes durable: its keys were free, so no skipped event is
\* stored, and what excluded a skipped event still does.
LEMMA KeysStored ==
    ASSUME Shape, SkipInv, UNCHANGED skipped, NEW m \in Members, HoldsKeys(m), Store(m),
           ~HoldsKeys(m)',
           \A n \in Members \ {m} : job'[n] = job[n] /\ pos'[n] = pos[n]
    PROVE  SkipInv'
<1>1. job[m] # Idle
  BY DEF HoldsKeys, Idle
<1>2. PICK e \in Events : e = Event(m)
  BY <1>1, BusyEvent
<1>3. CASE Pushing
  BY <1>3 DEF SkipInv, KeysExclusive, SkipsAreRefusals
<1>4. CASE ~Pushing
  <2>1. /\ writes \in [Events -> Nat]
        /\ writes' = [writes EXCEPT ![e] = @ + 1]
    BY <1>2, <1>4 DEF Store, Shape, TypeOK
  <2>2. /\ writes'[e] > 0 /\ \A d \in Events \ {e} : writes'[d] = writes[d]
        /\ \A d \in Events : writes[d] > 0 => writes'[d] > 0
    BY <2>1
  <2>3. KeysOf[e] \cap ClaimedKeys = {}
    BY <1>2, <1>4 DEF SkipInv, KeysExclusive
  <2>4. e \notin skipped
    <3> SUFFICES ASSUME e \in skipped PROVE FALSE
      OBVIOUS
    <3>1. PICK d \in Events : writes[d] > 0 /\ KeysOf[d] \cap KeysOf[e] # {}
      BY DEF SkipInv, SkipsAreRefusals
    <3>2. KeysOf[d] \subseteq ClaimedKeys
      BY <3>1 DEF ClaimedKeys
    <3> QED
      BY <2>3, <3>1, <3>2
  <2>5. SkipsAreRefusals'
    <3> SUFFICES ASSUME NEW f \in skipped
                 PROVE  /\ writes'[f] = 0
                        /\ \E d \in Events \ {f} : writes'[d] > 0 /\ KeysOf[d] \cap KeysOf[f] # {}
      BY DEF SkipsAreRefusals
    <3>1. f # e /\ f \in Events
      BY <2>4 DEF Shape, TypeOK
    <3>2. PICK d \in Events \ {f} : writes[d] > 0 /\ KeysOf[d] \cap KeysOf[f] # {}
      BY DEF SkipInv, SkipsAreRefusals
    <3> QED
      BY <2>2, <3>1, <3>2 DEF SkipInv, SkipsAreRefusals
  <2>6. ClaimedKeys' = ClaimedKeys \cup KeysOf[e]
    <3>1. \A d \in Events : writes'[d] > 0 <=> writes[d] > 0 \/ d = e
      BY <2>2
    <3> QED
      BY <3>1 DEF ClaimedKeys
  <2>7. \A n \in Members : HoldsKeys(n)' => n # m /\ HoldsKeys(n) /\ Event(n)' = Event(n)
    BY DEF HoldsKeys, Event, At
  <2>8. KeysExclusive'
    BY <1>2, <1>4, <2>6, <2>7 DEF SkipInv, KeysExclusive
  <2> QED
    BY <1>4, <2>5, <2>8 DEF SkipInv
<1> QED
  BY <1>3, <1>4

LEMMA SkipStep == EffectInv /\ SkipInv /\ [Next]_vars => SkipInv'
<1> SUFFICES ASSUME EffectInv, SkipInv, [Next]_vars PROVE SkipInv'
  OBVIOUS
<1>1. Shape /\ job \in [Members -> Jobs] /\ pos \in [Members -> 0..Len(Log)]
  BY DEF EffectInv, Shape, TypeOK
\* What a step of one member does with its job, when it stores nothing.
<1>2. ASSUME NEW m \in Members, UNCHANGED <<writes, skipped>>,
             \A n \in Members \ {m} : job'[n] = job[n] /\ pos'[n] = pos[n],
             HoldsKeys(m)' => HoldsKeys(m) /\ pos'[m] = pos[m]
      PROVE  SkipInv'
  <2>1. \A n \in Members : HoldsKeys(n)' => HoldsKeys(n) /\ pos'[n] = pos[n]
    BY <1>2 DEF HoldsKeys
  <2> QED
    BY <1>2, <2>1, NoKeysTaken
<1>3. ASSUME NEW m \in Members, AttemptFails(m) \/ Transient(m) \/ Resolve(m)
      PROVE  /\ \A n \in Members \ {m} : job'[n] = job[n] /\ pos'[n] = pos[n]
             /\ ~HoldsKeys(m)'
  BY <1>1, <1>3 DEF AttemptFails, Transient, Resolve, HoldsKeys, Idle, Jobs
<1>4. ASSUME NEW m \in Members, NEW pc \in {"work", "commit"}, GoTo(m, pc)
      PROVE  UNCHANGED pos /\ job'[m].pc = pc /\ \A n \in Members \ {m} : job'[n] = job[n]
  BY <1>1, <1>4 DEF GoTo, Jobs
<1>5. CASE UNCHANGED vars \/ Produce
  BY <1>5, NoKeysTaken DEF vars, Produce, storeVars, historyVars, HoldsKeys
<1>6. ASSUME NEW m \in Members, Group(m) PROVE SkipInv'
  <2>0. UNCHANGED <<writes, skipped>>
    BY <1>6 DEF Group, Join, Rebalance, Assign, Crash, CommitOffset, storeVars, historyVars
  <2>1. CASE Join(m) \/ Rebalance(m)
    BY <1>1, <1>2, <2>0, <2>1 DEF Join, Rebalance, Assign, HoldsKeys, Idle
  <2>2. CASE Crash(m)
    BY <1>1, <1>2, <2>0, <2>2 DEF Crash, HoldsKeys, Idle
  <2>3. CASE CommitOffset(m)
    BY <1>1, <1>2, <2>0, <2>3 DEF CommitOffset, HoldsKeys
  <2> QED
    BY <1>6, <2>1, <2>2, <2>3 DEF Group
<1>7. ASSUME NEW m \in Members, EachMessage(m) PROVE SkipInv'
  <2>1. CASE Deliver(m)
    BY <1>1, <1>2, <1>3, <2>1 DEF Deliver, HoldsKeys, storeVars, historyVars
  <2>2. CASE InsertMarker(m)
    <3>1. UNCHANGED <<writes, skipped>>
      BY <2>2 DEF InsertMarker, storeVars, historyVars
    <3>2. CASE AttemptFails(m) \/ Transient(m) \/ Resolve(m)
      BY <1>2, <1>3, <3>1, <3>2
    <3>3. CASE GoTo(m, "work")
      BY <1>2, <1>4, <3>1, <3>3 DEF HoldsKeys
    <3> QED
      BY <2>2, <3>2, <3>3 DEF InsertMarker
  <2>3. CASE HandlerWrites(m)
    <3>1. HoldsMarker(m) /\ job[m] # Idle /\ UNCHANGED writes /\ ~Pushing
      BY <2>3 DEF HandlerWrites, HoldsMarker, Idle, storeVars
    <3>2. PICK e \in Events : e = Event(m)
      BY <1>1, <3>1, BusyEvent
    <3>3. CASE KeysOf[e] \cap ClaimedKeys # {} /\ Resolve(m) /\ skipped' = skipped \cup {e}
      <4>1. e \notin marked /\ writes[e] = 0
        <5>1. e \notin marked /\ writes[e] <= 1 /\ writes[e] # 1 /\ writes[e] \in Nat
          BY <3>1, <3>2 DEF EffectInv, HeldIsUnmarked, EffectOnce, Shape, TypeOK
        <5> QED
          BY <5>1
      <4>2. PICK d \in Events : writes[d] > 0 /\ KeysOf[d] \cap KeysOf[e] # {}
        BY <3>3 DEF ClaimedKeys
      <4>3. d \in Events \ {e}
        BY <4>1, <4>2
      <4>4. SkipsAreRefusals'
        BY <3>1, <3>3, <4>1, <4>2, <4>3 DEF SkipInv, SkipsAreRefusals
      <4>5. \A n \in Members : HoldsKeys(n)' => HoldsKeys(n) /\ Event(n)' = Event(n)
        BY <1>3, <3>3 DEF HoldsKeys, Event, At
      <4>6. ClaimedKeys' = ClaimedKeys
        BY <3>1 DEF ClaimedKeys
      <4>7. KeysExclusive'
        BY <4>5, <4>6 DEF SkipInv, KeysExclusive
      <4> QED
        BY <3>1, <4>4, <4>7 DEF SkipInv
    <3>4. CASE UNCHANGED skipped /\ (AttemptFails(m) \/ Transient(m))
      BY <1>2, <1>3, <3>1, <3>4
    <3>5. CASE /\ UNCHANGED skipped /\ GoTo(m, "commit")
               /\ KeysOf[e] \cap ClaimedKeys = {}
               /\ \A n \in Members \ {m} : HoldsKeys(n) => KeysOf[Event(n)] \cap KeysOf[e] = {}
      BY <1>4, <3>1, <3>2, <3>5, KeysTaken
    <3> QED
      BY <2>3, <3>2, <3>3, <3>4, <3>5 DEF HandlerWrites
  <2>4. CASE HandlerPushes(m)
    <3>1. Pushing /\ UNCHANGED <<writes, skipped, pos>> /\ GoTo(m, "commit")
      BY <2>4 DEF HandlerPushes, storeVars, GoTo
    <3> QED
      BY <1>4, <3>1, KeysTaken
  <2>5. CASE DbError(m)
    BY <1>2, <1>3, <2>5 DEF DbError, storeVars, historyVars
  <2>6. CASE CommitOk(m)
    <3>1. HoldsKeys(m) /\ Store(m) /\ Resolve(m) /\ UNCHANGED skipped
      BY <2>6 DEF CommitOk, HoldsKeys, historyVars
    <3> QED
      BY <1>1, <1>3, <3>1, KeysStored
  <2>7. CASE CommitFails(m)
    <3>1. HoldsKeys(m) /\ (AttemptFails(m) \/ Transient(m)) /\ UNCHANGED skipped
      BY <2>7 DEF CommitFails, HoldsKeys, historyVars
    <3>2. CASE Store(m)
      BY <1>1, <1>3, <3>1, <3>2, KeysStored
    <3>3. CASE UNCHANGED storeVars
      BY <1>2, <1>3, <3>1, <3>3 DEF storeVars
    <3> QED
      BY <2>7, <3>2, <3>3 DEF CommitFails
  <2>8. CASE SendToDlq(m)
    BY <1>2, <1>3, <2>8 DEF SendToDlq, storeVars, historyVars
  <2>9. CASE SendToDlqFails(m)
    BY <1>1, <1>2, <2>9 DEF SendToDlqFails, HoldsKeys, Idle, storeVars, historyVars
  <2> QED
    BY <1>7, <2>1, <2>2, <2>3, <2>4, <2>5, <2>6, <2>7, <2>8, <2>9 DEF EachMessage, Attempt
<1> QED
  BY <1>5, <1>6, <1>7 DEF Next

LEMMA SkipHolds == Spec => [](EffectInv /\ SkipInv)
<1>1. Init => SkipInv
  BY DEF Init, SkipInv, KeysExclusive, SkipsAreRefusals, HoldsKeys, Idle
<1> QED
  BY <1>1, InitEffect, EffectStep, SkipStep, PTL DEF Spec

\* An event is skipped without a marker only for a key of another event's
\* document, and then it is never stored (idempotency.js:114-116).
THEOREM SkipsRefused == Spec => []SkipsAreRefusals
<1>1. SkipInv => SkipsAreRefusals
  BY DEF SkipInv
<1> QED
  BY <1>1, SkipHolds, PTL

\* No two events claim the same unique key: each document has keys of its own.
OwnKeysOnly == \A d, e \in Events : d # e => KeysOf[d] \cap KeysOf[e] = {}

\* While nothing has failed the group has not been assigned yet, or once only.
BeginsOnce ==
    faults = 0 =>
        \/ owner = Nobody /\ begun = 0 /\ missed \in {NoOffset, 0} /\ offset = missed
        \/ owner # Nobody /\ begun = missed

LEMMA BeginStep == Shape /\ BeginsOnce /\ [Next]_vars => BeginsOnce'
<1> SUFFICES ASSUME Shape, BeginsOnce, [Next]_vars PROVE BeginsOnce'
  OBVIOUS
<1>1. faults \in Nat /\ (Fault => faults' # 0)
  BY FaultAssumption DEF Shape, TypeOK, Fault
<1>2. ASSUME UNCHANGED groupVars, UNCHANGED faults \/ Fault PROVE BeginsOnce'
  BY <1>1, <1>2 DEF BeginsOnce, groupVars
<1>3. CASE UNCHANGED vars \/ Produce
  BY <1>2, <1>3 DEF vars, Produce
<1>4. ASSUME NEW m \in Members, Group(m) PROVE BeginsOnce'
  <2>1. m # Nobody
    BY FaultAssumption
  <2>2. CASE Join(m)
    <3>1. /\ owner = Nobody /\ owner' = m /\ UNCHANGED <<offset, faults>>
          /\ begun' = IF offset = NoOffset THEN end ELSE begun
          /\ missed' = IF missed = NoOffset THEN end ELSE missed
      BY <2>2 DEF Join, Assign
    <3> QED
      BY <2>1, <3>1 DEF BeginsOnce
  <2>3. CASE Rebalance(m) \/ Crash(m)
    BY <1>1, <2>3 DEF Rebalance, Crash, BeginsOnce
  <2>4. CASE CommitOffset(m)
    BY <2>1, <2>4 DEF CommitOffset, BeginsOnce
  <2> QED
    BY <1>4, <2>2, <2>3, <2>4 DEF Group
<1>5. ASSUME NEW m \in Members, EachMessage(m) PROVE BeginsOnce'
  BY <1>2, <1>5 DEF EachMessage, Attempt, Deliver, InsertMarker, HandlerWrites,
     HandlerPushes, DbError, CommitOk, CommitFails, SendToDlq, SendToDlqFails
<1> QED
  BY <1>3, <1>4, <1>5 DEF Next

\* The group's offset never passes a message that left no trace, if its consumer
\* pushes or each of its events has unique keys of its own: neither retries nor
\* lost races for the marker nor rebalances swallow one.  A new group misses what
\* was there before its first assignment, and what came before a later one that
\* finds no offset yet, which costs a fault (consume.js:36, fromBeginning: false).
THEOREM NothingLost ==
    ASSUME Pushing \/ OwnKeysOnly
    PROVE  Spec => []NoSilentLoss
<1>1. LossInv /\ SkipInv /\ BeginsOnce => NoSilentLoss
  <2> SUFFICES ASSUME LossInv, SkipInv, BeginsOnce,
                      NEW k \in missed + 1..offset, ~Settled(k)
               PROVE  k <= begun /\ faults > 0
    BY DEF NoSilentLoss
  <2>1. skipped = {}
    <3>1. skipped \subseteq Events
      BY DEF LossInv, Shape, TypeOK
    <3> QED
      BY <3>1 DEF OwnKeysOnly, SkipInv, SkipsAreRefusals
  <2>2. /\ offset \in {-1} \cup 0..Len(Log) /\ begun \in 0..Len(Log) /\ Len(Log) \in Nat
        /\ missed \in {-1} \cup 0..Len(Log) /\ faults \in Nat
    BY LogAssumption, FaultAssumption DEF LossInv, Shape, TypeOK, NoOffset
  <2>3. k <= begun
    BY <2>1, <2>2 DEF LossInv, OffsetAccounts, Accounted
  <2>4. faults # 0
    BY <2>2, <2>3 DEF BeginsOnce
  <2> QED
    BY <2>2, <2>3, <2>4
<1>2. Spec => []BeginsOnce
  <2>1. Init => BeginsOnce
    BY DEF Init, BeginsOnce, NoOffset
  <2>2. LossInv => Shape
    BY DEF LossInv
  <2> QED
    BY <2>1, <2>2, BeginStep, LossHolds, PTL DEF Spec
<1> QED
  BY <1>1, <1>2, LossHolds, SkipHolds, PTL

-----------------------------------------------------------------------------
(* The group implements ReliableDelivery.                                  *)

\* Only the owner's commits count, and the owner is not behind them.
OwnerAhead == \A m \in Members : owner = m => offset <= pos[m]

RefInv == LossInv /\ EffectInv /\ OwnerAhead

LEMMA AheadStep == RefInv /\ [Next]_vars => OwnerAhead'
<1> SUFFICES ASSUME RefInv, [Next]_vars PROVE OwnerAhead'
  OBVIOUS
<1>1. /\ offset \in {-1} \cup 0..Len(Log) /\ {begun, end} \subseteq 0..Len(Log)
      /\ Len(Log) \in Nat /\ pos \in [Members -> 0..Len(Log)] /\ OwnerAhead
  BY Ranges DEF RefInv, LossInv
<1>2. ASSUME UNCHANGED groupVars,
             \/ UNCHANGED pos
             \/ \E m \in Members : pos' = [pos EXCEPT ![m] = @ + 1]
      PROVE  OwnerAhead'
  BY <1>1, <1>2 DEF OwnerAhead, groupVars
<1>3. CASE UNCHANGED vars \/ Produce
  BY <1>2, <1>3 DEF vars, Produce
<1>4. ASSUME NEW m \in Members, Group(m) PROVE OwnerAhead'
  <2>1. CASE Join(m) \/ Rebalance(m)
    <3>1. pos'[m] >= offset /\ offset' = offset /\ owner' = m
      BY <1>1, <2>1 DEF Join, Rebalance, Assign, NoOffset
    <3> QED
      BY <3>1 DEF OwnerAhead
  <2>2. CASE Crash(m)
    BY <1>1, <2>2, FaultAssumption DEF Crash, OwnerAhead
  <2>3. CASE CommitOffset(m)
    BY <1>1, <2>3 DEF CommitOffset, OwnerAhead
  <2> QED
    BY <1>4, <2>1, <2>2, <2>3 DEF Group
<1>5. ASSUME NEW m \in Members, EachMessage(m) PROVE OwnerAhead'
  BY <1>2, <1>5 DEF EachMessage, Attempt, Deliver, InsertMarker, HandlerWrites,
     HandlerPushes, DbError, CommitOk, CommitFails, SendToDlq, SendToDlqFails,
     AttemptFails, Transient, GoTo, Resolve
<1> QED
  BY <1>3, <1>4, <1>5 DEF Next

\* The part of the log that was produced, as a sequence.
LEMMA Produced ==
    ASSUME Shape
    PROVE  /\ Len(SubSeq(Log, 1, end)) = end
           /\ DOMAIN SubSeq(Log, 1, end) = 1..end
           /\ \A k \in 1..end : SubSeq(Log, 1, end)[k] = Log[k]
<1>1. end \in 0..Len(Log) /\ Len(Log) \in Nat /\ Log \in Seq(Events)
  BY LogAssumption DEF Shape, TypeOK
<1>2. \A k \in 1..end : Log[k] \in Events
  BY <1>1
<1> QED
  BY <1>1, <1>2, SubSeqProperties

LEMMA ProduceExtends ==
    ASSUME Shape, end < Len(Log)
    PROVE  /\ SubSeq(Log, 1, end + 1) = Append(SubSeq(Log, 1, end), Log[end + 1])
           /\ Log[end + 1] \in Events
<1>1. /\ end + 1 \in 1..Len(Log) /\ 1 \in 1..Len(Log) /\ end \in Int
      /\ Len(Log) \in Nat /\ Log \in Seq(Events)
  BY LogAssumption DEF Shape, TypeOK
<1>2. PICK n \in 1..Len(Log) : n = end + 1 /\ n - 1 = end
  BY <1>1
<1>3. SubSeq(Log, 1, n) = SubSeq(Log, 1, n - 1) \o <<Log[n]>>
  BY <1>1, SubSeqRecursiveSecond, Zenon
<1>4. SubSeq(Log, 1, end) \in Seq(Events) /\ Log[n] \in Events
  <2>1. \A k \in 1..end : Log[k] \in Events
    BY <1>1
  <2> QED
    BY <1>1, <2>1, SubSeqProperties
<1>5. SubSeq(Log, 1, n - 1) \o <<Log[n]>> = Append(SubSeq(Log, 1, end), Log[n])
  BY <1>2, <1>4, AppendIsConcat
<1> QED
  BY <1>2, <1>3, <1>4, <1>5

\* Each step of the group is a step of the abstract delivery, or a stutter.
LEMMA DeliveryStep ==
    ASSUME RefInv, [Next]_vars
    PROVE  [Delivery!Next]_(Delivery!deliveryVars)
<1>1. /\ Shape /\ end \in 0..Len(Log) /\ Len(Log) \in Nat /\ begun \in 0..Len(Log)
      /\ offset \in {-1} \cup 0..Len(Log) /\ pos \in [Members -> 0..Len(Log)] /\ SeenInLog
  BY Ranges DEF RefInv, LossInv, Shape
<1> DEFINE log == SubSeq(Log, 1, end)
           stored == {e \in Events : Stored(e)}
<1>2. Len(log) = end /\ DOMAIN log = 1..end /\ \A k \in 1..end : log[k] = Log[k]
  BY <1>1, Produced
<1>3. UNCHANGED storeVars => stored' = stored
  BY DEF storeVars, Stored
<1>4. ASSUME UNCHANGED <<end, storeVars, skipped, dlq, offset, begun>>
      PROVE  UNCHANGED Delivery!deliveryVars
  BY <1>3, <1>4 DEF Delivery!deliveryVars
<1>5. CASE UNCHANGED vars
  BY <1>4, <1>5 DEF vars, groupVars, historyVars
<1>6. CASE Produce
  <2>1. log' = Append(log, Log[end + 1]) /\ Log[end + 1] \in Events
    BY <1>1, <1>6, ProduceExtends DEF Produce
  <2>2. stored' = stored /\ UNCHANGED <<skipped, dlq, offset, begun>>
    BY <1>3, <1>6 DEF Produce, groupVars, historyVars
  <2>3. Delivery!Receive(Log[end + 1])
    BY <2>1, <2>2 DEF Delivery!Receive
  <2> QED
    BY <2>1, <2>3 DEF Delivery!Next
<1>7. ASSUME NEW m \in Members, Group(m)
      PROVE  [Delivery!Next]_(Delivery!deliveryVars)
  <2>0. UNCHANGED <<end, storeVars, skipped, dlq>> /\ stored' = stored
    BY <1>3, <1>7 DEF Group, Join, Rebalance, Assign, Crash, CommitOffset, historyVars
  <2>1. CASE Join(m) \/ Rebalance(m)
    <3>1. Assign(m)
      BY <2>1 DEF Join, Rebalance
    <3>2. CASE offset = NoOffset
      <4>1. Delivery!StartAtEnd
        BY <1>2, <2>0, <3>1, <3>2 DEF Assign, Delivery!StartAtEnd, Delivery!NoOffset, NoOffset
      <4> QED
        BY <4>1 DEF Delivery!Next
    <3>3. CASE offset # NoOffset
      BY <1>4, <2>0, <3>1, <3>3 DEF Assign
    <3> QED
      BY <3>2, <3>3
  <2>2. CASE Crash(m)
    BY <1>4, <2>0, <2>2 DEF Crash
  <2>3. CASE CommitOffset(m)
    <3>1. offset' = pos[m] /\ offset <= pos[m] /\ pos[m] <= end /\ begun' = begun
      BY <1>1, <2>3 DEF CommitOffset, RefInv, OwnerAhead, SeenInLog
    <3>2. \A k \in begun + 1..offset' : Accounted(k)
      BY <3>1 DEF RefInv, LossInv, MembersAccount
    <3>3. \A k \in begun + 1..offset' : Delivery!Settled(k)
      <4> SUFFICES ASSUME NEW k \in begun + 1..offset' PROVE Delivery!Settled(k)
        OBVIOUS
      <4>1. k \in 1..end /\ k \in 1..Len(Log) /\ log[k] = Log[k] /\ Accounted(k)
        BY <1>1, <1>2, <3>1, <3>2
      <4>2. Log[k] \in Events
        BY <4>1, LogAssumption
      <4> QED
        BY <4>1, <4>2 DEF Accounted, Settled, Delivery!Settled
    <3>4. CASE offset' = offset
      BY <1>4, <2>0, <3>1, <3>4
    <3>5. CASE offset' # offset
      <4>1. offset' \in offset + 1..Len(log)
        BY <1>1, <1>2, <3>1, <3>5
      <4>2. Delivery!Advance
        BY <2>0, <3>1, <3>3, <4>1 DEF Delivery!Advance
      <4> QED
        BY <4>2 DEF Delivery!Next
    <3> QED
      BY <3>4, <3>5
  <2> QED
    BY <1>7, <2>1, <2>2, <2>3 DEF Group
<1>8. ASSUME NEW m \in Members, EachMessage(m)
      PROVE  [Delivery!Next]_(Delivery!deliveryVars)
  <2>1. UNCHANGED <<end, offset, begun>>
    BY <1>8 DEF EachMessage, Attempt, Deliver, InsertMarker, HandlerWrites, HandlerPushes,
       DbError, CommitOk, CommitFails, SendToDlq, SendToDlqFails, groupVars
  <2>2. ASSUME job[m] # Idle
        PROVE  /\ At(m) \in DOMAIN log /\ log[At(m)] = Event(m) /\ Event(m) \in Events
    BY <1>1, <1>2, <2>2, BusyEvent DEF At, Event, Shape, BusyInLog
  <2>3. ASSUME HoldsMarker(m), Store(m), UNCHANGED <<skipped, dlq>>
        PROVE  [Delivery!Next]_(Delivery!deliveryVars)
    <3>0. job[m] # Idle
      BY <2>3 DEF HoldsMarker, Idle
    <3>1. PICK k \in DOMAIN log : k = At(m) /\ log[k] = Event(m) /\ Event(m) \in Events
      BY <2>2, <3>0, Zenon
    <3>2. PICK e \in Events : e = Event(m)
      BY <3>1
    <3>3. e \notin marked /\ writes \in [Events -> Nat]
      BY <2>3, <3>2 DEF RefInv, EffectInv, HeldIsUnmarked, Shape, TypeOK
    <3>4. ~Stored(e)
      BY <3>3 DEF RefInv, EffectInv, EffectOnce, Stored
    <3>5. stored' = stored \cup {e}
      <4>1. Stored(e)'
        BY <1>1, <2>3, <3>2, StoreSettles
      <4>2. \A d \in Events \ {e} : Stored(d)' <=> Stored(d)
        BY <2>3, <3>2, <3>3 DEF Store, Stored
      <4> QED
        BY <4>1, <4>2
    <3>6. Delivery!Store(k)
      BY <2>1, <2>3, <3>1, <3>2, <3>4, <3>5 DEF Delivery!Store
    <3> QED
      BY <3>6 DEF Delivery!Next, Delivery!Handle
  <2>4. ASSUME job[m].pc = "dlq", UNCHANGED <<storeVars, skipped>>, dlq' \in {dlq, dlq \cup {At(m)}}
        PROVE  [Delivery!Next]_(Delivery!deliveryVars)
    <3>1. CASE dlq' = dlq
      BY <1>4, <2>1, <2>4, <3>1
    <3>2. CASE dlq' = dlq \cup {At(m)}
      <4>1. PICK k \in DOMAIN log : k = At(m)
        BY <2>2, <2>4 DEF Idle
      <4>2. Delivery!Park(k)
        BY <1>3, <2>1, <2>4, <3>2, <4>1 DEF Delivery!Park
      <4> QED
        BY <4>2 DEF Delivery!Next, Delivery!Handle
    <3> QED
      BY <2>4, <3>1, <3>2
  <2>5. CASE Deliver(m) \/ InsertMarker(m) \/ HandlerPushes(m) \/ DbError(m)
    BY <1>4, <2>1, <2>5 DEF Deliver, InsertMarker, HandlerPushes, DbError, storeVars, historyVars
  <2>6. CASE CommitOk(m)
    BY <2>3, <2>6 DEF CommitOk, HoldsMarker, historyVars
  <2>7. CASE CommitFails(m)
    <3>1. HoldsMarker(m) /\ UNCHANGED <<skipped, dlq>> /\ (Store(m) \/ UNCHANGED storeVars)
      BY <2>7 DEF CommitFails, HoldsMarker, historyVars
    <3> QED
      BY <1>4, <2>1, <2>3, <3>1
  <2>8. CASE SendToDlq(m) \/ SendToDlqFails(m)
    BY <2>4, <2>8 DEF SendToDlq, SendToDlqFails, historyVars
  \* A skipped event is refused: its marker was never committed.
  <2>9. CASE HandlerWrites(m)
    <3>1. HoldsMarker(m) /\ job[m] # Idle /\ UNCHANGED <<storeVars, dlq>> /\ ~Pushing
      BY <2>9 DEF HandlerWrites, HoldsMarker, Idle
    <3>2. CASE UNCHANGED skipped
      BY <1>4, <2>1, <3>1, <3>2
    <3>3. CASE skipped' = skipped \cup {Event(m)}
      <4>1. PICK k \in DOMAIN log : k = At(m) /\ log[k] = Event(m) /\ Event(m) \in Events
        BY <2>2, <3>1, Zenon
      <4>2. PICK e \in Events : e = Event(m)
        BY <4>1
      <4>3. ~Stored(e)
        BY <3>1, <4>2 DEF RefInv, EffectInv, HeldIsUnmarked, EffectOnce, Stored, Shape, TypeOK
      <4>4. Delivery!Refuse(k)
        BY <1>3, <2>1, <3>1, <3>3, <4>1, <4>2, <4>3 DEF Delivery!Refuse
      <4> QED
        BY <4>4 DEF Delivery!Next, Delivery!Handle
    <3> QED
      BY <2>9, <3>2, <3>3 DEF HandlerWrites
  <2> QED
    BY <1>8, <2>5, <2>6, <2>7, <2>8, <2>9 DEF EachMessage, Attempt
<1> QED
  BY <1>5, <1>6, <1>7, <1>8 DEF Next

\* The loop of consume.js with withIdempotency() implements the abstract
\* delivery: an effect at most once, an offset that only moves forward and
\* only past messages that are stored, refused for another event's document,
\* parked or off the schema (the safety part of ImplementsDelivery).  No
\* hypothesis on keys is needed: a skipped event is a refused one.
THEOREM DeliveryRefined == Spec => Delivery!Safety
<1>1. Init => RefInv
  <2>1. Init => LossInv
    BY InitShape DEF Init, OffsetAccounts, MembersAccount, MarkedIsStored, NoOffset, LossInv
  <2>2. Init => EffectInv
    BY InitEffect
  <2>3. Init => OwnerAhead
    BY FaultAssumption DEF Init, OwnerAhead
  <2> QED
    BY <2>1, <2>2, <2>3 DEF RefInv
<1>2. Init => Delivery!Init
  <2> SUFFICES ASSUME Init PROVE Delivery!Init
    OBVIOUS
  <2>1. SubSeq(Log, 1, end) = << >>
    BY SubSeqEmpty DEF Init
  <2>2. {e \in Events : Stored(e)} = {}
    BY DEF Init, Stored
  <2> QED
    BY <2>1, <2>2 DEF Init, Delivery!Init, NoOffset, Delivery!NoOffset
<1>3. RefInv /\ [Next]_vars => RefInv'
  BY LossStep, EffectStep, AheadStep DEF RefInv
<1>4. RefInv /\ [Next]_vars => [Delivery!Next]_(Delivery!deliveryVars)
  BY DeliveryStep
<1> QED
  BY <1>1, <1>2, <1>3, <1>4, PTL DEF Spec, Delivery!Safety
=============================================================================
