------------------------- MODULE IdempotentConsumer -------------------------
(***************************************************************************)
(* The consumer side of the event bus: one partition of a topic read by a  *)
(* consumer group, the retry/DLQ loop of libs/event-bus/src/consume.js,    *)
(* and withIdempotency() (idempotency.js), which runs the handler of the   *)
(* service in the MongoDB transaction that inserts the event's marker.     *)
(*                                                                         *)
(* Every await of that loop is a step: the marker's insert, the handler's  *)
(* write or push, the commit, the DLQ send.  A member that lost the        *)
(* partition in a rebalance goes on with its message beside the new owner. *)
(*                                                                         *)
(* Abstractions: the handler claims the unique keys KeysOf[e] of its       *)
(* document (none for a push consumer); a key that another member commits  *)
(* while the transaction is open is met as E11000 at once, without the     *)
(* write conflict that may come first and whose retry ends the same way;   *)
(* the transaction of a crashed member is aborted at once; backoff is not  *)
(* timed; MaxFaults bounds crashes, rebalances and errors, all together.   *)
(***************************************************************************)
EXTENDS Integers, Sequences, FiniteSets

CONSTANTS Members,       \* processes of the consumer group
          Events, Log,   \* what the producers append to the partition, in order
          Malformed,     \* events whose value is not JSON
          Unexpected,    \* events that fail the zod schema of the consumer
          Poison,        \* events whose handler always throws (bad city, ...)
          KeysOf,        \* unique index keys the handler's document claims
          Pushing,       \* the handler calls the push provider
          MaxAttempts,   \* runConsumer()'s attempts per message (3)
          TxnAttempts,   \* withIdempotency()'s MAX_ATTEMPTS (3)
          Nobody,        \* no member owns the partition
          MaxFaults      \* bound on crashes, rebalances and errors

ASSUME LogAssumption == Log \in Seq(Events)
ASSUME AttemptsAssumption == {MaxAttempts, TxnAttempts} \subseteq Nat \ {0}
ASSUME SwitchAssumption == Pushing \in BOOLEAN
ASSUME FaultAssumption == MaxFaults \in Nat /\ Nobody \notin Members

VARIABLES
    end,        \* messages appended so far: Log[1..end]
    offset,     \* the group's committed offset, or NoOffset
    missed,     \* messages before the first assignment of a group without one
    begun,      \* messages before the last assignment of a group without one
    owner,      \* the member the partition is assigned to
    pos,        \* pos[m]: messages before m's current one
    resolved,   \* resolved[m]: m has processed messages it did not commit
    job,        \* job[m]: what m does with message pos[m] + 1
    marked,     \* processed_events: events with a committed marker
    writes,     \* writes[e]: committed documents of the handler for e
    pushes,     \* pushes[e]: calls of sendPush() for e
    delivered,  \* events one of whose pushes succeeded
    skipped,    \* events whose document met a key of another one
    dlq,        \* positions copied to <topic>.dlq
    faults      \* faults so far

groupVars == <<offset, missed, begun, owner>>
storeVars == <<marked, writes>>
historyVars == <<pushes, delivered, skipped>>
vars == <<end, groupVars, pos, resolved, job, storeVars, historyVars, dlq, faults>>

-----------------------------------------------------------------------------
NoOffset == -1
Idle == [pc |-> "idle", try |-> 0, txn |-> 0]
Jobs == [pc : {"idle", "begin", "work", "commit", "dlq"},
         try : 0..MaxAttempts, txn : 0..TxnAttempts]

TypeOK ==
    /\ end \in 0..Len(Log)
    /\ offset \in {NoOffset} \cup 0..Len(Log)
    /\ missed \in {NoOffset} \cup 0..Len(Log)
    /\ begun \in 0..Len(Log)
    /\ owner \in Members \cup {Nobody}
    /\ pos \in [Members -> 0..Len(Log)]
    /\ resolved \in [Members -> BOOLEAN]
    /\ job \in [Members -> Jobs]
    /\ marked \subseteq Events
    /\ writes \in [Events -> Nat]
    /\ pushes \in [Events -> Nat]
    /\ delivered \subseteq Events
    /\ skipped \subseteq Events
    /\ dlq \subseteq 1..Len(Log)
    /\ faults \in 0..MaxFaults

Init ==
    /\ end = 0
    /\ offset \in {NoOffset, 0} /\ missed = offset /\ begun = 0
    /\ owner = Nobody
    /\ pos = [m \in Members |-> 0]
    /\ resolved = [m \in Members |-> FALSE]
    /\ job = [m \in Members |-> Idle]
    /\ marked = {} /\ writes = [e \in Events |-> 0]
    /\ pushes = [e \in Events |-> 0] /\ delivered = {} /\ skipped = {}
    /\ dlq = {} /\ faults = 0

Fault == faults < MaxFaults /\ faults' = faults + 1

At(m) == pos[m] + 1
Event(m) == Log[At(m)]

\* Members with an open transaction that holds the marker of their event,
\* and those that hold the keys of their document too.
HoldsMarker(m) == job[m].pc \in {"work", "commit"}
HoldsKeys(m) == job[m].pc = "commit"

ClaimedKeys == UNION {KeysOf[e] : e \in {d \in Events : writes[d] > 0}}

-----------------------------------------------------------------------------
(* The group.                                                              *)

Produce ==
    /\ end < Len(Log)
    /\ end' = end + 1
    /\ UNCHANGED <<groupVars, pos, resolved, job, storeVars, historyVars, dlq, faults>>

\* subscribe({fromBeginning: false}): without a committed offset the member
\* starts at the end of the log, at each assignment until the first commit.
Assign(m) ==
    /\ job[m] = Idle
    /\ owner' = m
    /\ pos' = [pos EXCEPT ![m] = IF offset = NoOffset THEN end ELSE offset]
    /\ begun' = IF offset = NoOffset THEN end ELSE begun
    /\ missed' = IF missed = NoOffset THEN end ELSE missed
    /\ resolved' = [resolved EXCEPT ![m] = FALSE]
    /\ UNCHANGED <<end, offset, job, storeVars, historyVars, dlq>>

Join(m) == owner = Nobody /\ Assign(m) /\ UNCHANGED faults

\* A rebalance: the old owner may be in the middle of a message.
Rebalance(m) == owner \notin {Nobody, m} /\ Fault /\ Assign(m)

Crash(m) ==
    /\ Fault
    /\ owner = m \/ job[m] # Idle
    /\ owner' = IF owner = m THEN Nobody ELSE owner
    /\ job' = [job EXCEPT ![m] = Idle]
    /\ resolved' = [resolved EXCEPT ![m] = FALSE]
    /\ UNCHANGED <<end, offset, missed, begun, pos, storeVars, historyVars, dlq>>

\* kafkajs commits the resolved offsets now and then; only the owner's count.
CommitOffset(m) ==
    /\ owner = m /\ resolved[m]
    /\ offset' = pos[m]
    /\ resolved' = [resolved EXCEPT ![m] = FALSE]
    /\ UNCHANGED <<end, missed, begun, owner, pos, job, storeVars, historyVars, dlq, faults>>

-----------------------------------------------------------------------------
(* One message: eachMessage() of runConsumer().                            *)

\* eachMessage() returned: the message is resolved and the next one is due.
Resolve(m) ==
    /\ job' = [job EXCEPT ![m] = Idle]
    /\ pos' = [pos EXCEPT ![m] = @ + 1]
    /\ resolved' = [resolved EXCEPT ![m] = TRUE]

GoTo(m, pc) ==
    /\ job' = [job EXCEPT ![m].pc = pc]
    /\ UNCHANGED <<pos, resolved>>

\* Mutants: one attempt too many, a message given up with a log line only,
\* and a message left to kafkajs, which delivers it again.
NextTry(m) == [pc |-> "begin", try |-> job[m].try + 1, txn |-> 1]
AttemptFailsLate(m) ==
    /\ job' = [job EXCEPT ![m] = IF @.try <= MaxAttempts THEN NextTry(m)
                                 ELSE [@ EXCEPT !.pc = "dlq"]]
    /\ UNCHANGED <<pos, resolved>>
AttemptFailsLogged(m) ==
    IF job[m].try < MaxAttempts
    THEN job' = [job EXCEPT ![m] = NextTry(m)] /\ UNCHANGED <<pos, resolved>>
    ELSE Resolve(m)
AttemptFailsRedelivered(m) ==
    /\ job' = [job EXCEPT ![m] = IF @.try < MaxAttempts THEN NextTry(m) ELSE Idle]
    /\ UNCHANGED <<pos, resolved>>

\* The attempt threw: the next one starts, or the message goes to the DLQ.
AttemptFails(m) ==
    /\ job' = [job EXCEPT ![m] =
                 IF @.try < MaxAttempts
                 THEN [pc |-> "begin", try |-> @.try + 1, txn |-> 1]
                 ELSE [@ EXCEPT !.pc = "dlq"]]
    /\ UNCHANGED <<pos, resolved>>

\* An error labelled transient: the transaction is tried again, or thrown.
Transient(m) ==
    IF job[m].txn < TxnAttempts
    THEN /\ job' = [job EXCEPT ![m].pc = "begin", ![m].txn = @ + 1]
         /\ UNCHANGED <<pos, resolved>>
    ELSE AttemptFails(m)

\* The owner gets its next message: parsed, validated, and handed on.
Deliver(m) ==
    /\ owner = m /\ job[m] = Idle /\ pos[m] < end
    /\ \/ /\ Event(m) \in Malformed
          /\ job' = [job EXCEPT ![m] = [pc |-> "dlq", try |-> 0, txn |-> 0]]
          /\ UNCHANGED <<pos, resolved>>
       \/ Event(m) \in Unexpected \ Malformed /\ Resolve(m)
       \/ /\ Event(m) \notin Malformed \cup Unexpected
          /\ job' = [job EXCEPT ![m] = [pc |-> "begin", try |-> 1, txn |-> 1]]
          /\ UNCHANGED <<pos, resolved>>
    /\ UNCHANGED <<end, groupVars, storeVars, historyVars, dlq, faults>>

\* Mutant: the marker is inserted first and outside of the transaction (the
\* earlier version that the header of idempotency.js tells of).
InsertMarkerFirst(m) ==
    /\ job[m].pc = "begin"
    /\ IF Event(m) \in marked THEN Resolve(m) ELSE GoTo(m, "work")
    /\ marked' = marked \cup {Event(m)}
    /\ UNCHANGED <<end, groupVars, writes, historyVars, dlq, faults>>

\* Mutant: the E11000 of a duplicate is thrown on, as if it had failed.
InsertMarkerThrows(m) ==
    /\ job[m].pc = "begin"
    /\ IF Event(m) \in marked THEN AttemptFails(m) ELSE GoTo(m, "work")
    /\ UNCHANGED <<end, groupVars, storeVars, historyVars, dlq, faults>>

\* Mutant: the unique index is not there yet (no init() before create()).
InsertMarkerUnindexed(m) ==
    /\ job[m].pc = "begin"
    /\ GoTo(m, "work")
    /\ UNCHANGED <<end, groupVars, storeVars, historyVars, dlq, faults>>

\* ProcessedEvent.create(): E11000 if the marker is committed, a write
\* conflict (transient) if another open transaction has inserted it.
InsertMarker(m) ==
    /\ job[m].pc = "begin"
    /\ IF Event(m) \in marked THEN Resolve(m)
       ELSE IF \E n \in Members \ {m} : HoldsMarker(n) /\ Event(n) = Event(m)
       THEN Transient(m)
       ELSE GoTo(m, "work")
    /\ UNCHANGED <<end, groupVars, storeVars, historyVars, dlq, faults>>

\* handler(session) of a consumer that writes a document.  E11000 on any
\* unique key counts as "already processed": {skipped: true}.
HandlerWrites(m) ==
    /\ job[m].pc = "work" /\ ~Pushing
    /\ IF Event(m) \notin Poison /\ KeysOf[Event(m)] \cap ClaimedKeys # {}
       THEN Resolve(m) /\ skipped' = skipped \cup {Event(m)}
       ELSE /\ UNCHANGED skipped
            /\ IF Event(m) \in Poison THEN AttemptFails(m)
               ELSE IF \E n \in Members \ {m} :
                         HoldsKeys(n) /\ KeysOf[Event(n)] \cap KeysOf[Event(m)] # {}
               THEN Transient(m)
               ELSE GoTo(m, "commit")
    /\ UNCHANGED <<end, groupVars, storeVars, pushes, delivered, dlq, faults>>

\* handler() of a consumer that pushes: sendPush() never throws, and its
\* {success: false} is not looked at.
HandlerPushes(m) ==
    /\ job[m].pc = "work" /\ Pushing
    /\ pushes' = [pushes EXCEPT ![Event(m)] = @ + 1]
    /\ \/ delivered' = delivered \cup {Event(m)} /\ UNCHANGED faults
       \/ UNCHANGED delivered /\ Fault
    /\ GoTo(m, "commit")
    /\ UNCHANGED <<end, groupVars, storeVars, skipped, dlq>>

\* A read or write of the attempt fails, with the transient label or without.
DbError(m) ==
    /\ Fault
    /\ job[m].pc \in {"begin", "work"}
    /\ AttemptFails(m) \/ Transient(m)
    /\ UNCHANGED <<end, groupVars, storeVars, historyVars, dlq>>

\* The marker and the handler's document become durable together.
Store(m) ==
    /\ marked' = marked \cup {Event(m)}
    /\ writes' = IF Pushing THEN writes
                 ELSE [writes EXCEPT ![Event(m)] = @ + 1]

CommitOk(m) ==
    /\ job[m].pc = "commit"
    /\ Store(m) /\ Resolve(m)
    /\ UNCHANGED <<end, groupVars, historyVars, dlq, faults>>

\* commitTransaction() throws: rolled back (transient), or nobody knows.
CommitFails(m) ==
    /\ Fault
    /\ job[m].pc = "commit"
    /\ \/ Transient(m) /\ UNCHANGED storeVars
       \/ AttemptFails(m) /\ (Store(m) \/ UNCHANGED storeVars)
    /\ UNCHANGED <<end, groupVars, historyVars, dlq>>

SendToDlq(m) ==
    /\ job[m].pc = "dlq"
    /\ dlq' = dlq \cup {At(m)}
    /\ Resolve(m)
    /\ UNCHANGED <<end, groupVars, storeVars, historyVars, faults>>

\* The DLQ send throws out of eachMessage(): kafkajs delivers again.
SendToDlqFails(m) ==
    /\ Fault
    /\ job[m].pc = "dlq"
    /\ dlq' \in {dlq, dlq \cup {At(m)}}
    /\ job' = [job EXCEPT ![m] = Idle]
    /\ UNCHANGED <<end, groupVars, pos, resolved, storeVars, historyVars>>

-----------------------------------------------------------------------------
Group(m) == Join(m) \/ Rebalance(m) \/ Crash(m) \/ CommitOffset(m)

Attempt(m) == \/ InsertMarker(m) \/ HandlerWrites(m) \/ HandlerPushes(m)
              \/ DbError(m) \/ CommitOk(m) \/ CommitFails(m)

EachMessage(m) == Deliver(m) \/ Attempt(m) \/ SendToDlq(m) \/ SendToDlqFails(m)

Next == Produce \/ \E m \in Members : Group(m) \/ EachMessage(m)

\* Group membership is repaired, and a member's awaits are answered.
Fairness == \A m \in Members : WF_vars(Join(m)) /\ WF_vars(EachMessage(m))

Spec == Init /\ [][Next]_vars
FairSpec == Spec /\ Fairness

-----------------------------------------------------------------------------
(* Properties.                                                             *)

\* What may become of a message: the handler's document for its event (or
\* the marker, for a push) is stored, or the message was parked in the DLQ,
\* or it failed the schema and is dropped.
Stored(e) == IF Pushing THEN e \in marked ELSE writes[e] > 0
Settled(k) ==
    \/ Stored(Log[k])
    \/ k \in dlq
    \/ Log[k] \in Unexpected \ Malformed

\* The group never moves past a message that left no trace: neither retries,
\* nor a lost race for the marker, nor a crash swallows an event
\* (idempotency.js:56, "a duplicate eventId" is the only reason to skip).
\* A new group misses what was there before its first assignment; more than
\* that only by a fault: if it loses its member before its first commit, it
\* begins again at the end, past what came since (consume.js:36).
NoSilentLoss ==
    \A k \in missed + 1..offset : Settled(k) \/ (k <= begun /\ faults > 0)

\* The handler's document exists exactly when the marker does, and once:
\* redelivery, overlapping owners, unknown commits never split or repeat it.
EffectOnce ==
    \A e \in Events :
        /\ writes[e] <= 1
        /\ ~Pushing => (e \in marked <=> writes[e] = 1)

\* A driver gets a second push, or an event that counts as processed none
\* that arrived, only if something failed: each is paid for by a crash, a
\* rebalance or an error (idempotency.js:59-65).
PushRepeatsNeedFaults ==
    \A e \in Events :
        pushes[e] + Cardinality({e} \cap (marked \ delivered)) <= 1 + faults

\* A message that could have been handled is parked only if something failed:
\* a redelivery or a lost race for the marker alone costs no event its place
\* (src/docs/event-catalog.md:16-20, the DLQ is for what keeps failing).
ParkingNeedsFaults ==
    Cardinality({Log[k] : k \in dlq} \ (Malformed \cup Poison)) <= faults

\* An event is skipped without a marker only for a key that the document of
\* another event holds, and then its own document never comes: it cannot be
\* both skipped and stored, whoever handles it at the same time
\* (idempotency.js:114-116).
SkipsAreRefusals ==
    \A e \in skipped :
        /\ writes[e] = 0
        /\ \E d \in Events \ {e} : writes[d] > 0 /\ KeysOf[d] \cap KeysOf[e] # {}

\* The group implements the abstract delivery, in which a skipped event is a
\* refused one: in the end every message is settled, a poison one does not
\* block the partition
\* (src/docs/event-catalog.md:12, 16-20).
Delivery == INSTANCE ReliableDelivery WITH
    Dropped <- Unexpected \ Malformed,
    Positions <- 1..Len(Log),
    log <- SubSeq(Log, 1, end),
    stored <- {e \in Events : Stored(e)},
    refused <- skipped,
    parked <- dlq

ImplementsDelivery == Delivery!Spec
=============================================================================
