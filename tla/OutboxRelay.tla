---------------------------- MODULE OutboxRelay ----------------------------
(***************************************************************************)
(* The producer side of the event bus: the outbox collection that a        *)
(* service writes in its domain transactions (libs/event-bus/src/outbox.js)*)
(* and the relay that publishes its rows to Kafka (outboxRelay.js), in     *)
(* every running instance of the service.                                  *)
(*                                                                         *)
(* A relay has two sources of work that nothing serialises: an async       *)
(* change-stream handler per inserted row, and a periodic sweep over the   *)
(* rows still pending.  Both are workers here.  An await is a point where  *)
(* other workers run, so publishPending() is two steps: the broker accepts *)
(* the message, then the row is saved as sent.                             *)
(*                                                                         *)
(* Abstractions: a row stands for its event; the topic has one partition,  *)
(* so its log is the order consumers see; a sweep slot stands for one run  *)
(* of the timer callback that has not ended (Sweeps bounds how many        *)
(* overlap); find() has no sort, so the order of the array that a sweep    *)
(* walks is any, and its next row is chosen when it is published;          *)
(* MaxFaults bounds crashes, signals and errors, all together.             *)
(***************************************************************************)
EXTENDS Naturals, Sequences, SequencesExt, FiniteSets, FiniteSetsExt

CONSTANTS Instances,     \* processes of the service (one in docker-compose)
          Rows,          \* rows the domain transactions may insert
          Sweeps,        \* slots for sweeps in progress in one process
          Keys, KeyOf,   \* the partition key of each row
          SweepLimit,    \* rows one sweep reads (50 in the code)
          MaxFaults      \* bound on crashes, signals and errors

ASSUME RowsAssumption == IsFiniteSet(Rows) /\ Rows \cap Sweeps = {}
ASSUME FiniteAssumption == IsFiniteSet(Instances) /\ IsFiniteSet(Sweeps)
ASSUME KeyAssumption == KeyOf \in [Rows -> Keys]
ASSUME LimitAssumption == SweepLimit \in Nat \ {0} /\ MaxFaults \in Nat

VARIABLES
    outbox,      \* the collection, in commit order
    sent,        \* rows whose status is "sent"; the others are "pending"
    topic,       \* the Kafka log
    proc,        \* proc[i]: where instance i is in its life
    stream,      \* stream[i]: its change stream
    notified,    \* notified[i]: inserts whose change event awaits findById
    todo,        \* todo[w]: rows that worker w still has to publish and save
    inSave,      \* inSave[w]: the row w has published and not yet saved
    faults       \* faults so far

vars == <<outbox, sent, topic, proc, stream, notified, todo, inSave, faults>>

-----------------------------------------------------------------------------
\* A worker is the change handler of one row, or one sweep, of one instance.
Workers == Instances \X (Rows \cup Sweeps)
WorkersOf(i) == {w \in Workers : w[1] = i}

Pending == ToSet(outbox) \ sent

\* Processes and their stages: serving, shutting down with the relay stopped
\* but requests still served, and with the producer disconnected.
Stages == {"down", "running", "stopping", "unplugged"}

TypeOK ==
    /\ outbox \in Seq(Rows)
    /\ sent \subseteq Rows
    /\ topic \in Seq(Rows)
    /\ proc \in [Instances -> Stages]
    /\ stream \in [Instances -> {"closed", "opening", "open"}]
    /\ notified \in [Instances -> SUBSET Rows]
    /\ todo \in [Workers -> SUBSET Rows]
    /\ inSave \in [Workers -> SUBSET Rows]
    /\ faults \in 0..MaxFaults

Init ==
    /\ outbox = << >> /\ sent = {} /\ topic = << >>
    /\ proc = [i \in Instances |-> "down"]
    /\ stream = [i \in Instances |-> "closed"]
    /\ notified = [i \in Instances |-> {}]
    /\ todo = [w \in Workers |-> {}]
    /\ inSave = [w \in Workers |-> {}]
    /\ faults = 0

Fault == faults < MaxFaults /\ faults' = faults + 1

-----------------------------------------------------------------------------
(* The process: boot, the domain transactions it serves, and its end.      *)

\* main(): datastore and producer connected, then startOutboxRelay().
Boot(i) ==
    /\ proc[i] = "down"
    /\ proc' = [proc EXCEPT ![i] = "running"]
    /\ stream' = [stream EXCEPT ![i] = "opening"]
    /\ UNCHANGED <<outbox, sent, topic, notified, todo, inSave, faults>>

\* The server starts the cursor: inserts committed from now on are delivered.
StreamOpens(i) ==
    /\ proc[i] = "running" /\ stream[i] = "opening"
    /\ stream' = [stream EXCEPT ![i] = "open"]
    /\ UNCHANGED <<outbox, sent, topic, proc, notified, todo, inSave, faults>>

\* Mutant: the row is inserted outside the transaction, which then aborts.
CommitRolledBack(i, r) ==
    /\ proc[i] \in {"running", "stopping"}
    /\ r \notin ToSet(outbox)
    /\ notified' = [j \in Instances |->
                      notified[j] \cup IF stream[j] = "open" THEN {r} ELSE {}]
    /\ UNCHANGED <<outbox, sent, topic, proc, stream, todo, inSave, faults>>

\* A domain transaction commits its outbox row (withTransaction()).  Every
\* open change stream, of whatever instance, is told of the insert.
Commit(i, r) ==
    /\ proc[i] \in {"running", "stopping"}
    /\ r \notin ToSet(outbox)
    /\ outbox' = Append(outbox, r)
    /\ notified' = [j \in Instances |->
                      notified[j] \cup IF stream[j] = "open" THEN {r} ELSE {}]
    /\ UNCHANGED <<sent, topic, proc, stream, todo, inSave, faults>>

\* The stream fails for good: its "error" listener only logs.
StreamError(i) ==
    /\ Fault
    /\ stream[i] # "closed"
    /\ stream' = [stream EXCEPT ![i] = "closed"]
    /\ notified' = [notified EXCEPT ![i] = {}]
    /\ UNCHANGED <<outbox, sent, topic, proc, todo, inSave>>

\* SIGTERM: stopOutboxRelay() ends the timer and the stream.  It does not
\* wait for the workers, which keep running until the process exits.
Stop(i) ==
    /\ Fault
    /\ proc[i] = "running"
    /\ proc' = [proc EXCEPT ![i] = "stopping"]
    /\ stream' = [stream EXCEPT ![i] = "closed"]
    /\ notified' = [notified EXCEPT ![i] = {}]
    /\ UNCHANGED <<outbox, sent, topic, todo, inSave>>

\* server.close() is over and producer.disconnect() done: sends now fail.
Unplug(i) ==
    /\ proc[i] = "stopping"
    /\ proc' = [proc EXCEPT ![i] = "unplugged"]
    /\ UNCHANGED <<outbox, sent, topic, stream, notified, todo, inSave, faults>>

Dies(i) ==
    /\ proc' = [proc EXCEPT ![i] = "down"]
    /\ stream' = [stream EXCEPT ![i] = "closed"]
    /\ notified' = [notified EXCEPT ![i] = {}]
    /\ todo' = [w \in Workers |-> IF w[1] = i THEN {} ELSE todo[w]]
    /\ inSave' = [w \in Workers |-> IF w[1] = i THEN {} ELSE inSave[w]]
    /\ UNCHANGED <<outbox, sent, topic>>

\* connection.close() and process.exit(0), whatever the workers are doing.
Exit(i) == proc[i] = "unplugged" /\ Dies(i) /\ UNCHANGED faults

Crash(i) == proc[i] # "down" /\ Fault /\ Dies(i)

-----------------------------------------------------------------------------
(* The workers.                                                            *)

\* A change event is handled: findById, and the status is checked once.
HandleChange(i, r) ==
    /\ r \in notified[i]
    /\ notified' = [notified EXCEPT ![i] = @ \ {r}]
    /\ todo' = [todo EXCEPT ![<<i, r>>] = IF r \in sent THEN {} ELSE {r}]
    /\ UNCHANGED <<outbox, sent, topic, proc, stream, inSave, faults>>

\* findById throws: logged, and the event is gone.
HandleChangeFails(i, r) ==
    /\ Fault
    /\ r \in notified[i]
    /\ notified' = [notified EXCEPT ![i] = @ \ {r}]
    /\ UNCHANGED <<outbox, sent, topic, proc, stream, todo, inSave>>

\* What find({status: "pending"}).limit(50) may return: it has no sort.
Batches == kSubset(Min({SweepLimit, Cardinality(Pending)}), Pending)

\* Mutant: the sweep's query loses its status filter.
StartSweepUnfiltered(i, s) ==
    /\ proc[i] = "running"
    /\ todo[<<i, s>>] = {}
    /\ todo' = [todo EXCEPT ![<<i, s>>] = ToSet(outbox)]
    /\ UNCHANGED <<outbox, sent, topic, proc, stream, notified, inSave, faults>>

\* Mutant: the timer is gone, only the sweep at boot is left.
StartSweepAtBoot(i, s) ==
    /\ stream[i] = "opening"
    /\ todo[<<i, s>>] = {}
    /\ Pending # {}
    /\ \E batch \in Batches : todo' = [todo EXCEPT ![<<i, s>>] = batch]
    /\ UNCHANGED <<outbox, sent, topic, proc, stream, notified, inSave, faults>>

\* The timer (or the call at boot) starts a sweep in a free slot.  A sweep
\* that finds nothing changes nothing and is left out.
StartSweep(i, s) ==
    /\ proc[i] = "running"
    /\ todo[<<i, s>>] = {}
    /\ Pending # {}
    /\ \E batch \in Batches : todo' = [todo EXCEPT ![<<i, s>>] = batch]
    /\ UNCHANGED <<outbox, sent, topic, proc, stream, notified, inSave, faults>>

\* Mutant: the batch is sent as one message.
PublishBatch(w) ==
    /\ proc[w[1]] # "unplugged"
    /\ inSave[w] = {}
    /\ todo[w] # {}
    /\ topic' = Append(topic, todo[w])
    /\ inSave' = [inSave EXCEPT ![w] = todo[w]]
    /\ UNCHANGED <<outbox, sent, proc, stream, notified, todo, faults>>

\* The worker's await of producer.send() resolves: the broker has the event.
\* A sweep's r is the next of its array, whose order no query fixes.
PublishOk(w) ==
    /\ proc[w[1]] # "unplugged"
    /\ inSave[w] = {}
    /\ \E r \in todo[w] : /\ topic' = Append(topic, r)
                          /\ inSave' = [inSave EXCEPT ![w] = {r}]
    /\ UNCHANGED <<outbox, sent, proc, stream, notified, todo, faults>>

\* The worker's catch: a handler ends, a sweep drops the rest of its batch.
GiveUp(w) ==
    /\ todo' = [todo EXCEPT ![w] = {}]
    /\ inSave' = [inSave EXCEPT ![w] = {}]
    /\ UNCHANGED <<outbox, proc, stream, notified>>

\* Mutant: the error of send() is swallowed and the row saved as sent.
PublishErrorSwallowed(w) ==
    /\ IF proc[w[1]] = "unplugged" THEN UNCHANGED faults ELSE Fault
    /\ inSave[w] = {}
    /\ \E r \in todo[w] : topic' \in {topic, Append(topic, r)} /\ sent' = sent \cup {r}
    /\ GiveUp(w)

\* send() throws; the broker may have appended the message all the same.
\* Once the producer is disconnected this is what every send does.
PublishFails(w) ==
    /\ IF proc[w[1]] = "unplugged" THEN UNCHANGED faults ELSE Fault
    /\ inSave[w] = {}
    /\ \E r \in todo[w] : topic' \in {topic, Append(topic, r)}
    /\ GiveUp(w)
    /\ UNCHANGED sent

\* save() resolves: status "sent", and the loop goes on to its next row.
SaveOk(w) ==
    /\ \E r \in inSave[w] : /\ sent' = sent \cup {r}
                            /\ todo' = [todo EXCEPT ![w] = @ \ {r}]
    /\ inSave' = [inSave EXCEPT ![w] = {}]
    /\ UNCHANGED <<outbox, topic, proc, stream, notified, faults>>

\* save() throws; the update may have been applied all the same.
SaveFails(w) ==
    /\ Fault
    /\ \E r \in inSave[w] : sent' \in {sent, sent \cup {r}}
    /\ GiveUp(w)
    /\ UNCHANGED topic

-----------------------------------------------------------------------------
Process(i) == Boot(i) \/ StreamOpens(i) \/ StreamError(i) \/ Stop(i)
              \/ Unplug(i) \/ Exit(i) \/ Crash(i)
Change(i, r) == HandleChange(i, r) \/ HandleChangeFails(i, r)
Publication(w) == PublishOk(w) \/ PublishFails(w) \/ SaveOk(w) \/ SaveFails(w)

Next ==
    \/ \E i \in Instances : Process(i)
    \/ \E i \in Instances, r \in Rows : Commit(i, r) \/ Change(i, r)
    \/ \E i \in Instances, s \in Sweeps : StartSweep(i, s)
    \/ \E w \in Workers : Publication(w)

\* A supervisor restarts the process; the timer keeps firing; a send or a
\* save that was issued is eventually answered; shutdown runs to its end.
Fairness ==
    /\ \A i \in Instances : /\ WF_vars(Boot(i))
                            /\ WF_vars(Unplug(i))
                            /\ WF_vars(Exit(i))
    /\ \A i \in Instances, s \in Sweeps : WF_vars(StartSweep(i, s))
    /\ \A w \in Workers : WF_vars(Publication(w))

Spec == Init /\ [][Next]_vars

FairSpec == Spec /\ Fairness

-----------------------------------------------------------------------------
(* Properties.                                                             *)

\* A row that says "sent" is in the Kafka log: no interleaving of handlers,
\* overlapping sweeps, crashes and failed saves marks an event sent that no
\* consumer will ever see (publishPending() sends before it saves).
SentIsPublished == sent \subseteq ToSet(topic)

\* The strengthening of SentIsPublished that is inductive: a worker works on
\* rows of the collection only, and what it is about to save is in the log.
WorkIsSound ==
    /\ \A i \in Instances : notified[i] \subseteq ToSet(outbox)
    /\ \A w \in Workers : todo[w] \subseteq ToSet(outbox)
    /\ \A w \in Workers : inSave[w] \subseteq ToSet(topic)

\* Duplicates are bounded by overlap and faults: between two faults each
\* worker appends a row at most once, however handlers, sweeps and instances
\* interleave, because a row saved as sent is not picked up again.
Copies(r) == Cardinality({k \in DOMAIN topic : topic[k] = r})
CopiesBound ==
    \A r \in Rows : Copies(r) <= (faults + 1) * Cardinality(Instances)
                                              * (1 + Cardinality(Sweeps))

\* A pending row is eventually published and marked sent, through crashes,
\* missed change events and sweeps cut short by a failing row.
EventuallySent == \A r \in Rows : r \in ToSet(outbox) ~> r \in sent

\* The relay implements the abstract outbox.
Abstract == INSTANCE ReliablePublication
              WITH committed <- ToSet(outbox), log <- topic, acked <- sent
ImplementsPublication == Abstract!Spec

\* docs/event-catalog.md:6 says the partition key "preserves per-entity
\* ordering": events of one key are first published in commit order.
FirstCopy(r) == CHOOSE k \in DOMAIN topic :
                  topic[k] = r /\ \A m \in 1..(k - 1) : topic[m] # r
=============================================================================
