------------------------ MODULE ReliablePublication ------------------------
(***************************************************************************)
(* What a transactional outbox promises to the rest of the system, with    *)
(* nothing of how it is done: an event is appended to the topic only after *)
(* the transaction that carries it committed, it counts as sent only after *)
(* it was appended, and every committed event is appended at least once.   *)
(***************************************************************************)
EXTENDS Sequences, SequencesExt

CONSTANT Rows            \* the events that may ever be committed

VARIABLES committed,     \* events whose transaction committed
          log,           \* the topic: events in the order of their appends
          acked          \* events recorded as sent

pubVars == <<committed, log, acked>>

Init == committed = {} /\ log = << >> /\ acked = {}

Commit(r) == /\ r \notin committed
             /\ committed' = committed \cup {r}
             /\ UNCHANGED <<log, acked>>

Publish(r) == /\ r \in committed
              /\ log' = Append(log, r)
              /\ UNCHANGED <<committed, acked>>

Acknowledge(r) == /\ r \in ToSet(log)
                  /\ acked' = acked \cup {r}
                  /\ UNCHANGED <<committed, log>>

Next == \E r \in Rows : Commit(r) \/ Publish(r) \/ Acknowledge(r)

Safety == Init /\ [][Next]_pubVars

AtLeastOnce == \A r \in Rows : r \in committed ~> r \in ToSet(log)

Spec == Safety /\ AtLeastOnce
=============================================================================
