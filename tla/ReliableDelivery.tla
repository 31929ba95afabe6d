-------------------------- MODULE ReliableDelivery --------------------------
(***************************************************************************)
(* What a consumer group promises to the rest of the system, with nothing  *)
(* of how it is done: the effect of an event is stored at most once; the   *)
(* group's offset only moves forward, and only past messages of which      *)
(* something is left (the effect, a copy in the dead-letter topic, ...);   *)
(* and every message is settled in the end, but those before the point at  *)
(* which a group without an offset last began.                             *)
(***************************************************************************)
EXTENDS Integers, Sequences

CONSTANTS Events,
          Dropped,       \* events that the consumer's schema rejects
          Positions      \* the positions the log may ever have

VARIABLES log,           \* the partition
          stored,        \* events whose effect is stored
          refused,       \* events whose document another one excludes
          parked,        \* positions copied to the dead-letter topic
          offset,        \* the group's committed offset, or NoOffset
          begun          \* messages before the last assignment of a group
                        \* that has no offset (0 for one that always had one)

deliveryVars == <<log, stored, refused, parked, offset, begun>>

NoOffset == -1

Settled(k) == log[k] \in stored \cup refused \cup Dropped \/ k \in parked

Init == /\ log = << >> /\ stored = {} /\ refused = {} /\ parked = {}
        /\ offset \in {NoOffset, 0} /\ begun = 0

Receive(e) == /\ log' = Append(log, e)
              /\ UNCHANGED <<stored, refused, parked, offset, begun>>

Store(k) == /\ log[k] \notin stored
            /\ stored' = stored \cup {log[k]}
            /\ UNCHANGED <<log, refused, parked, offset, begun>>

Refuse(k) == /\ log[k] \notin stored
             /\ refused' = refused \cup {log[k]}
             /\ UNCHANGED <<log, stored, parked, offset, begun>>

Park(k) == /\ parked' = parked \cup {k}
           /\ UNCHANGED <<log, stored, refused, offset, begun>>

\* A group without an offset starts at the end of the log, as often as it is
\* assigned the partition before its first commit.
StartAtEnd == /\ offset = NoOffset
              /\ begun' = Len(log)
              /\ UNCHANGED <<log, stored, refused, parked, offset>>

Advance == /\ offset' \in offset + 1..Len(log)
           /\ \A k \in begun + 1..offset' : Settled(k)
           /\ UNCHANGED <<log, stored, refused, parked, begun>>

Handle(k) == Store(k) \/ Refuse(k) \/ Park(k)

Next == \/ \E e \in Events : Receive(e)
        \/ \E k \in DOMAIN log : Handle(k)
        \/ StartAtEnd \/ Advance

Safety == Init /\ [][Next]_deliveryVars

\* What a group promises that has an offset, or keeps its members until it has.
AtLeastOnce ==
    \A k \in Positions :
        k \in DOMAIN log ~> k \in DOMAIN log /\ (k <= begun \/ Settled(k))

Spec == Safety /\ AtLeastOnce
=============================================================================
