------------------------ MODULE MCIdempotentConsumer ------------------------
(* Small instances of IdempotentConsumer for TLC. *)
EXTENDS IdempotentConsumer, TLC

CONSTANT m1, m2, e1, e2, badCity, notJson, offSchema, email

\* An event, messages that cannot be handled, another event, the first again.
MixedLog == <<e1, badCity, e2, e1>>
RepeatLog == <<e1, notJson, offSchema, e1>>
TwoLog == <<e1, e2>>

\* Each event has its own document (its eventId, its passenger's _id) ...
OwnKeys == [e \in Events |-> {e}]
\* ... or two passengers registered with the same email address.
SameEmail == [e \in Events |-> {e, email}]
NoKeys == [e \in Events |-> {}]

MemberSymmetry == Permutations(Members)
=============================================================================
