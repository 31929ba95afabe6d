-------------------------- MODULE RegistrationFlow --------------------------
(***************************************************************************)
(* From a registration to a profile, across two services: auth-service     *)
(* commits the account and its event, the outbox publishes it, the profile *)
(* consumer creates the document, and meanwhile passengers log in and out  *)
(* and change their email.                                                 *)
(*                                                                         *)
(* The outbox and the consumer group are the abstract specifications that  *)
(* OutboxRelay and IdempotentConsumer implement.  Instead of copies in the *)
(* log, a message may be handled any number of times, and in any order:    *)
(* passengers are keys of their own, in partitions of their own.           *)
(***************************************************************************)
EXTENDS PassengerProfile, Naturals, FiniteSets, Sequences

CONSTANTS NoForm,       \* the passenger has not registered
          MaxFaults     \* bound on events that fail for want of a database

ASSUME BoundAssumption == MaxFaults \in Nat

Forms == [email : Emails \cup {NoEmail}, cityKnown : BOOLEAN]
ASSUME FormAssumption == NoForm \notin Forms

VARIABLES
    form,       \* form[p]: the event's payload, once the account is committed
    log,        \* the topic auth.passenger.registered
    refused,    \* passengers whose event was skipped for an E11000
    parked,     \* positions copied to the dead-letter topic
    faults      \* faults so far

vars == <<profileVars, form, log, refused, parked, faults>>

Registered == {p \in Passengers : form[p] # NoForm}
InLog == {log[k] : k \in DOMAIN log}

Publication == INSTANCE ReliablePublication WITH
    Rows <- Passengers, committed <- Registered, acked <- {}

Delivery == INSTANCE ReliableDelivery WITH
    Events <- Passengers, Dropped <- {}, Positions <- 1..Cardinality(Passengers),
    stored <- {p \in Passengers : HasProfile(p)}, offset <- 0, begun <- 0

-----------------------------------------------------------------------------
TypeOK ==
    /\ ProfileTypeOK
    /\ form \in [Passengers -> Forms \cup {NoForm}]
    /\ log \in Seq(Registered)
    /\ session \cup {p \in Passengers : HasProfile(p)} \subseteq Registered
    /\ refused \subseteq InLog
    /\ parked \subseteq DOMAIN log
    /\ faults \in 0..MaxFaults

Init ==
    /\ ProfileInit
    /\ form = [p \in Passengers |-> NoForm]
    /\ log = << >> /\ refused = {} /\ parked = {} /\ faults = 0

-----------------------------------------------------------------------------
(* auth-service.                                                           *)

\* register(): the account, its session and its event in one transaction; the
\* email and the city are any strings.
Register(p) ==
    /\ \E f \in Forms : form' = [form EXCEPT ![p] = f]
    /\ Publication!Commit(p)
    /\ session' = session \cup {p}
    /\ UNCHANGED <<profile, request, refused, parked, faults>>

\* Mutant: the session check does not need an account.
SignInAnyone(p) == Login(p) /\ UNCHANGED <<form, log, refused, parked, faults>>

SignIn(p) ==
    /\ p \in Registered /\ Login(p)
    /\ UNCHANGED <<form, log, refused, parked, faults>>

SignOut(p) == Logout(p) /\ UNCHANGED <<form, log, refused, parked, faults>>

Publish(p) ==
    /\ p \notin InLog
    /\ UNCHANGED <<profileVars, form, refused, parked, faults>>
    /\ Publication!Publish(p)

-----------------------------------------------------------------------------
(* passenger-service's consumer.                                           *)

\* A city outside of the enum fails the validation in every attempt.
ParkUnknownCity(k) == UNCHANGED profile /\ Delivery!Park(k)

\* E11000 on the email is taken for a duplicate: {skipped: true}.
SkipTakenEmail(k) ==
    /\ Taken(log[k], form[log[k]].email)
    /\ UNCHANGED profile /\ Delivery!Refuse(k)

CreateProfile(k) == Create(log[k], form[log[k]].email) /\ Delivery!Store(k)

\* Mutant: the consumer upserts, a delivery that comes again resets the email.
HandleEventUpserts(k) ==
    /\ IF ~form[log[k]].cityKnown THEN ParkUnknownCity(k)
       ELSE SkipTakenEmail(k) \/
            /\ Create(log[k], form[log[k]].email)
            /\ UNCHANGED <<log, refused, parked>>
    /\ UNCHANGED <<session, request, form, faults>>

\* A delivery of an event whose marker is stored is skipped (no step).
HandleEvent(k) ==
    /\ ~HasProfile(log[k])
    /\ IF form[log[k]].cityKnown THEN SkipTakenEmail(k) \/ CreateProfile(k)
       ELSE ParkUnknownCity(k)
    /\ UNCHANGED <<session, request, form, faults>>

\* All attempts fail for want of a database.
AttemptsFail(k) ==
    /\ faults < MaxFaults /\ faults' = faults + 1
    /\ UNCHANGED <<profileVars, form>>
    /\ Delivery!Park(k)

-----------------------------------------------------------------------------
Endpoint(r) ==
    /\ \/ \E p \in Registered, email \in Emails : Arrive(r, p, email)
       \/ Patch(r)
    /\ UNCHANGED <<form, log, refused, parked, faults>>

Next == \/ \E p \in Passengers : Register(p) \/ SignIn(p) \/ SignOut(p) \/ Publish(p)
        \/ \E k \in DOMAIN log : HandleEvent(k) \/ AttemptsFail(k)
        \/ \E r \in Requests : Endpoint(r)

\* Delivery promises nothing more for a message that is settled.
FirstHandling(k) ==
    k \in DOMAIN log /\ ~Delivery!Settled(k) /\ (HandleEvent(k) \/ AttemptsFail(k))

\* ReliablePublication and ReliableDelivery: at least once, each.
Fairness == /\ \A p \in Passengers : WF_vars(Publish(p))
            /\ \A k \in 1..Cardinality(Passengers) : WF_vars(FirstHandling(k))

Spec == Init /\ [][Next]_vars
FairSpec == Spec /\ Fairness

-----------------------------------------------------------------------------
(* Properties.                                                             *)

\* A profile begins with what its event says, and from then on it changes
\* only by a request for that passenger whose session was valid at some time
\* since it arrived: not by the event when it is delivered again, nor by a
\* PATCH that comes before the event (passengerProfileController.js:59-62,
\* passengerRegisteredConsumer.js:1-6, requireAuth.js:7-15).
ProfilesFollowEvents ==
    [][\A p \in Passengers : profile'[p] # profile[p] =>
          IF HasProfile(p)
          THEN \E r \in Requests :
                   request[r].pc = "update" /\ request[r].who = p /\ request[r].open
          ELSE p \in InLog /\ profile'[p] = form[p].email]_vars

\* Two passengers never have one email address, except in two spellings, and
\* then one of them is as it was typed in a registration: PATCH stores lower
\* case (passengerProfileController.js:44), the consumer does not.
SharedOnlyBySpelling ==
    \A p, q \in Passengers :
        /\ p # q /\ {profile[p], profile[q]} \subseteq Emails
        /\ Lower[profile[p]] = Lower[profile[q]]
        => /\ profile[p] # profile[q]
           /\ \E x \in {p, q} : profile[x] = form[x].email /\ Lower[profile[x]] # profile[x]

\* Every registered passenger gets a profile, and "try again shortly"
\* (passengerProfileController.js:63) comes true, unless the city is none the
\* schema knows, the email was taken when its event came, or something failed.
ProfilesCome ==
    \A p \in Passengers :
        p \in Registered ~> \/ HasProfile(p)
                            \/ p \in Registered /\ ~form[p].cityKnown
                            \/ p \in refused /\ form[p].email # NoEmail
                            \/ faults > 0
=============================================================================
