-------------------------- MODULE PassengerProfile --------------------------
(***************************************************************************)
(* The profiles of passenger-service and the requests for them: GET and    *)
(* PATCH /me, behind requireAuth(), which asks auth-service whether the    *)
(* session is valid and goes on with the passenger it names.  The check    *)
(* and the update are two steps; a logout may come in between.             *)
(*                                                                         *)
(* Abstractions: of a profile only the email is kept, the one field with a *)
(* unique index and a spelling; a request that leaves it alone (a GET, a   *)
(* PATCH of other fields, a body that is refused) passes the same check    *)
(* and changes nothing here.  Answers are left out: no step depends on     *)
(* them.  A request that fails may have been applied: it is then an Update *)
(* whose answer was lost.  The session is the passenger's, not a token's:  *)
(* after another login a request with the older token still passes here,   *)
(* which verifyToken() refuses; the model allows more than the code.       *)
(***************************************************************************)
CONSTANTS Passengers, Requests,
          Emails, Lower,   \* addresses as typed, Lower[e]: e in lower case
          NoEmail,         \* the field is absent
          NoProfile,       \* there is no document
          Nobody           \* no passenger

ASSUME EmailAssumption ==
    /\ Lower \in [Emails -> Emails]
    /\ \A e \in Emails : Lower[Lower[e]] = Lower[e]
    /\ NoEmail \notin Emails /\ NoProfile \notin Emails \cup {NoEmail}
    /\ Nobody \notin Passengers

VARIABLES
    profile,    \* profile[p]: the email of p's document
    session,    \* passengers whose session auth-service accepts
    request     \* request[r]: whom r is for, and the email it sets

profileVars == <<profile, session, request>>

-----------------------------------------------------------------------------
NoRequest == [pc |-> "idle", who |-> Nobody, email |-> NoEmail, open |-> FALSE]

HasProfile(p) == profile[p] # NoProfile

ProfileTypeOK ==
    /\ profile \in [Passengers -> Emails \cup {NoEmail, NoProfile}]
    /\ session \subseteq Passengers
    /\ request \in [Requests -> {NoRequest} \cup
           [pc : {"verify", "update"}, who : Passengers, email : Emails, open : BOOLEAN]]

ProfileInit ==
    /\ profile = [p \in Passengers |-> NoProfile]
    /\ session = {}
    /\ request = [r \in Requests |-> NoRequest]

\* Mutant: the index is unique but not sparse, absent emails collide.
TakenNotSparse(p, email) == \E q \in Passengers \ {p} : profile[q] = email

\* The unique index on the email is sparse: documents without one are not in it.
Taken(p, email) == email # NoEmail /\ \E q \in Passengers \ {p} : profile[q] = email

\* PassengerProfile.create() of the consumer, with the email as it was typed.
Create(p, email) == ~Taken(p, email) /\ profile' = [profile EXCEPT ![p] = email]

-----------------------------------------------------------------------------
(* Sessions, as the services see them (PassengerAuth has the detail).  A    *)
(* request is "open" once its session was valid at some instant since it    *)
(* arrived (a history variable).                                           *)

Login(p) ==
    /\ p \notin session
    /\ session' = session \cup {p}
    /\ request' = [r \in Requests |->
           IF request[r].who = p THEN [request[r] EXCEPT !.open = TRUE] ELSE request[r]]
    /\ UNCHANGED profile

Logout(p) ==
    /\ p \in session
    /\ session' = session \ {p}
    /\ UNCHANGED <<profile, request>>

-----------------------------------------------------------------------------
(* PATCH /me                                                               *)

Arrive(r, p, email) ==
    /\ request[r] = NoRequest
    /\ request' = [request EXCEPT ![r] =
           [pc |-> "verify", who |-> p, email |-> email, open |-> p \in session]]
    /\ UNCHANGED <<profile, session>>

\* The request is answered, or given up by either side.
Finish(r) == request' = [request EXCEPT ![r] = NoRequest]

\* POST /api/v1/auth/verify: {valid, passenger: {id}} of that instant.
Verify(r) ==
    /\ request[r].pc = "verify"
    /\ IF request[r].who \in session
       THEN request' = [request EXCEPT ![r].pc = "update"]
       ELSE Finish(r)
    /\ UNCHANGED <<profile, session>>

\* Mutants: the email is stored as it was typed; the update has {upsert: true}.
UpdateAsTyped(r) ==
    /\ request[r].pc = "update"
    /\ LET p == request[r].who
           email == request[r].email
       IN  IF ~HasProfile(p) \/ Taken(p, email) THEN UNCHANGED profile
           ELSE profile' = [profile EXCEPT ![p] = email]
    /\ Finish(r)
    /\ UNCHANGED session
UpdateUpserts(r) ==
    /\ request[r].pc = "update"
    /\ LET p == request[r].who
           email == Lower[request[r].email]
       IN  IF Taken(p, email) THEN UNCHANGED profile
           ELSE profile' = [profile EXCEPT ![p] = email]
    /\ Finish(r)
    /\ UNCHANGED session

\* findByIdAndUpdate() with the email in lower case: null without a document
\* (503), E11000 if another one has that email (409).
Update(r) ==
    /\ request[r].pc = "update"
    /\ LET p == request[r].who
           email == Lower[request[r].email]
       IN  IF ~HasProfile(p) \/ Taken(p, email) THEN UNCHANGED profile
           ELSE profile' = [profile EXCEPT ![p] = email]
    /\ Finish(r)
    /\ UNCHANGED session

\* auth-service cannot be reached, the update fails, a client or process dies.
Fails(r) ==
    /\ request[r] # NoRequest
    /\ Finish(r)
    /\ UNCHANGED <<profile, session>>

Patch(r) == Verify(r) \/ Update(r) \/ Fails(r)
=============================================================================
